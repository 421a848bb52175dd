----------------------------- MODULE Autoscaler -----------------------------
(***************************************************************************)
(* The autoscaler (autoscaler/main.go): four plugins vote on the scheduler *)
(* deployment of a queue, and UpdateDeployment adds or removes a replica.  *)
(* It changes the object it gets from the informer's lister in place and   *)
(* sends that; a conflict is retried up to five times on whatever object   *)
(* the lister has by then, which may be the same one, changed again.  Any  *)
(* other error, and the fifth conflict, end the process.                   *)
(*                                                                         *)
(* The API server numbers the versions of the deployment; api holds all of *)
(* them.  Its users and controllers change it too.                         *)
(***************************************************************************)
EXTENDS Integers, Sequences, FiniteSets

CONSTANTS
    MaxReplicas,          \* bound on what users set
    MaxVersion,           \* bound on the number of versions
    MinimumAmtOfData,     \* readings the regression wants before it votes
    Readings,             \* what the broker and the listers may report
    Nothing

Retries  == 5             \* retry.DefaultRetry
ServiceRate == 2400       \* pods a scheduler is taken to place in a minute

AutoscalerAssumption == MaxReplicas \in Nat /\ MaxVersion \in Nat \ {0} /\ MinimumAmtOfData \in Nat

VARIABLES
    api,          \* the versions of the deployment: replicas and who wrote them
    lister,       \* the lister's object: replicas and version
    unique,       \* whether one deployment, and no more, has the queue's label
    phase,        \* "sleep", "modify" or "send"
    decision,
    obj,          \* the object being sent, as it is
    tries,        \* of RetryOnConflict
    dataCount     \* of the regression plugin, as far as it matters

scaler == <<phase, decision, obj, tries, dataCount>>
scalerVars == <<api, lister, unique, scaler>>

Latest == Len(api)

Version(r, by) == [replicas |-> r, by |-> by]
Object(r, v)   == [replicas |-> r, version |-> v]

-----------------------------------------------------------------------------
(* The plugins.  A reading has the messages ready (pending), the nodes and *)
(* consumers, whether consumers are busy more than half of the time, the   *)
(* pods that arrived in a minute, and what a regression would predict.     *)
RabbitMQ(in) == IF in.busy THEN "ScaleUp" ELSE "DoNotScale"

Factorial[n \in Int] == IF n > 0 THEN n * Factorial[n - 1] ELSE 1

(* The probability that k schedulers choose different ones of n nodes: n   *)
(* nodes, although calProb is documented the other way round.              *)
LikelyDistinct(n, k) ==
    \/ n = 0
    \/ n > 0 /\ 2 * Factorial[n] > Factorial[n - k] * n ^ k

SchedProb(in) == IF LikelyDistinct(in.nodes, in.consumers) THEN "DoNotScale" ELSE "ScaleDown"

(* Also of no pending pods: anything is more than half of 0.               *)
LinearRegression(in, count) ==
    LET diff == in.pending - in.predicted
    IN  IF count <= MinimumAmtOfData THEN "DoNotScale"
        ELSE IF diff < 0 /\ 2 * (-diff) > in.pending THEN "ScaleUp"
        ELSE IF diff >= 0 /\ 2 * diff > in.pending THEN "ScaleDown"
        ELSE "DoNotScale"

(* A queue that gets more than it can serve has a negative waiting time,   *)
(* which is below every threshold.                                         *)
QueueTheory(in) ==
    LET rate == in.consumers * ServiceRate
    IN  IF rate = in.arrived \/ (rate > in.arrived /\ 2 * in.arrived >= rate * (rate - in.arrived))
        THEN "ScaleUp" ELSE "DoNotScale"

(* makeDecision: votes not to scale are not counted.                       *)
MakeDecision(votes) ==
    LET for(d) == Cardinality({i \in DOMAIN votes : votes[i] = d})
    IN  CASE for("ScaleUp") > for("ScaleDown") -> "ScaleUp"
          [] for("ScaleUp") < for("ScaleDown") -> "ScaleDown"
          [] OTHER -> "DoNotScale"

Votes(in, count) == <<RabbitMQ(in), SchedProb(in), LinearRegression(in, count), QueueTheory(in)>>

-----------------------------------------------------------------------------
ScalerInit ==
    /\ api \in {<<Version(r, "user")>> : r \in 0..MaxReplicas}
    /\ lister = Object(api[1].replicas, 1)
    /\ unique \in BOOLEAN
    /\ phase = "sleep" /\ decision = Nothing /\ obj = Nothing /\ tries = 0 /\ dataCount = 0

(* One round of the main loop.                                             *)
Compute(in) ==
    LET count == IF dataCount > MinimumAmtOfData THEN dataCount ELSE dataCount + 1
        d == MakeDecision(Votes(in, count))
    IN  /\ phase = "sleep"
        /\ dataCount' = count
        /\ IF d = "DoNotScale" THEN UNCHANGED <<phase, decision>>
           ELSE phase' = "modify" /\ decision' = d
        /\ UNCHANGED <<api, lister, unique, obj, tries>>

Sleep == phase' = "sleep" /\ decision' = Nothing /\ obj' = Nothing /\ tries' = 0

(* A panic; the new process fills its cache before it does anything.       *)
Die ==
    /\ Sleep /\ dataCount' = 0
    /\ lister' = Object(api'[Len(api')].replicas, Len(api'))

Changed(r) == IF decision = "ScaleUp" THEN r + 1 ELSE r - 1

(* Mutant: the last replica may go, too. *)
MayChangeAny(r) == decision = "ScaleUp" \/ r > 0

MayChange(r) == decision = "ScaleUp" \/ r > 1

(* The first half of the retried function: the object is the lister's own. *)
Modify ==
    /\ phase = "modify"
    /\ \/ ~unique /\ UNCHANGED api /\ Die
       \/ /\ unique /\ ~MayChange(lister.replicas)
          /\ Sleep /\ UNCHANGED <<api, lister, dataCount>>
       \/ /\ unique /\ MayChange(lister.replicas)
          /\ lister' = [lister EXCEPT !.replicas = Changed(@)]
          /\ obj' = lister'
          /\ phase' = "send"
          /\ UNCHANGED <<api, decision, tries, dataCount>>
    /\ UNCHANGED unique

Conflict ==
    /\ obj.version # Latest
    /\ IF tries + 1 = Retries THEN Die
       ELSE /\ phase' = "modify" /\ tries' = tries + 1 /\ obj' = Nothing
            /\ UNCHANGED <<lister, decision, dataCount>>

(* The update is taken when nobody has written since; the answer may get   *)
(* lost, as may the request.                                               *)
Send ==
    /\ phase = "send"
    /\ \/ UNCHANGED api /\ (Conflict \/ Die)
       \/ /\ obj.version = Latest /\ Latest < MaxVersion
          /\ api' = Append(api, Version(obj.replicas, decision))
          /\ \/ Sleep /\ UNCHANGED <<lister, dataCount>>
             \/ Die
    /\ UNCHANGED unique

-----------------------------------------------------------------------------
(* Users and the deployment controller write versions of their own; what   *)
(* carries the label changes; the informer replaces the lister's object.   *)
Edit(r) ==
    /\ Latest < MaxVersion
    /\ api' = Append(api, Version(r, "user"))
    /\ UNCHANGED <<lister, unique, scaler>>

Label ==
    /\ unique' = ~unique
    /\ UNCHANGED <<api, lister, scaler>>

Deliver ==
    /\ lister.version < Latest
    /\ lister' = Object(api[lister.version + 1].replicas, lister.version + 1)
    /\ UNCHANGED <<api, unique, scaler>>

Crash ==
    /\ UNCHANGED <<api, unique>>
    /\ Die

ScalerNext ==
    \/ \E in \in Readings : Compute(in)
    \/ Modify \/ Send
    \/ \E r \in 0..MaxReplicas : Edit(r)
    \/ Label \/ Deliver \/ Crash

ScalerSpec == ScalerInit /\ [][ScalerNext]_scalerVars

-----------------------------------------------------------------------------
(* However far the lister lags, whoever else writes and although retries   *)
(* change the lister's object again, every version the autoscaler writes   *)
(* has one replica more or less than the version before it, as decided,    *)
(* and it never takes the last one.                                        *)
StepsByOne ==
    \A i \in 2..Latest :
        /\ api[i].by = "ScaleUp" => api[i].replicas = api[i-1].replicas + 1
        /\ api[i].by = "ScaleDown" => /\ api[i].replicas = api[i-1].replicas - 1
                                      /\ api[i].replicas >= 1
=============================================================================
