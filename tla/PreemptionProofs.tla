--------------------------- MODULE PreemptionProofs ---------------------------
(***************************************************************************)
(* Preemption for any pods, any number of schedulers, any requests and     *)
(* priorities, and any number of crashes and broken connections: what a    *)
(* preemption waits for ends, a victim is deleted for a pod that needs its *)
(* place, if no user has deleted that, and no reservation is lost or left  *)
(* over.                                                                   *)
(***************************************************************************)
EXTENDS Preemption, ListTheorems, TLAPS

Types ==
    /\ phase \in [Pods -> {"pending", "bound", "running", "terminating", "gone"}]
    /\ queue \subseteq Pods
    /\ work \in [Schedulers -> Works \cup {None}]
    /\ shown \in [Schedulers -> [Pods -> {"unbound", "bound", "running"}]]
    /\ abandoned \in [Pods -> Nat] /\ faults \in Nat

(* A pod that an informer shows running, and so a victim, has run: it is   *)
(* not waiting for its first node.                                         *)
HasRun(p) == phase[p] \in {"running", "terminating", "gone"} \/ p \in born

ShownHaveRun   == \A s \in Schedulers, p \in Pods : shown[s][p] = "running" => HasRun(p)
VictimsHaveRun == \A s \in Schedulers : work[s] # None => HasRun(work[s].victim)

(* While nothing goes wrong, a pod has one request, in the queue or with   *)
(* one scheduler, and waits for a node until that scheduler binds it or a  *)
(* user deletes it.                                                        *)
Waits(p) == phase[p] = "pending" \/ p \in born \cup removed

QueuedWait     == \A p \in queue : Waits(p)
PreemptorsWait == \A s \in Schedulers :
                    work[s] # None /\ work[s].step # "release" => Waits(work[s].pod)
OneOwner ==
    /\ \A s \in Schedulers : work[s] # None => work[s].pod \notin queue \/ work[s].pod \in born
    /\ \A s, t \in Schedulers :
         s # t /\ work[s] # None /\ work[t] # None /\ work[s].pod = work[t].pod
            => work[s].pod \in born

Orderly == QueuedWait /\ PreemptorsWait /\ OneOwner

IInv == Types /\ ShownHaveRun /\ VictimsHaveRun /\ AwaitedPodsEnd /\ (Undisturbed => Orderly)

-----------------------------------------------------------------------------
LEMMA InitIInv == Init => IInv
<1> SUFFICES ASSUME Init PROVE IInv
  OBVIOUS
<1>1. Types
  BY DEF Init, Types, Look
<1>2. ShownHaveRun
  BY DEF Init, ShownHaveRun, Look
<1>3. VictimsHaveRun /\ AwaitedPodsEnd
  BY DEF Init, VictimsHaveRun, AwaitedPodsEnd, Doing
<1>4. Orderly
  BY DEF Init, Orderly, QueuedWait, PreemptorsWait, OneOwner, Waits
<1> QED
  BY <1>1, <1>2, <1>3, <1>4 DEF IInv

(* A scheduler in a preemption goes on with the same one.                  *)
LEMMA GotoKeepsPair ==
    ASSUME work \in [Schedulers -> Works \cup {None}],
           NEW s \in Schedulers, work[s] # None,
           NEW step \in {"reserve", "delete", "await", "release"}, Goto(s, step)
    PROVE  /\ work' \in [Schedulers -> Works \cup {None}]
           /\ \A t \in Schedulers \ {s} : work'[t] = work[t]
           /\ work'[s] \in Works
           /\ work'[s].pod = work[s].pod /\ work'[s].victim = work[s].victim
           /\ work'[s].owed = work[s].owed /\ work'[s].step = step
<1>1. work[s] \in Works
  OBVIOUS
<1>2. [work[s] EXCEPT !.step = step] \in Works
  BY <1>1 DEF Works
<1>3. work' = [work EXCEPT ![s] = [work[s] EXCEPT !.step = step]]
  BY DEF Goto
<1> QED
  BY <1>1, <1>2, <1>3 DEF Works

(* Every step keeps the types.                                             *)
LEMMA StepTypes == Types /\ [Next]_vars => Types'
<1> SUFFICES ASSUME Types, [Next]_vars PROVE Types'
  OBVIOUS
<1> USE DEF Types, Works
<1>1. ASSUME NEW p \in Pods, Skip(p) \/ Start(p) \/ End(p) \/ Recreate(p) \/ UserDelete(p)
      PROVE Types'
  BY <1>1 DEF Skip, Start, End, Recreate, UserDelete, Deleted, api, view, history
<1>2. ASSUME NEW s \in Schedulers, NEW p \in Pods, Place(s, p) PROVE Types'
  BY <1>2 DEF Place, Bound, view, history
<1>3. ASSUME NEW s \in Schedulers, NEW p \in Pods, NEW v \in Pods, ChooseVictim(s, p, v)
      PROVE Types'
  BY <1>3 DEF ChooseVictim, api, view
<1>4. ASSUME NEW s \in Schedulers, Reserve(s) \/ DeleteVictim(s) \/ Bind(s) \/ Release(s)
      PROVE Types'
  <2>1. work[s] \in Works
    BY <1>4 DEF Reserve, DeleteVictim, Bind, Release, Doing
  <2>2. work' \in [Schedulers -> Works \cup {None}]
    <3>1. CASE Release(s)
      BY <3>1 DEF Release
    <3>2. CASE ~Release(s)
      BY <1>4, <3>2, GotoKeepsPair, Zenon DEF Reserve, DeleteVictim, Bind, Doing
    <3> QED
      BY <3>1, <3>2
  <2>3. phase' \in [Pods -> {"pending", "bound", "running", "terminating", "gone"}]
    BY <1>4, <2>1 DEF Reserve, DeleteVictim, Bind, Release, Deleted, Bound
  <2> QED
    BY <1>4, <2>2, <2>3 DEF Reserve, DeleteVictim, Bind, Release, view, history
<1>5. ASSUME NEW s \in Schedulers, Panic(s) \/ Crash(s) PROVE Types'
  <2>1. Restart(s) /\ faults' \in Nat
    BY <1>5 DEF Panic, Crash
  <2>2. CASE work[s] = None
    BY <2>1, <2>2 DEF Restart, api
  <2>3. CASE work[s] # None
    <3>1. work[s].pod \in Pods /\ work[s].victim \in Pods
      BY <2>3
    <3> QED
      BY <2>1, <3>1 DEF Restart, api
  <2> QED
    BY <2>2, <2>3
<1>6. ASSUME NEW s \in Schedulers, Disconnect(s) PROVE Types'
  <2>1. work[s] \in Works
    BY <1>6 DEF Disconnect
  <2>2. [work[s] EXCEPT !.owed = FALSE] \in Works
    BY <2>1
  <2> QED
    BY <1>6, <2>1, <2>2 DEF Disconnect, api, view, history
<1>7. ASSUME NEW s \in Schedulers, ShowPods(s) \/ ShowNode(s) PROVE Types'
  <2>1. Look \in [Pods -> {"unbound", "bound", "running"}]
    BY DEF Look
  <2> QED
    BY <1>7, <2>1 DEF ShowPods, ShowNode, api, history
<1>8. CASE UNCHANGED vars
  <2>1. UNCHANGED <<phase, queue, work, shown, abandoned, faults>>
    BY <1>8 DEF vars, api, view, history
  <2> QED
    BY <2>1
<1> QED
  BY <1>1, <1>2, <1>3, <1>4, <1>5, <1>6, <1>7, <1>8 DEF Next, Proceed

-----------------------------------------------------------------------------
(* A pod that has run does not wait for a first node again, unless it is   *)
(* created again.                                                          *)
LEMMA HasRunStays ==
    ASSUME Types, [Next]_vars, NEW p \in Pods, HasRun(p)
    PROVE  HasRun(p)'
<1>1. ASSUME NEW q \in Pods, Skip(q) \/ Start(q) \/ End(q) \/ Recreate(q) \/ UserDelete(q)
      PROVE HasRun(p)'
  BY <1>1 DEF Types, HasRun, Skip, Start, End, Recreate, UserDelete, Deleted, api
<1>2. ASSUME NEW s \in Schedulers, NEW q \in Pods, Place(s, q) PROVE HasRun(p)'
  BY <1>2 DEF Types, HasRun, Place, Bound
<1>3. ASSUME NEW s \in Schedulers, DeleteVictim(s) \/ Bind(s) PROVE HasRun(p)'
  BY <1>3 DEF Types, HasRun, DeleteVictim, Bind, Deleted, Bound
<1>4. CASE UNCHANGED phase /\ UNCHANGED born
  BY <1>4 DEF HasRun
<1> QED
  BY <1>1, <1>2, <1>3, <1>4 DEF Next, Proceed, ChooseVictim, Reserve, Release, Panic, Crash,
     Disconnect, Restart, ShowPods, ShowNode, vars, api

(* A preemption keeps its pod and its victim from ChooseVictim to its end. *)
SamePair(s) == /\ work[s] # None
               /\ work'[s].pod = work[s].pod /\ work'[s].victim = work[s].victim

LEMMA WorkChanges ==
    ASSUME Types, [Next]_vars, NEW s \in Schedulers, work'[s] # None
    PROVE  SamePair(s) \/ \E p, v \in Pods : ChooseVictim(s, p, v)
<1> USE DEF Types
<1>1. CASE UNCHANGED work
  BY <1>1 DEF SamePair
<1>2. ASSUME NEW t \in Schedulers, Reserve(t) \/ DeleteVictim(t) \/ Bind(t) PROVE SamePair(s)
  <2>1. work[t] # None /\ \E step \in {"delete", "await", "release"} : Goto(t, step)
    BY <1>2 DEF Reserve, DeleteVictim, Bind, Doing
  <2>2. /\ \A u \in Schedulers \ {t} : work'[u] = work[u]
        /\ work'[t].pod = work[t].pod /\ work'[t].victim = work[t].victim
    BY <2>1, GotoKeepsPair, Zenon
  <2> QED
    BY <2>1, <2>2 DEF SamePair
<1>3. ASSUME NEW t \in Schedulers, Release(t) \/ Panic(t) \/ Crash(t) PROVE SamePair(s)
  BY <1>3 DEF Release, Panic, Crash, Restart, SamePair
<1>4. ASSUME NEW t \in Schedulers, Disconnect(t) PROVE SamePair(s)
  BY <1>4 DEF Disconnect, SamePair, Works
<1>5. ASSUME NEW t \in Schedulers, NEW p \in Pods, NEW v \in Pods, ChooseVictim(t, p, v)
      PROVE  SamePair(s) \/ \E q, w \in Pods : ChooseVictim(s, q, w)
  <2>1. CASE t = s
    BY <1>5, <2>1
  <2>2. CASE t # s
    <3>1. work'[s] = work[s]
      BY <1>5, <2>2 DEF ChooseVictim
    <3> QED
      BY <3>1 DEF SamePair
  <2> QED
    BY <2>1, <2>2
<1> QED
  BY <1>1, <1>2, <1>3, <1>4, <1>5 DEF Next, Proceed, Skip, Start, End, Recreate, UserDelete, Place,
     ShowPods, ShowNode, vars

(* An informer that begins to show a pod running is ShowPods.              *)
LEMMA ShownChanges ==
    ASSUME Types, [Next]_vars, NEW s \in Schedulers, NEW p \in Pods,
           shown'[s][p] = "running", shown[s][p] # "running"
    PROVE  ShowPods(s)
<1> USE DEF Types
<1>1. ASSUME NEW t \in Schedulers, Panic(t) \/ Crash(t) PROVE FALSE
  BY <1>1 DEF Panic, Crash, Restart
<1>2. ASSUME NEW t \in Schedulers, ShowPods(t) PROVE t = s
  BY <1>2 DEF ShowPods
<1>3. ~ UNCHANGED shown
  OBVIOUS
<1> QED
  BY <1>1, <1>2, <1>3 DEF Next, Proceed, Skip, Start, End, Recreate, UserDelete, Place, ChooseVictim,
     Reserve, DeleteVictim, Bind, Release, Disconnect, ShowNode, vars, view

(* What is shown running has run, and so has what is chosen as a victim.   *)
LEMMA StepHasRun ==
    Types /\ ShownHaveRun /\ VictimsHaveRun /\ [Next]_vars => ShownHaveRun' /\ VictimsHaveRun'
<1> SUFFICES ASSUME Types, ShownHaveRun, VictimsHaveRun, [Next]_vars
             PROVE  ShownHaveRun' /\ VictimsHaveRun'
  OBVIOUS
<1>1. Types'
  BY StepTypes
<1>2. ASSUME NEW s \in Schedulers, NEW p \in Pods, shown'[s][p] = "running"
      PROVE  HasRun(p)'
  <2>1. CASE shown[s][p] = "running"
    BY <2>1, HasRunStays DEF ShownHaveRun
  <2>2. CASE shown[s][p] # "running"
    <3>1. ShowPods(s)
      BY <1>2, <2>2, ShownChanges
    <3>2. Look[p] = "running"
      BY <1>2, <3>1 DEF Types, ShowPods
    <3>3. phase[p] \in {"running", "terminating"}
      BY <3>2 DEF Types, Look
    <3> QED
      BY <3>3, HasRunStays DEF HasRun
  <2> QED
    BY <2>1, <2>2
<1>3. ASSUME NEW s \in Schedulers, work'[s] # None
      PROVE  HasRun(work[s].victim)'
  <2>1. CASE SamePair(s)
    <3>1. work[s].victim \in Pods /\ HasRun(work[s].victim)
      BY <2>1 DEF Types, Works, VictimsHaveRun, SamePair
    <3>2. \A v \in Pods : HasRun(v) => HasRun(v)'
      BY HasRunStays
    <3> QED
      BY <2>1, <3>1, <3>2 DEF HasRun, SamePair
  <2>2. ASSUME NEW p \in Pods, NEW v \in Pods, ChooseVictim(s, p, v)
        PROVE  HasRun(work[s].victim)'
    <3>1. shown[s][v] = "running"
      BY <2>2 DEF ChooseVictim, Preemptable
    <3>2. HasRun(v)'
      BY <3>1, HasRunStays DEF ShownHaveRun
    <3>3. work'[s].victim = v
      BY <2>2 DEF ChooseVictim, Types
    <3> QED
      BY <3>2, <3>3 DEF HasRun
  <2> QED
    BY <1>3, <2>1, <2>2, WorkChanges
<1> QED
  BY <1>2, <1>3 DEF ShownHaveRun, VictimsHaveRun

-----------------------------------------------------------------------------
(* A pod that is being deleted, or has gone, stays so until it is created  *)
(* again.                                                                  *)
Ends(p) == phase[p] \in {"terminating", "gone"} \/ p \in born

LEMMA EndsStays ==
    ASSUME Types, [Next]_vars, NEW p \in Pods, Ends(p)
    PROVE  Ends(p)'
<1>1. ASSUME NEW q \in Pods, Skip(q) \/ Start(q) \/ End(q) \/ Recreate(q) \/ UserDelete(q)
      PROVE Ends(p)'
  BY <1>1 DEF Types, Ends, Skip, Start, End, Recreate, UserDelete, Deleted, api
<1>2. ASSUME NEW s \in Schedulers, NEW q \in Pods, Place(s, q) PROVE Ends(p)'
  BY <1>2 DEF Types, Ends, Place, Bound
<1>3. ASSUME NEW s \in Schedulers, DeleteVictim(s) \/ Bind(s) PROVE Ends(p)'
  BY <1>3 DEF Types, Ends, DeleteVictim, Bind, Deleted, Bound
<1>4. CASE UNCHANGED phase /\ UNCHANGED born
  BY <1>4 DEF Ends
<1> QED
  BY <1>1, <1>2, <1>3, <1>4 DEF Next, Proceed, ChooseVictim, Reserve, Release, Panic, Crash,
     Disconnect, Restart, ShowPods, ShowNode, vars, api

(* A preemption that begins to wait has deleted its victim.                *)
LEMMA AwaitFollowsDelete ==
    ASSUME Types, [Next]_vars, NEW s \in Schedulers,
           work'[s] # None, work'[s].step = "await", s \notin Doing("await")
    PROVE  DeleteVictim(s)
<1> USE DEF Types
<1>1. work'[s] # work[s]
  BY DEF Doing
<1>2. ASSUME NEW t \in Schedulers, Reserve(t) \/ DeleteVictim(t) \/ Bind(t)
      PROVE  DeleteVictim(s)
  <2>1. work[t] # None
    BY <1>2 DEF Reserve, DeleteVictim, Bind, Doing
  <2>2. PICK step \in {"delete", "await", "release"} :
            Goto(t, step) /\ (step = "await" => DeleteVictim(t))
    BY <1>2 DEF Reserve, DeleteVictim, Bind
  <2>3. work'[t].step = step /\ \A u \in Schedulers \ {t} : work'[u] = work[u]
    BY <2>1, <2>2, GotoKeepsPair, Zenon
  <2>4. t = s
    BY <1>1, <2>3
  <2> QED
    BY <2>2, <2>3, <2>4
<1>3. ASSUME NEW t \in Schedulers, Release(t) \/ Panic(t) \/ Crash(t) PROVE FALSE
  BY <1>1, <1>3 DEF Release, Panic, Crash, Restart
<1>4. ASSUME NEW t \in Schedulers, Disconnect(t) PROVE FALSE
  BY <1>1, <1>4 DEF Disconnect, Doing, Works
<1>5. ASSUME NEW t \in Schedulers, NEW p \in Pods, NEW v \in Pods, ChooseVictim(t, p, v)
      PROVE  FALSE
  BY <1>1, <1>5 DEF ChooseVictim
<1> QED
  BY <1>1, <1>2, <1>3, <1>4, <1>5 DEF Next, Proceed, Skip, Start, End, Recreate, UserDelete, Place,
     ShowPods, ShowNode, vars

LEMMA StepAwaited ==
    Types /\ VictimsHaveRun /\ AwaitedPodsEnd /\ [Next]_vars => AwaitedPodsEnd'
<1> SUFFICES ASSUME Types, VictimsHaveRun, AwaitedPodsEnd, [Next]_vars,
                    NEW s \in Schedulers, work'[s] # None, work'[s].step = "await"
             PROVE  Ends(work[s].victim)'
  BY DEF AwaitedPodsEnd, Ends, Doing
<1>1. CASE s \in Doing("await")
  <2>1. SamePair(s)
    BY <1>1, WorkChanges DEF ChooseVictim, Receives, Doing
  <2>2. work[s].victim \in Pods /\ Ends(work[s].victim)
    BY <1>1, <2>1 DEF Types, Works, AwaitedPodsEnd, Ends, SamePair
  <2>3. \A v \in Pods : Ends(v) => Ends(v)'
    BY EndsStays
  <2> QED
    BY <2>1, <2>2, <2>3 DEF Ends, SamePair
<1>2. CASE s \notin Doing("await")
  <2>1. DeleteVictim(s)
    BY <1>2, AwaitFollowsDelete
  <2>2. work[s].victim \in Pods /\ work'[s].victim = work[s].victim
    BY <2>1, GotoKeepsPair DEF Types, Works, DeleteVictim, Doing
  <2> QED
    BY <2>1, <2>2 DEF DeleteVictim, Deleted, Types, Ends
<1> QED
  BY <1>1, <1>2

-----------------------------------------------------------------------------
(* While all has gone well, all went well before, and no process ended.    *)
LEMMA UndisturbedBefore ==
    ASSUME Types, [Next]_vars, Undisturbed'
    PROVE  /\ Undisturbed
           /\ \A s \in Schedulers : ~Panic(s) /\ ~Crash(s) /\ ~Disconnect(s)
<1> USE DEF Types, Undisturbed
<1>1. ASSUME NEW s \in Schedulers, Crash(s) \/ Disconnect(s) PROVE FALSE
  BY <1>1 DEF Crash, Disconnect
<1>2. ASSUME NEW s \in Schedulers, Panic(s) PROVE FALSE
  <2>1. work[s].victim \in Pods /\ s \notin Doing("reserve") /\ work[s] # None
    BY <1>2 DEF Panic, Doing, Works
  <2>2. abandoned'[work[s].victim] = abandoned[work[s].victim] + 1
    BY <1>2, <2>1 DEF Panic, Restart
  <2> QED
    BY <2>1, <2>2
<1>3. UNCHANGED <<faults, abandoned>>
  BY <1>1, <1>2 DEF Next, Proceed, Skip, Start, End, Recreate, UserDelete, Place, ChooseVictim, Reserve,
     DeleteVictim, Bind, Release, ShowPods, ShowNode, vars, history
<1> QED
  BY <1>1, <1>2, <1>3

LEMMA StepOrderly ==
    IInv /\ [Next]_vars /\ Undisturbed' => Orderly'
<1> SUFFICES ASSUME IInv, [Next]_vars, Undisturbed' PROVE Orderly'
  OBVIOUS
<1>1. Types /\ Orderly /\ VictimsHaveRun
  BY UndisturbedBefore DEF IInv
<1>2. \A s \in Schedulers : ~Panic(s) /\ ~Crash(s) /\ ~Disconnect(s)
  BY UndisturbedBefore DEF IInv
<1> USE <1>1 DEF Types, Orderly, QueuedWait, PreemptorsWait, OneOwner, Waits
<1>3. ASSUME NEW p \in Pods, Skip(p) PROVE Orderly'
  BY <1>3 DEF Skip, api
<1>4. ASSUME NEW p \in Pods, Start(p) \/ End(p) PROVE Orderly'
  <2>1. /\ UNCHANGED <<queue, work, born, removed>>
        /\ \A q \in Pods : Waits(q) => Waits(q)'
    BY <1>4 DEF Start, End
  <2>2. \A s \in Schedulers : work[s] # None => work[s].pod \in Pods
    BY DEF Works
  <2> QED
    BY <2>1, <2>2
<1>5. ASSUME NEW p \in Pods, Recreate(p) PROVE Orderly'
  <2>1. /\ UNCHANGED work /\ queue' = queue \cup {p} /\ born' = born \cup {p}
        /\ \A q \in Pods : Waits(q) => Waits(q)'
    BY <1>5 DEF Recreate
  <2>2. \A s \in Schedulers : work[s] # None => work[s].pod \in Pods
    BY DEF Works
  <2> QED
    BY <2>1, <2>2
<1>5a. ASSUME NEW p \in Pods, UserDelete(p) PROVE Orderly'
  <2>1. /\ UNCHANGED <<queue, work, born>> /\ removed' = removed \cup {p}
        /\ \A q \in Pods : Waits(q) => Waits(q)'
    BY <1>5a DEF UserDelete, Deleted
  <2>2. \A s \in Schedulers : work[s] # None => work[s].pod \in Pods
    BY DEF Works
  <2> QED
    BY <2>1, <2>2
<1>6. ASSUME NEW s \in Schedulers, NEW p \in Pods, Place(s, p) PROVE Orderly'
  <2>1. /\ UNCHANGED <<work, born, removed>> /\ p \in queue /\ queue' = queue \ {p}
        /\ \A q \in Pods \ {p} : phase'[q] = phase[q]
    BY <1>6 DEF Place, Receives, Bound
  <2>2. \A t \in Schedulers : work[t] # None => work[t].pod \in Pods
    BY DEF Works
  <2> QED
    BY <2>1, <2>2
<1>7. ASSUME NEW s \in Schedulers, NEW p \in Pods, NEW v \in Pods, ChooseVictim(s, p, v)
      PROVE  Orderly'
  <2>1. /\ UNCHANGED <<phase, born, removed>> /\ p \in queue /\ queue' = queue \ {p}
        /\ work[s] = None /\ work'[s].pod = p
        /\ \A t \in Schedulers \ {s} : work'[t] = work[t]
    BY <1>7 DEF ChooseVictim, Receives, api
  <2>2. QueuedWait'
    BY <2>1
  <2>3. PreemptorsWait'
    <3> SUFFICES ASSUME NEW t \in Schedulers, work'[t] # None, work'[t].step # "release"
                 PROVE  Waits(work[t].pod)'
      OBVIOUS
    <3>1. CASE t = s
      BY <2>1, <3>1
    <3>2. CASE t # s
      BY <2>1, <3>2
    <3> QED
      BY <3>1, <3>2
  <2>4. ASSUME NEW t \in Schedulers, work'[t] # None
        PROVE  work'[t].pod \notin queue' \/ work'[t].pod \in born'
    <3>1. CASE t = s
      BY <2>1, <3>1
    <3>2. CASE t # s
      BY <2>1, <2>4, <3>2
    <3> QED
      BY <3>1, <3>2
  <2>5. ASSUME NEW t \in Schedulers, NEW u \in Schedulers, t # u, work'[t] # None,
               work'[u] # None, work'[t].pod = work'[u].pod
        PROVE  work'[t].pod \in born'
    <3>1. CASE t # s /\ u # s
      BY <2>1, <2>5, <3>1
    <3>2. CASE t = s
      BY <2>1, <2>5, <3>2
    <3>3. CASE u = s
      BY <2>1, <2>5, <3>3
    <3> QED
      BY <3>1, <3>2, <3>3
  <2> QED
    BY <2>2, <2>3, <2>4, <2>5
<1>8. ASSUME NEW s \in Schedulers, Reserve(s) PROVE Orderly'
  <2>1. /\ UNCHANGED <<phase, born, removed, queue>> /\ work[s] # None /\ work[s].step = "reserve"
        /\ work'[s].pod = work[s].pod
        /\ \A t \in Schedulers \ {s} : work'[t] = work[t]
    BY <1>8, GotoKeepsPair DEF Reserve, Doing
  <2>2. \A t \in Schedulers : work'[t] # None => work[t] # None /\ work'[t].pod = work[t].pod
    BY <2>1
  <2>3. QueuedWait' /\ OneOwner'
    BY <2>1, <2>2
  <2>4. PreemptorsWait'
    <3> SUFFICES ASSUME NEW t \in Schedulers, work'[t] # None, work'[t].step # "release"
                 PROVE  Waits(work[t].pod)'
      OBVIOUS
    <3>1. Waits(work[t].pod)
      BY <2>1, <2>2
    <3> QED
      BY <2>1, <2>2, <3>1
  <2> QED
    BY <2>3, <2>4
<1>9. ASSUME NEW s \in Schedulers, DeleteVictim(s) PROVE Orderly'
  <2>1. /\ UNCHANGED <<born, removed, queue>> /\ work[s] # None /\ work[s].step = "delete"
        /\ work'[s].pod = work[s].pod
        /\ \A t \in Schedulers \ {s} : work'[t] = work[t]
    BY <1>9, GotoKeepsPair DEF DeleteVictim, Doing
  <2>2. \A q \in Pods : Waits(q) => Waits(q)'
    <3>1. HasRun(work[s].victim)
      BY <2>1 DEF VictimsHaveRun
    <3> QED
      BY <1>9, <2>1, <3>1 DEF DeleteVictim, Deleted, HasRun
  <2>3. \A t \in Schedulers : work[t] # None => work[t].pod \in Pods
    BY DEF Works
  <2> QED
    BY <2>1, <2>2, <2>3
<1>10. ASSUME NEW s \in Schedulers, Bind(s) PROVE Orderly'
  <2>1. /\ UNCHANGED <<born, removed, queue>> /\ work[s] # None /\ work[s].pod \in Pods
        /\ work'[s].pod = work[s].pod /\ work'[s].step = "release"
        /\ \A t \in Schedulers \ {s} : work'[t] = work[t]
    BY <1>10, GotoKeepsPair DEF Bind, Doing, Works
  <2>2. \A q \in Pods \ {work[s].pod} : phase'[q] = phase[q]
    BY <1>10, <2>1 DEF Bind, Bound
  <2>3. \A t \in Schedulers : work[t] # None => work[t].pod \in Pods
    BY DEF Works
  <2> QED
    BY <2>1, <2>2, <2>3, SMTT(20)
<1>11. ASSUME NEW s \in Schedulers, Release(s) PROVE Orderly'
  BY <1>11 DEF Release
<1>12. ASSUME NEW s \in Schedulers, ShowPods(s) \/ ShowNode(s) PROVE Orderly'
  BY <1>12 DEF ShowPods, ShowNode, api
<1>13. CASE UNCHANGED vars
  <2>1. UNCHANGED <<phase, queue, work, born, removed>>
    BY <1>13 DEF vars, api
  <2> QED
    BY <2>1
<1> QED
  BY <1>2, <1>3, <1>4, <1>5, <1>5a, <1>6, <1>7, <1>8, <1>9, <1>10, <1>11, <1>12, <1>13
     DEF Next, Proceed

-----------------------------------------------------------------------------
(* One round of the loop of RemovePreemptionInfo.                          *)
Dropped(c, key, i) ==
    IF i <= Len(c) /\ c[i].victim = key THEN Front([c EXCEPT ![i] = Last(c)]) ELSE c

Entries     == [for : Pods, victim : Pods]
At(c, v)    == {i \in DOMAIN c : c[i].victim = v}

LEMMA AtFinite ==
    ASSUME NEW c \in Seq(Entries), NEW v
    PROVE  IsFiniteSet(At(c, v)) /\ Cardinality(At(c, v)) \in Nat
<1>1. IsFiniteSet(1..Len(c)) /\ DOMAIN c = 1..Len(c)
  BY FS_Interval
<1>2. At(c, v) \in SUBSET (1..Len(c))
  BY <1>1 DEF At
<1>3. QED
  BY <1>1, <1>2, FS_Subset, FS_CardinalityType

(* A round that removes an entry brings the last one to its place.         *)
LEMMA DroppedEntries ==
    ASSUME NEW c \in Seq(Entries), NEW key, NEW i \in 1..Len(c), c[i].victim = key
    PROVE  /\ Dropped(c, key, i) \in Seq(Entries) /\ Len(Dropped(c, key, i)) = Len(c) - 1
           /\ \A j \in 1..Len(c)-1 :
                 Dropped(c, key, i)[j] = IF j = i THEN c[Len(c)] ELSE c[j]
<1> DEFINE e == [c EXCEPT ![i] = c[Len(c)]]
           n == Len(c)
<1>1. n \in Nat /\ DOMAIN c = 1..n /\ n \in 1..n /\ i <= n /\ \A j \in 1..n : c[j] \in Entries
  OBVIOUS
<1>2. e \in Seq(Entries) /\ Len(e) = n /\ \A j \in 1..n : e[j] = IF j = i THEN c[n] ELSE c[j]
  BY <1>1
<1> HIDE DEF e
<1>3. /\ SubSeq(e, 1, n-1) \in Seq(Entries) /\ Len(SubSeq(e, 1, n-1)) = n-1
      /\ \A j \in 1..n-1 : SubSeq(e, 1, n-1)[j] = e[j]
  BY <1>1, <1>2
<1>4. Dropped(c, key, i) = SubSeq(e, 1, n-1)
  BY <1>1, <1>2 DEF Dropped, Front, Last, e
<1> HIDE DEF n
<1>5. \A j \in 1..n-1 : e[j] = IF j = i THEN c[n] ELSE c[j]
  BY <1>1, <1>2
<1>6. QED
  BY <1>3, <1>4, <1>5 DEF n

(* It leaves no more entries of any victim, fewer of its own, and all of   *)
(* the others.                                                             *)
LEMMA DroppedFacts ==
    ASSUME NEW c \in Seq(Entries), NEW key, NEW i \in 1..Len(c), c[i].victim = key
    PROVE  LET d == Dropped(c, key, i)
           IN  /\ d \in Seq(Entries)
               /\ \A v : Cardinality(At(d, v)) <= Cardinality(At(c, v))
               /\ Cardinality(At(d, key)) < Cardinality(At(c, key))
               /\ \A x \in Range(c) : x.victim # key => x \in Range(d)
<1>0. /\ Dropped(c, key, i) \in Seq(Entries) /\ Len(Dropped(c, key, i)) = Len(c) - 1
      /\ \A j \in 1..Len(c)-1 :
            Dropped(c, key, i)[j] = IF j = i THEN c[Len(c)] ELSE c[j]
  BY DroppedEntries
<1> DEFINE d == Dropped(c, key, i)
           n == Len(c)
<1>1. /\ d \in Seq(Entries) /\ Len(d) = n - 1
      /\ \A j \in 1..n-1 : d[j] = IF j = i THEN c[n] ELSE c[j]
  BY <1>0
<1>2. n \in Nat /\ DOMAIN c = 1..n /\ i \in 1..n
  OBVIOUS
<1> HIDE DEF d, n
<1>3. DOMAIN d = 1..n-1
  BY <1>1, <1>2
<1>4. ASSUME NEW v
      PROVE  Cardinality(At(d, v)) <= Cardinality(At(c, v) \ {i})
  <2> DEFINE S == At(d, v)
             R == At(c, v) \ {i}
             f == [j \in S |-> IF j = i THEN n ELSE j]
  <2>1. \A j \in S : j \in 1..n-1 /\ d[j].victim = v
    BY <1>3 DEF At
  <2>2. \A j \in S : f[j] \in R
    <3> SUFFICES ASSUME NEW j \in S PROVE f[j] \in R
      OBVIOUS
    <3>1. j \in 1..n-1 /\ d[j].victim = v /\ n \in 1..n /\ n # j
      BY <1>2, <2>1
    <3>2. CASE j = i
      BY <1>1, <1>2, <3>1, <3>2 DEF At
    <3>3. CASE j # i
      BY <1>1, <1>2, <3>1, <3>3 DEF At
    <3> QED
      BY <3>2, <3>3
  <2>3. \A j, k \in S : f[j] = f[k] => j = k
    BY <1>2, <2>1
  <2>4. IsFiniteSet(R)
    BY AtFinite, FS_Subset
  <2>5. f \in [S -> R]
    BY <2>2
  <2> HIDE DEF f, S, R
  <2>6. f \in Injection(S, R)
    BY <2>3, <2>5 DEF Injection, IsInjective
  <2>7. Cardinality(S) <= Cardinality(R)
    BY <2>4, <2>6, FS_Injection
  <2> QED
    BY <2>7 DEF S, R
<1>5. \A v : IsFiniteSet(At(c, v)) /\ Cardinality(At(c, v)) \in Nat
             /\ Cardinality(At(d, v)) \in Nat
  BY <1>1, AtFinite
<1>6. ASSUME NEW v
      PROVE  /\ Cardinality(At(c, v) \ {i}) <= Cardinality(At(c, v))
             /\ Cardinality(At(c, v) \ {i}) \in Nat
  <2>1. IsFiniteSet(At(c, v)) /\ At(c, v) \ {i} \in SUBSET At(c, v)
    BY <1>5
  <2> QED
    BY <2>1, FS_Subset, FS_CardinalityType
<1>7. i \in At(c, key)
  BY <1>2 DEF At
<1>8. Cardinality(At(c, key) \ {i}) = Cardinality(At(c, key)) - 1
  BY <1>5, <1>7, FS_RemoveElement
<1>9. ASSUME NEW j \in 1..n, c[j].victim # key PROVE c[j] \in Range(d)
  <2>1. j # i
    BY <1>9
  <2>2. CASE j < n
    <3>1. j \in DOMAIN d /\ d[j] = c[j]
      BY <1>1, <1>2, <1>3, <2>1, <2>2
    <3> QED
      BY <3>1 DEF Range
  <2>3. CASE j = n
    <3>1. i \in DOMAIN d /\ d[i] = c[j]
      BY <1>1, <1>2, <1>3, <2>1, <2>3
    <3> QED
      BY <3>1 DEF Range
  <2> QED
    BY <1>2, <2>2, <2>3
<1>10. ASSUME NEW v PROVE Cardinality(At(d, v)) <= Cardinality(At(c, v))
  <2>1. Cardinality(At(d, v)) \in Nat /\ Cardinality(At(c, v)) \in Nat
    BY <1>5, Zenon
  <2>2. /\ Cardinality(At(d, v)) <= Cardinality(At(c, v) \ {i})
        /\ Cardinality(At(c, v) \ {i}) <= Cardinality(At(c, v))
        /\ Cardinality(At(c, v) \ {i}) \in Nat
    BY <1>4, <1>6, Zenon
  <2> QED
    BY <2>1, <2>2
<1>11. Cardinality(At(d, key)) < Cardinality(At(c, key))
  BY <1>4, <1>5, <1>8
<1>12. \A x \in Range(c) : x.victim # key => x \in Range(d)
  BY <1>2, <1>9 DEF Range
<1> QED
  BY <1>1, <1>10, <1>11, <1>12 DEF d

(* The rounds of the loop, as the fold in Without takes them.              *)
WithoutAt(c, conds, key, s) ==
    IF s = {} THEN conds
    ELSE Dropped(c[s \ {Max(s)}], key, [i \in DOMAIN conds |-> i][Max(s)])
IsWithoutFold(c, conds, key) ==
    c = [s \in SUBSET DOMAIN [i \in DOMAIN conds |-> i] |-> WithoutAt(c, conds, key, s)]

LEMMA WithoutExists ==
    ASSUME NEW conds \in Seq(Entries), NEW key
    PROVE  \E c : IsWithoutFold(c, conds, key)
<1> DEFINE n == Len(conds)
           g == [w \in (1..n) \X Seq(Entries) |-> Dropped(w[2], key, w[1])]
           q == [i \in DOMAIN conds |-> i]
<1>1. n \in Nat /\ DOMAIN conds = 1..n /\ DOMAIN q = 1..n /\ \A i \in 1..n : q[i] = i
  OBVIOUS
<1>2. ASSUME NEW i \in 1..n, NEW v \in Seq(Entries) PROVE Dropped(v, key, i) \in Seq(Entries)
  <2>1. CASE i \in 1..Len(v) /\ v[i].victim = key
    BY <2>1, DroppedEntries
  <2>2. CASE ~(i <= Len(v) /\ v[i].victim = key)
    BY <2>2 DEF Dropped
  <2> QED
    BY <1>1, <2>1, <2>2
<1>3. \A i \in 1..n, v \in Seq(Entries) :
          g[<<i, v>>] = Dropped(v, key, i) /\ g[<<i, v>>] \in Seq(Entries)
  BY <1>2
<1> HIDE DEF n, g, q
<1>4. PICK c : LastFirst(c, n, Seq(Entries), conds, g)
  BY <1>1, <1>3, LastFirstExists
<1>5. /\ c \in [SUBSET (1..n) -> Seq(Entries)] /\ c[{}] = conds
      /\ \A s \in SUBSET (1..n) :
            s # {} => Max(s) \in s /\ c[s] = g[<<Max(s), c[s \ {Max(s)}]>>]
  BY <1>4, Zenon DEF LastFirst
<1>6. ASSUME NEW s \in SUBSET (1..n) PROVE c[s] = WithoutAt(c, conds, key, s)
  <2>1. CASE s = {}
    BY <1>5, <2>1 DEF WithoutAt
  <2>2. CASE s # {}
    <3>1. Max(s) \in 1..n /\ c[s \ {Max(s)}] \in Seq(Entries)
      BY <1>5, <2>2
    <3>2. c[s] = Dropped(c[s \ {Max(s)}], key, Max(s))
      BY <1>3, <1>5, <2>2, <3>1
    <3>3. q[Max(s)] = Max(s)
      BY <1>1, <3>1
    <3>4. c[s] = Dropped(c[s \ {Max(s)}], key, q[Max(s)])
      BY <3>2, <3>3, Zenon
    <3> QED
      BY <2>2, <3>4, Zenon DEF WithoutAt, q
  <2> QED
    BY <2>1, <2>2
<1>7. c = [s \in SUBSET (1..n) |-> WithoutAt(c, conds, key, s)]
  <2>1. c = [s \in SUBSET (1..n) |-> c[s]]
    BY <1>5
  <2> QED
    BY <1>6, <2>1, Zenon
<1>8. DOMAIN q = 1..n
  BY <1>1
<1> QED
  BY <1>7, <1>8, Zenon DEF IsWithoutFold, q

LEMMA WithoutSteps ==
    ASSUME NEW conds \in Seq(Entries), NEW key
    PROVE  \E h : /\ h[0] = conds /\ Without(conds, key) = h[Len(conds)]
                 /\ \A k \in 1..Len(conds) : h[k] = Dropped(h[k-1], key, k)
<1> DEFINE c == CHOOSE d : IsWithoutFold(d, conds, key)
           n == Len(conds)
           q == [i \in DOMAIN conds |-> i]
           h == [k \in 0..n |-> c[1..k]]
<1>1. Without(conds, key) = c[DOMAIN q]
  BY Zenon DEF Without, FoldLeft, MapThenFoldSet, IsWithoutFold, WithoutAt, Dropped
<1>2. IsWithoutFold(c, conds, key)
  BY WithoutExists, Zenon
<1> HIDE DEF c
<1>3. n \in Nat /\ DOMAIN conds = 1..n /\ DOMAIN q = 1..n /\ \A i \in 1..n : q[i] = i
  OBVIOUS
<1>4. \A s \in SUBSET (1..n) : c[s] = WithoutAt(c, conds, key, s)
  BY <1>2, <1>3 DEF IsWithoutFold
<1>5. \A k \in 0..n : h[k] = c[1..k]
  OBVIOUS
<1> HIDE DEF h, n, q
<1>6. h[0] = conds
  <2>1. 1..0 = {} /\ 0 \in 0..n
    BY <1>3
  <2>2. c[{}] = conds
    BY <1>4 DEF WithoutAt
  <2> QED
    BY <1>5, <2>1, <2>2
<1>7. ASSUME NEW k \in 1..n PROVE h[k] = Dropped(h[k-1], key, k)
  <2>1. Max(1..k) = k /\ (1..k) \ {k} = 1..k-1
    BY <1>3, PrefixFacts
  <2>2. 1..k \in SUBSET (1..n) /\ 1..k # {} /\ k \in 0..n /\ k-1 \in 0..n
    <3>1. k \in Nat /\ 1 <= k /\ k <= n
      BY <1>3
    <3>2. k \in 1..k /\ k \in 0..n /\ k-1 \in 0..n
      BY <1>3, <3>1
    <3>3. \A i \in 1..k : i \in 1..n
      BY <1>3, <3>1
    <3> QED
      BY <3>2, <3>3
  <2>3. c[1..k] = Dropped(c[1..k-1], key, q[k])
    BY <1>4, <2>1, <2>2, Zenon DEF WithoutAt, q
  <2>4. q[k] = k
    BY <1>3
  <2> QED
    BY <1>5, <2>2, <2>3, <2>4, Zenon
<1>8. h[n] = c[1..n]
  BY <1>3, <1>5
<1> QED
  BY <1>1, <1>3, <1>6, <1>7, <1>8 DEF n

(* What RemovePreemptionInfo leaves: not more entries of any victim, fewer *)
(* of the one it is called for if there are any, and all of the others.    *)
LEMMA WithoutFacts ==
    ASSUME NEW conds \in Seq(Entries), NEW key
    PROVE  LET w == Without(conds, key)
           IN  /\ w \in Seq(Entries)
               /\ \A v : Cardinality(At(w, v)) <= Cardinality(At(conds, v))
               /\ At(conds, key) # {} =>
                     Cardinality(At(w, key)) < Cardinality(At(conds, key))
               /\ \A x \in Range(conds) : x.victim # key => x \in Range(w)
<1> DEFINE n == Len(conds)
           Left(c) == /\ c \in Seq(Entries)
                      /\ \A v : Cardinality(At(c, v)) <= Cardinality(At(conds, v))
                      /\ \A x \in Range(conds) : x.victim # key => x \in Range(c)
           Fewer(c) == Cardinality(At(c, key)) < Cardinality(At(conds, key))
<1>1. PICK h : /\ h[0] = conds /\ Without(conds, key) = h[n]
               /\ \A k \in 1..n : h[k] = Dropped(h[k-1], key, k)
  BY WithoutSteps
<1>2. n \in Nat /\ DOMAIN conds = 1..n
  OBVIOUS
<1>3. \A v : IsFiniteSet(At(conds, v)) /\ Cardinality(At(conds, v)) \in Nat
  BY AtFinite
<1> DEFINE T == {k \in 0..n : /\ Left(h[k])
                              /\ \/ Fewer(h[k])
                                 \/ h[k] = conds /\ \A i \in 1..k : conds[i].victim # key}
<1> HIDE DEF n
<1>4. 0 \in T
  <2>1. \A v : Cardinality(At(conds, v)) <= Cardinality(At(conds, v))
    BY <1>3
  <2>2. Left(conds)
    BY <2>1
  <2>3. 0 \in 0..n /\ \A i \in 1..0 : FALSE
    BY <1>2
  <2> HIDE DEF Left, Fewer
  <2> QED
    BY <1>1, <2>2, <2>3
<1>5. ASSUME NEW k \in 0..n, k < n, k \in T PROVE k + 1 \in T
  <2>1. k + 1 \in 1..n /\ k + 1 \in 0..n /\ (k + 1) - 1 = k /\ k + 1 > 0
    BY <1>2, <1>5
  <2>2. h[k+1] = Dropped(h[k], key, k+1)
    BY <1>1, <2>1
  <2>3. /\ h[k] \in Seq(Entries)
        /\ \A v : Cardinality(At(h[k], v)) <= Cardinality(At(conds, v))
        /\ \A x \in Range(conds) : x.victim # key => x \in Range(h[k])
    BY <1>5
  <2>4. \/ Fewer(h[k])
        \/ h[k] = conds /\ \A i \in 1..k : conds[i].victim # key
    BY <1>5
  <2>5. CASE k + 1 <= Len(h[k]) /\ h[k][k+1].victim = key
    <3>1. k + 1 \in 1..Len(h[k])
      BY <2>1, <2>3, <2>5
    <3>2. /\ h[k+1] \in Seq(Entries)
          /\ \A v : Cardinality(At(h[k+1], v)) <= Cardinality(At(h[k], v))
          /\ Cardinality(At(h[k+1], key)) < Cardinality(At(h[k], key))
          /\ \A x \in Range(h[k]) : x.victim # key => x \in Range(h[k+1])
      BY <2>2, <2>3, <2>5, <3>1, DroppedFacts
    <3>3. \A v : Cardinality(At(h[k+1], v)) \in Nat /\ Cardinality(At(h[k], v)) \in Nat
      BY <2>3, <3>2, AtFinite
    <3>4. ASSUME NEW v
          PROVE  Cardinality(At(h[k+1], v)) <= Cardinality(At(conds, v))
      <4>1. /\ Cardinality(At(h[k+1], v)) \in Nat /\ Cardinality(At(h[k], v)) \in Nat
            /\ Cardinality(At(conds, v)) \in Nat
            /\ Cardinality(At(h[k+1], v)) <= Cardinality(At(h[k], v))
            /\ Cardinality(At(h[k], v)) <= Cardinality(At(conds, v))
        BY <1>3, <2>3, <3>2, <3>3, Zenon
      <4> QED
        BY <4>1
    <3>5. Fewer(h[k+1])
      <4>1. /\ Cardinality(At(h[k+1], key)) \in Nat /\ Cardinality(At(h[k], key)) \in Nat
            /\ Cardinality(At(conds, key)) \in Nat
            /\ Cardinality(At(h[k+1], key)) < Cardinality(At(h[k], key))
            /\ Cardinality(At(h[k], key)) <= Cardinality(At(conds, key))
        BY <1>3, <2>3, <3>2, <3>3, Zenon
      <4> QED
        BY <4>1
    <3>6. Left(h[k+1])
      BY <2>3, <3>2, <3>4
    <3> HIDE DEF Left, Fewer
    <3> QED
      BY <2>1, <3>5, <3>6
  <2>6. CASE ~(k + 1 <= Len(h[k]) /\ h[k][k+1].victim = key)
    <3>1. h[k+1] = h[k]
      BY <2>2, <2>6 DEF Dropped
    <3>2. Left(h[k+1])
      BY <2>3, <3>1
    <3>3. CASE Fewer(h[k])
      <4>1. Fewer(h[k+1])
        BY <3>1, <3>3, Zenon
      <4> HIDE DEF Left, Fewer
      <4> QED
        BY <2>1, <3>2, <4>1
    <3>4. CASE h[k] = conds /\ \A i \in 1..k : conds[i].victim # key
      <4>1. conds[k+1].victim # key
        BY <1>2, <2>1, <2>6, <3>4 DEF n
      <4>2. \A i \in 1..k+1 : i \in 1..k \/ i = k + 1
        BY <1>2
      <4>3. h[k+1] = conds /\ \A i \in 1..k+1 : conds[i].victim # key
        BY <3>1, <3>4, <4>1, <4>2
      <4> HIDE DEF Left, Fewer
      <4> QED
        BY <2>1, <3>2, <4>3
    <3> QED
      BY <2>4, <3>3, <3>4
  <2> QED
    BY <2>5, <2>6
<1> HIDE DEF T
<1>6. n \in T
  <2>1. 0..n \subseteq T
    BY <1>2, <1>4, <1>5, UpTo
  <2> QED
    BY <1>2, <2>1
<1>7. Left(h[n]) /\ (Fewer(h[n]) \/ \A i \in 1..n : conds[i].victim # key)
  BY <1>6 DEF T
<1>8. At(conds, key) # {} => \E i \in 1..n : conds[i].victim = key
  BY <1>2 DEF At
<1> QED
  BY <1>1, <1>7, <1>8, Zenon

-----------------------------------------------------------------------------
(* Reservations.  Finitely many preemptions go on, and a victim of two of  *)
(* them is contested.                                                      *)
Busy == {s \in Schedulers : work[s] # None}

OnePreemptor ==
    \A s, t \in Busy : s # t /\ work[s].victim = work[t].victim => work[s].victim \in contested

ReservationInv ==
    /\ conditions \in Seq(Entries) /\ IsFiniteSet(Busy)
    /\ OnePreemptor /\ ReservationsHaveHolders /\ ReservationKept

LEMMA HoldersFinite ==
    ASSUME IsFiniteSet(Busy), NEW v
    PROVE  IsFiniteSet(Holders(v)) /\ Cardinality(Holders(v)) \in Nat
<1>1. Holders(v) \in SUBSET Busy
  BY DEF Holders, Busy
<1> QED
  BY <1>1, FS_Subset, FS_CardinalityType

LEMMA InitReservations == Init => ReservationInv
<1> SUFFICES ASSUME Init PROVE ReservationInv
  OBVIOUS
<1>1. Busy = {} /\ conditions = <<>> /\ \A v \in Pods : abandoned[v] = 0
  BY DEF Init, Busy
<1>2. \A v : Reservations(v) = {} /\ Holders(v) = {}
  BY <1>1 DEF Reservations, Holders, Busy
<1>3. conditions \in Seq(Entries) /\ IsFiniteSet(Busy) /\ OnePreemptor
  BY <1>1, FS_EmptySet DEF OnePreemptor
<1>4. ReservationsHaveHolders
  <2> SUFFICES ASSUME NEW v \in Pods
               PROVE  Cardinality(Reservations(v)) <= Cardinality(Holders(v)) + abandoned[v]
    BY DEF ReservationsHaveHolders
  <2>1. Cardinality(Reservations(v)) = 0 /\ Cardinality(Holders(v)) = 0
    BY <1>2, FS_EmptySet, Zenon
  <2> QED
    BY <1>1, <2>1
<1>5. ReservationKept
  BY <1>2 DEF ReservationKept
<1> QED
  BY <1>3, <1>4, <1>5 DEF ReservationInv

(* Steps on which no preemption begins, reserves or ends.                  *)
LEMMA ReservationsStay ==
    ASSUME ReservationInv, UNCHANGED <<conditions, abandoned, contested>>,
           \A t \in Schedulers :
              /\ work'[t] = None <=> work[t] = None
              /\ work[t] # None =>
                    /\ work'[t].pod = work[t].pod /\ work'[t].victim = work[t].victim
                    /\ work'[t].step = "reserve" <=> work[t].step = "reserve"
    PROVE  ReservationInv'
<1>1. Busy' = Busy
  BY DEF Busy
<1>2. \A v : Holders(v)' = Holders(v) /\ Reservations(v)' = Reservations(v)
  BY DEF Holders, Doing, Reservations
<1>3. OnePreemptor'
  BY <1>1 DEF ReservationInv, OnePreemptor, Busy
<1>4. ReservationsHaveHolders'
  BY <1>2 DEF ReservationInv, ReservationsHaveHolders
<1>5. ReservationKept'
  <2> SUFFICES ASSUME NEW v \in Pods \ contested, NEW s \in Holders(v)
               PROVE  \E i \in Reservations(v) : conditions[i].for = work'[s].pod
    BY <1>2 DEF ReservationKept
  <2>1. work'[s].pod = work[s].pod
    BY DEF Holders
  <2> QED
    BY <2>1 DEF ReservationInv, ReservationKept
<1> QED
  BY <1>1, <1>3, <1>4, <1>5 DEF ReservationInv

LEMMA StepReservations == Types /\ ReservationInv /\ [Next]_vars => ReservationInv'
<1> SUFFICES ASSUME Types, ReservationInv, [Next]_vars PROVE ReservationInv'
  OBVIOUS
<1>1. CASE UNCHANGED <<conditions, work, abandoned, contested>>
  BY <1>1, ReservationsStay
<1>2. ASSUME NEW s \in Schedulers, DeleteVictim(s) \/ Bind(s) PROVE ReservationInv'
  <2>1. /\ work[s] # None /\ work[s].step \in {"delete", "await"}
        /\ \E step \in {"await", "release"} : Goto(s, step)
        /\ UNCHANGED <<conditions, abandoned, contested>>
    BY <1>2 DEF DeleteVictim, Bind, Doing, history
  <2>2. /\ \A t \in Schedulers \ {s} : work'[t] = work[t]
        /\ work'[s] # None /\ work'[s].step # "reserve"
        /\ work'[s].pod = work[s].pod /\ work'[s].victim = work[s].victim
    <3>1. PICK step \in {"await", "release"} : Goto(s, step)
      BY <2>1
    <3>2. /\ work'[s] \in Works /\ work'[s].step = step
          /\ work'[s].pod = work[s].pod /\ work'[s].victim = work[s].victim
          /\ \A t \in Schedulers \ {s} : work'[t] = work[t]
      BY <2>1, <3>1, GotoKeepsPair, Zenon DEF Types
    <3> QED
      BY <3>1, <3>2, PreemptionAssumption
  <2> QED
    BY <2>1, <2>2, ReservationsStay
<1>3. ASSUME NEW s \in Schedulers, Disconnect(s) PROVE ReservationInv'
  <2>1. /\ work[s] \in Works /\ UNCHANGED <<conditions, abandoned, contested>>
        /\ work' = [work EXCEPT ![s] = [work[s] EXCEPT !.owed = FALSE]]
    BY <1>3 DEF Disconnect, api, view, history, Types
  <2>2. [work[s] EXCEPT !.owed = FALSE] \in Works
    BY <2>1 DEF Works
  <2>3. /\ \A t \in Schedulers \ {s} : work'[t] = work[t]
        /\ work'[s] \in Works /\ work'[s].step = work[s].step
        /\ work'[s].pod = work[s].pod /\ work'[s].victim = work[s].victim
    BY <2>1, <2>2 DEF Types, Works
  <2>4. work[s] # None /\ work'[s] # None
    BY <1>3, <2>3, PreemptionAssumption DEF Disconnect
  <2> QED
    BY <2>1, <2>3, <2>4, ReservationsStay
<1>4. ASSUME NEW s \in Schedulers, NEW p \in Pods, NEW v \in Pods, ChooseVictim(s, p, v)
      PROVE  ReservationInv'
  <2> DEFINE w == [pod |-> p, victim |-> v, step |-> "reserve", owed |-> TRUE]
  <2>1. /\ work[s] = None /\ work' = [work EXCEPT ![s] = w]
        /\ UNCHANGED <<conditions, abandoned>>
        /\ contested' = contested \cup
              {v : t \in {t \in Schedulers : work[t] # None /\ work[t].victim = v}}
    BY <1>4 DEF ChooseVictim, Receives, api, view
  <2>2. w \in Works /\ w # None
    <3>1. w \in Works
      BY DEF Works
    <3> HIDE DEF w
    <3> QED
      BY <3>1, PreemptionAssumption, Zenon
  <2>3. /\ \A t \in Schedulers \ {s} : work'[t] = work[t]
        /\ work'[s] # None /\ work'[s].victim = v /\ work'[s].step = "reserve"
    BY <2>1, <2>2 DEF Types
  <2>4. Busy' = Busy \cup {s} /\ s \notin Busy
    BY <2>1, <2>3 DEF Busy
  <2>5. \A u : Holders(u)' = Holders(u) /\ Reservations(u)' = Reservations(u)
    BY <2>1, <2>3 DEF Holders, Doing, Reservations
  <2>6. OnePreemptor'
    <3> SUFFICES ASSUME NEW t \in Busy', NEW u \in Busy', t # u,
                        work'[t].victim = work'[u].victim
                 PROVE  work'[t].victim \in contested'
      BY DEF OnePreemptor
    <3>1. CASE t \in Busy /\ u \in Busy
      <4>1. t # s /\ u # s /\ t \in Schedulers /\ u \in Schedulers
        BY <2>4, <3>1 DEF Busy
      <4>2. work'[t] = work[t] /\ work'[u] = work[u]
        BY <2>3, <4>1
      <4> QED
        BY <2>1, <3>1, <4>2 DEF ReservationInv, OnePreemptor
    <3>2. CASE t = s \/ u = s
      <4>1. PICK x \in Busy : work[x].victim = v /\ work'[t].victim = v
        BY <2>3, <2>4, <3>2 DEF Busy
      <4> QED
        BY <2>1, <4>1 DEF Busy
    <3> QED
      BY <2>4, <3>1, <3>2
  <2>7. ReservationsHaveHolders'
    BY <2>1, <2>5 DEF ReservationInv, ReservationsHaveHolders
  <2>8. ReservationKept'
    <3> SUFFICES ASSUME NEW u \in Pods \ contested', NEW t \in Holders(u)
                 PROVE  \E i \in Reservations(u) : conditions'[i].for = work'[t].pod
      BY <2>5 DEF ReservationKept
    <3>1. work'[t] = work[t] /\ u \in Pods \ contested
      BY <2>1, <2>3 DEF Holders
    <3> QED
      BY <2>1, <3>1 DEF ReservationInv, ReservationKept
  <2>9. conditions' \in Seq(Entries) /\ IsFiniteSet(Busy')
    BY <2>1, <2>4, FS_AddElement DEF ReservationInv
  <2> QED
    BY <2>6, <2>7, <2>8, <2>9 DEF ReservationInv
<1>5. ASSUME NEW s \in Schedulers, Reserve(s) PROVE ReservationInv'
  <2>pair. PICK p \in Pods, v \in Pods : work[s].pod = p /\ work[s].victim = v
    BY <1>5 DEF Reserve, Doing, Types, Works
  <2>len. PICK n \in Nat : n = Len(conditions)
    BY DEF ReservationInv
  <2> DEFINE e == [for |-> p, victim |-> v]
  <2>1. /\ work[s] # None /\ work[s] \in Works /\ work[s].step = "reserve"
        /\ work[s].pod = p /\ work[s].victim = v
        /\ conditions' = Append(conditions, e)
        /\ Goto(s, "delete") /\ UNCHANGED <<abandoned, contested>>
    BY <1>5, <2>pair DEF Reserve, Doing, history, Types
  <2>2. /\ \A t \in Schedulers \ {s} : work'[t] = work[t]
        /\ work'[s] \in Works /\ work'[s].step = "delete"
        /\ work'[s].pod = p /\ work'[s].victim = v
    BY <2>1, GotoKeepsPair, Zenon DEF Types
  <2>3. work'[s] # None /\ e \in Entries
    BY <2>2, PreemptionAssumption DEF Entries
  <2>4. Busy' = Busy
    BY <2>1, <2>2, <2>3 DEF Busy
  <2>5. /\ conditions' \in Seq(Entries) /\ n \in Nat
        /\ DOMAIN conditions = 1..n /\ DOMAIN conditions' = 1..n+1
        /\ \A i \in 1..n : conditions'[i] = conditions[i]
        /\ conditions'[n+1] = e
    BY <2>len, <2>1, <2>3 DEF ReservationInv
  <2>entry. e.victim = v /\ e.for = p
    OBVIOUS
  <2> HIDE DEF e
  <2>6. /\ Reservations(v)' = Reservations(v) \cup {n+1} /\ n+1 \notin Reservations(v)
        /\ \A u : u # v => Reservations(u)' = Reservations(u)
    <3>1. \A i \in 1..n+1 : i \in 1..n \/ i = n+1
      BY <2>5
    <3>2. n+1 \notin 1..n /\ n+1 \in 1..n+1 /\ \A i \in 1..n : i \in 1..n+1
      BY <2>5
    <3>3. \A u : /\ Reservations(u) = {i \in 1..n : conditions[i].victim = u}
                 /\ Reservations(u)' = {i \in 1..n+1 : conditions'[i].victim = u}
      BY <2>5 DEF Reservations
    <3>4. Reservations(v)' = Reservations(v) \cup {n+1} /\ n+1 \notin Reservations(v)
      BY <2>entry, <2>5, <3>1, <3>2, <3>3
    <3>5. ASSUME NEW u, u # v PROVE Reservations(u)' = Reservations(u)
      BY <2>entry, <2>5, <3>1, <3>2, <3>3, <3>5
    <3> QED
      BY <3>4, <3>5
  <2>7. /\ Holders(v)' = Holders(v) \cup {s} /\ s \notin Holders(v)
        /\ \A u : u # v => Holders(u)' = Holders(u)
    BY <2>1, <2>2, <2>3 DEF Holders, Doing
  <2>8. OnePreemptor'
    BY <2>1, <2>2, <2>4 DEF ReservationInv, OnePreemptor, Busy
  <2>9. ReservationsHaveHolders'
    <3> SUFFICES ASSUME NEW u \in Pods
                 PROVE  Cardinality(Reservations(u)') <= Cardinality(Holders(u)') + abandoned[u]
      BY <2>1 DEF ReservationsHaveHolders
    <3>1. Cardinality(Reservations(u)) <= Cardinality(Holders(u)) + abandoned[u]
      BY DEF ReservationInv, ReservationsHaveHolders
    <3>2. CASE u = v
      <4>1. /\ IsFiniteSet(Reservations(v)) /\ Cardinality(Reservations(v)) \in Nat
            /\ IsFiniteSet(Holders(v)) /\ Cardinality(Holders(v)) \in Nat
        BY AtFinite, HoldersFinite DEF ReservationInv, Reservations, At
      <4>2. /\ Cardinality(Reservations(v)') = Cardinality(Reservations(v)) + 1
            /\ Cardinality(Holders(v)') = Cardinality(Holders(v)) + 1
        BY <2>6, <2>7, <4>1, FS_AddElement, ZenonT(60)
      <4>3. abandoned[v] \in Nat
        BY <2>3 DEF Types
      <4>4. Cardinality(Reservations(v)) <= Cardinality(Holders(v)) + abandoned[v]
        BY <3>1, <3>2, Zenon
      <4>5. Cardinality(Reservations(v)') <= Cardinality(Holders(v)') + abandoned[v]
        BY <4>1, <4>2, <4>3, <4>4
      <4> QED
        BY <3>2, <4>5, Zenon
    <3>3. CASE u # v
      BY <2>6, <2>7, <3>1, <3>3
    <3> QED
      BY <3>2, <3>3
  <2>10. ReservationKept'
    <3> SUFFICES ASSUME NEW u \in Pods \ contested, NEW t \in Holders(u)'
                 PROVE  \E i \in Reservations(u)' : conditions'[i].for = work'[t].pod
      BY <2>1 DEF ReservationKept
    <3>1. CASE t = s /\ u = v
      BY <2>entry, <2>2, <2>5, <2>6, <3>1
    <3>2. CASE t \in Holders(u)
      <4>1. PICK i \in Reservations(u) : conditions[i].for = work[t].pod
        BY <3>2 DEF ReservationInv, ReservationKept
      <4>2. i \in Reservations(u)' /\ conditions'[i] = conditions[i]
        BY <2>5, <2>6 DEF Reservations
      <4>3. work'[t].pod = work[t].pod
        BY <2>1, <2>2 DEF Holders
      <4> QED
        BY <4>1, <4>2, <4>3
    <3> QED
      BY <2>7, <3>1, <3>2
  <2> QED
    BY <2>4, <2>5, <2>8, <2>9, <2>10 DEF ReservationInv
<1>6. ASSUME NEW s \in Schedulers, Release(s) PROVE ReservationInv'
  <2>1. PICK v \in Pods : work[s].victim = v
    BY <1>6 DEF Release, Doing, Types, Works
  <2>2. /\ work[s] # None /\ work[s].step = "release"
        /\ conditions' = Without(conditions, v) /\ work' = [work EXCEPT ![s] = None]
        /\ UNCHANGED <<abandoned, contested>>
    BY <1>6, <2>1 DEF Release, Doing, history
  <2>3. work'[s] = None /\ \A t \in Schedulers \ {s} : work'[t] = work[t]
    BY <2>2 DEF Types
  <2>4. conditions \in Seq(Entries)
    BY DEF ReservationInv
  <2>5. /\ conditions' \in Seq(Entries)
        /\ \A u : Cardinality(At(conditions', u)) <= Cardinality(At(conditions, u))
        /\ At(conditions, v) # {} =>
              Cardinality(At(conditions', v)) < Cardinality(At(conditions, v))
        /\ \A x \in Range(conditions) : x.victim # v => x \in Range(conditions')
    BY <2>2, <2>4, WithoutFacts
  <2>6. Busy' = Busy \ {s} /\ s \in Busy
    BY <2>2, <2>3 DEF Busy
  <2>7. /\ Holders(v)' = Holders(v) \ {s} /\ s \in Holders(v)
        /\ \A u : u # v => Holders(u)' = Holders(u)
    BY <2>1, <2>2, <2>3 DEF Holders, Doing
  <2>8. OnePreemptor'
    BY <2>2, <2>3, <2>6 DEF ReservationInv, OnePreemptor, Busy
  <2>9. ReservationsHaveHolders'
    <3> SUFFICES ASSUME NEW u \in Pods
                 PROVE  Cardinality(Reservations(u)') <= Cardinality(Holders(u)') + abandoned[u]
      BY <2>2 DEF ReservationsHaveHolders
    <3>1. /\ Cardinality(Reservations(u)) <= Cardinality(Holders(u)) + abandoned[u]
          /\ Cardinality(Reservations(u)') <= Cardinality(Reservations(u))
      BY <2>5 DEF ReservationInv, ReservationsHaveHolders, Reservations, At
    <3>2. /\ Cardinality(Reservations(u)) \in Nat /\ Cardinality(Reservations(u)') \in Nat
          /\ IsFiniteSet(Reservations(u))
          /\ IsFiniteSet(Holders(u)) /\ Cardinality(Holders(u)) \in Nat
          /\ abandoned[u] \in Nat
      <4>1. /\ Cardinality(At(conditions, u)) \in Nat /\ IsFiniteSet(At(conditions, u))
            /\ Cardinality(At(conditions', u)) \in Nat
        BY <2>4, <2>5, AtFinite
      <4> QED
        BY <4>1, HoldersFinite DEF ReservationInv, Reservations, At, Types
    <3>3. CASE u # v
      BY <2>7, <3>1, <3>2, <3>3
    <3>4. CASE u = v
      <4>1. Cardinality(Holders(u)') = Cardinality(Holders(u)) - 1
        BY <2>7, <3>2, <3>4, FS_RemoveElement
      <4>2. CASE Reservations(u) = {}
        <5>1. Cardinality(Reservations(u)) = 0
          BY <4>2, FS_EmptySet, Zenon
        <5>2. IsFiniteSet(Holders(u)') /\ Cardinality(Holders(u)') \in Nat
          BY <2>7, <3>2, <3>4, FS_RemoveElement, FS_CardinalityType
        <5> QED
          BY <3>1, <3>2, <5>1, <5>2
      <4>3. CASE Reservations(u) # {}
        <5>1. Cardinality(Reservations(u)') < Cardinality(Reservations(u))
          BY <2>5, <3>4, <4>3 DEF Reservations, At
        <5> QED
          BY <3>1, <3>2, <4>1, <5>1
      <4> QED
        BY <4>2, <4>3
    <3> QED
      BY <3>3, <3>4
  <2>10. ReservationKept'
    <3> SUFFICES ASSUME NEW u \in Pods \ contested, NEW t \in Holders(u)'
                 PROVE  \E i \in Reservations(u)' : conditions'[i].for = work'[t].pod
      BY <2>2 DEF ReservationKept
    <3>1. /\ t \in Holders(u) /\ t # s /\ work'[t] = work[t]
          /\ t \in Busy /\ work[t].victim = u
      BY <2>3, <2>7 DEF Holders, Busy
    <3>2. u # v
      BY <2>1, <2>6, <3>1 DEF ReservationInv, OnePreemptor
    <3>3. PICK i \in DOMAIN conditions : conditions[i].victim = u /\ conditions[i].for = work[t].pod
      BY <3>1 DEF ReservationInv, ReservationKept, Reservations
    <3>4. conditions[i] \in Range(conditions')
      BY <2>5, <3>2, <3>3 DEF Range
    <3>5. PICK j \in DOMAIN conditions' : conditions'[j] = conditions[i]
      BY <3>4 DEF Range
    <3> QED
      BY <3>1, <3>3, <3>5 DEF Reservations
  <2>11. IsFiniteSet(Busy')
    BY <2>6, FS_RemoveElement DEF ReservationInv
  <2> QED
    BY <2>5, <2>8, <2>9, <2>10, <2>11 DEF ReservationInv
<1>7. ASSUME NEW s \in Schedulers, Restart(s) PROVE ReservationInv'
  <2>1. CASE work[s] = None
    <3>1. UNCHANGED <<conditions, work, abandoned, contested>>
      BY <1>7, <2>1 DEF Restart, api, Types
    <3> QED
      BY <3>1, ReservationsStay
  <2>2. CASE work[s] # None
    <3>1. PICK v \in Pods : work[s].victim = v
      BY <2>2 DEF Types, Works
    <3>2. /\ work' = [work EXCEPT ![s] = None] /\ UNCHANGED <<conditions, contested>>
          /\ abandoned' = IF work[s].step = "reserve" THEN abandoned
                          ELSE [abandoned EXCEPT ![v] = @ + 1]
      BY <1>7, <2>2, <3>1 DEF Restart, api, Doing
    <3>3. work'[s] = None /\ \A t \in Schedulers \ {s} : work'[t] = work[t]
      BY <3>2 DEF Types
    <3>4. Busy' = Busy \ {s} /\ s \in Busy
      BY <2>2, <3>3 DEF Busy
    <3>5. /\ Holders(v)' = Holders(v) \ {s}
          /\ s \in Holders(v) <=> work[s].step # "reserve"
          /\ \A u : u # v => Holders(u)' = Holders(u)
      BY <2>2, <3>1, <3>3 DEF Holders, Doing
    <3>6. OnePreemptor'
      BY <3>2, <3>3, <3>4 DEF ReservationInv, OnePreemptor, Busy
    <3>7. ReservationsHaveHolders'
      <4> SUFFICES ASSUME NEW u \in Pods
                   PROVE  Cardinality(Reservations(u)) <= Cardinality(Holders(u)') + abandoned'[u]
        BY <3>2 DEF ReservationsHaveHolders, Reservations
      <4>1. /\ Cardinality(Reservations(u)) <= Cardinality(Holders(u)) + abandoned[u]
            /\ IsFiniteSet(Holders(u)) /\ Cardinality(Holders(u)) \in Nat
            /\ abandoned[u] \in Nat /\ Cardinality(Reservations(u)) \in Nat
        BY AtFinite, HoldersFinite
           DEF ReservationInv, ReservationsHaveHolders, Reservations, At, Types
      <4>2. CASE u = v /\ s \in Holders(v)
        <5>1. abandoned'[u] = abandoned[u] + 1
          BY <3>2, <3>5, <4>2 DEF Types
        <5>2. Cardinality(Holders(u)') = Cardinality(Holders(u)) - 1
          BY <3>5, <4>1, <4>2, FS_RemoveElement
        <5> QED
          BY <4>1, <5>1, <5>2
      <4>3. CASE ~(u = v /\ s \in Holders(v))
        <5>1. Holders(u)' = Holders(u) /\ abandoned'[u] = abandoned[u]
          BY <3>2, <3>5, <4>3 DEF Types
        <5> QED
          BY <4>1, <5>1
      <4> QED
        BY <4>2, <4>3
    <3>8. ReservationKept'
      <4> SUFFICES ASSUME NEW u \in Pods \ contested, NEW t \in Holders(u)'
                   PROVE  \E i \in Reservations(u) : conditions[i].for = work'[t].pod
        BY <3>2 DEF ReservationKept, Reservations
      <4>1. t \in Holders(u) /\ work'[t] = work[t]
        BY <3>3, <3>5 DEF Holders
      <4> QED
        BY <4>1 DEF ReservationInv, ReservationKept
    <3>9. IsFiniteSet(Busy')
      BY <3>4, FS_RemoveElement DEF ReservationInv
    <3> QED
      BY <3>2, <3>6, <3>7, <3>8, <3>9 DEF ReservationInv
  <2> QED
    BY <2>1, <2>2
<1> QED
  BY <1>1, <1>2, <1>3, <1>4, <1>5, <1>6, <1>7
     DEF Next, Proceed, Skip, Start, End, Recreate, UserDelete, Place, Panic, Crash, ShowPods, ShowNode,
         vars, api, view, history

-----------------------------------------------------------------------------
THEOREM Inductive == Spec => []IInv
<1>1. IInv /\ [Next]_vars => IInv'
  <2> SUFFICES ASSUME IInv, [Next]_vars PROVE IInv'
    OBVIOUS
  <2>1. Types' /\ ShownHaveRun' /\ VictimsHaveRun' /\ AwaitedPodsEnd'
    BY StepTypes, StepHasRun, StepAwaited DEF IInv
  <2>2. Undisturbed' => Orderly'
    BY StepOrderly
  <2> QED
    BY <2>1, <2>2 DEF IInv
<1> QED
  BY InitIInv, <1>1, PTL DEF Spec

(* What PreemptionProcess polls for happens: its victim is being deleted,  *)
(* or has gone, or was created again.                                      *)
THEOREM AwaitedEnd == Spec => []AwaitedPodsEnd
<1>1. IInv => AwaitedPodsEnd
  BY DEF IInv
<1> QED
  BY Inductive, <1>1, PTL

THEOREM ReservationsInductive == Spec => []ReservationInv
<1>1. Types /\ Types' /\ ReservationInv /\ [Next]_vars => ReservationInv'
  BY StepReservations
<1>2. IInv => Types
  BY DEF IInv
<1> QED
  BY InitReservations, Inductive, <1>1, <1>2, PTL DEF Spec

(* However many schedulers preempt one node, and whatever is cut short,    *)
(* RemovePreemptionInfo leaves no more conditions for a victim than there  *)
(* are preemptions of it, those that were cut short included.              *)
THEOREM ReservationsBounded == Spec => []ReservationsHaveHolders
<1>1. ReservationInv => ReservationsHaveHolders
  BY DEF ReservationInv
<1> QED
  BY ReservationsInductive, <1>1, PTL

(* What RemovePreemptionInfo removes for one victim never takes along the  *)
(* condition of a preemption of another.                                   *)
THEOREM ReservationsStayTillBound == Spec => []ReservationKept
<1>1. ReservationInv => ReservationKept
  BY DEF ReservationInv
<1> QED
  BY ReservationsInductive, <1>1, PTL

(* While no scheduler has crashed, panicked or lost its connection, the    *)
(* pod for which PreemptionProcess deletes a victim is still waiting, was  *)
(* created again, or has been deleted by a user.                           *)
THEOREM EvictionsServePending == Spec => EvictedForPending
<1>1. IInv /\ [Next]_vars =>
        [\A s \in Doing("delete") : work'[s] # work[s] /\ Undisturbed' =>
            phase[work[s].pod] = "pending" \/ work[s].pod \in born \cup removed]_vars
  <2> SUFFICES ASSUME IInv, [Next]_vars, Undisturbed', NEW s \in Doing("delete")
               PROVE  phase[work[s].pod] = "pending" \/ work[s].pod \in born \cup removed
    OBVIOUS
  <2>1. Orderly
    BY UndisturbedBefore DEF IInv
  <2> QED
    BY <2>1 DEF Orderly, PreemptorsWait, Waits, Doing
<1> QED
  BY Inductive, <1>1, PTL DEF Spec, EvictedForPending
=============================================================================
