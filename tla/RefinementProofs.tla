--------------------------- MODULE RefinementProofs ---------------------------
(***************************************************************************)
(* The simulator implements FirstFit.                                      *)
(***************************************************************************)
EXTENDS PreemptionProofs

(* FirstFit computes with the operators of Placement: the copies the        *)
(* instance brings in are equal to the simulator's.                        *)

LEMMA SameNames ==
  ASSUME NEW w, NEW i
  PROVE  /\ Promise!Empty = Empty
         /\ \A t, s, o : Promise!ClaimName(t, s, o) = ClaimName(t, s, o)
         /\ Promise!ClaimsOf(w, i) = ClaimsOf(w, i)
<1>1. Promise!Empty = Empty
  BY Zenon DEF Promise!Empty, Empty
<1>2. \A t, s, o : Promise!ClaimName(t, s, o) = ClaimName(t, s, o)
  BY Zenon DEF Promise!ClaimName, ClaimName
<1> QED
  BY <1>1, <1>2 DEF Promise!ClaimsOf, ClaimsOf

LEMMA SamePriorities ==
  ASSUME NEW c, NEW w
  PROVE  /\ Promise!DefaultPriority(c) = DefaultPriority(c)
         /\ Promise!PriorityClasses(c) = PriorityClasses(c)
         /\ Promise!ResolvePriority(c, w) = ResolvePriority(c, w)
         /\ Promise!Resolvable(c, w) <=> Resolvable(c, w)
<1>1. Promise!DefaultPriority(c) = DefaultPriority(c)
  BY SameNames DEF Promise!DefaultPriority, DefaultPriority
<1>2. Promise!SystemPriority = SystemPriority
  BY DEF Promise!SystemPriority, SystemPriority, Promise!systemClusterCritical,
         systemClusterCritical, Promise!systemNodeCritical, systemNodeCritical
<1>3. Promise!PriorityClasses(c) = PriorityClasses(c)
  BY <1>1, <1>2, SameNames DEF Promise!PriorityClasses, PriorityClasses
<1> QED
  BY <1>1, <1>3 DEF Promise!ResolvePriority, ResolvePriority, Promise!Resolvable, Resolvable

LEMMA SameReplica ==
  ASSUME NEW c, NEW w, NEW j, NEW i, NEW store
  PROVE  /\ Promise!Replica(c, w, j, i) = Replica(c, w, j, i)
         /\ Promise!InjectPVCs(store, c, w, i) = InjectPVCs(store, c, w, i)
<1>1. Promise!Replica(c, w, j, i) = Replica(c, w, j, i)
  BY SameNames, SamePriorities DEF Promise!Replica, Replica, Promise!NoNode, NoNode
<1>2. Promise!SynthesizedPVCs(c, w, i) = SynthesizedPVCs(c, w, i)
  BY SameNames DEF Promise!SynthesizedPVCs, SynthesizedPVCs
<1> QED
  BY <1>1, <1>2, SameNames DEF Promise!InjectPVCs, InjectPVCs

LEMMA SameCycle ==
  ASSUME NEW c, NEW pvcs, NEW pods, NEW placed, NEW pod, NEW n, NEW nodes
  PROVE  /\ Promise!View(c, pvcs, pods) = View(c, pvcs, pods)
         /\ Promise!Accepting(View(c, pvcs, pods), pod) = Accepting(View(c, pvcs, pods), pod)
         /\ Promise!Rejecting(View(c, pvcs, pods), pod) = Rejecting(View(c, pvcs, pods), pod)
         /\ Promise!Candidates(pods, placed, pod, n) = Candidates(pods, placed, pod, n)
         /\ Promise!First(n, nodes) <=> First(n, nodes)
         /\ Promise!PreemptionMeaningful(c, pod) <=> PreemptionMeaningful(c, pod)
<1>1. Promise!Node = Node
  BY DEF Promise!Node, Node
<1>2. /\ Promise!Accepting(View(c, pvcs, pods), pod) = Accepting(View(c, pvcs, pods), pod)
      /\ Promise!Rejecting(View(c, pvcs, pods), pod) = Rejecting(View(c, pvcs, pods), pod)
  BY <1>1 DEF Promise!Accepting, Accepting, Promise!Rejecting, Rejecting
<1>3. Promise!PreemptionMeaningful(c, pod) <=> PreemptionMeaningful(c, pod)
  BY SamePriorities DEF Promise!PreemptionMeaningful, PreemptionMeaningful
<1> QED
  BY <1>2, <1>3 DEF Promise!View, View, Promise!Candidates, Candidates, Promise!First, First

\* What FirstFit says of the replica at hand, in the simulator's terms.
LEMMA SameAttempt ==
  /\ Promise!Pending = Current /\ Promise!Injected = Claims
  /\ \A pods : Promise!Nodes(pods) = Accepting(View(cluster, Claims, pods), Current)
  /\ \A n : Promise!Evictable(n) = Victims(n)
  /\ Promise!Resisting = Rejecting(View(cluster, Claims, scheduledPods), Current)
  /\ Promise!MayPreempt <=> opts.considerPreemption /\ PreemptionMeaningful(cluster, Current)
<1>1. Promise!Pending = Current /\ Promise!Injected = Claims
  BY SameReplica DEF Promise!Pending, Promise!Injected, Current, Claims, W
<1> QED
  BY <1>1, SameCycle DEF Promise!Nodes, Promise!Evictable, Promise!Resisting,
     Promise!MayPreempt, Victims

\* During a search, both mean the same by a node that can be made to fit.
LEMMA SameSearch ==
  ASSUME pvcStore = Claims
  PROVE  /\ Promise!Resisting = Resisting
         /\ \A pods, n : n \in Promise!Nodes(scheduledPods \ pods) <=> FitsWithout(pods, n)
         /\ Promise!Nodes(scheduledPods) = Accepting(Trial(scheduledPods), Current)
         /\ \A n : Promise!Helps(n) <=> Helps(n)
<1>1. Promise!Resisting = Resisting /\ Promise!Nodes(scheduledPods) = Accepting(Trial(scheduledPods), Current)
  BY SameAttempt DEF Resisting, Trial
<1>2. \A pods, n : n \in Promise!Nodes(scheduledPods \ pods) <=> FitsWithout(pods, n)
  BY SameAttempt DEF FitsWithout, FitsOnNode, Trial
<1> QED
  BY <1>1, <1>2, SameAttempt DEF Promise!Helps, Helps

\* Reporting a workload appends its verdict.
LEMMA VerdictsAppended ==
  ASSUME TypeOK, CreditInv, ReportWorkload
  PROVE  Verdicts' = Append(Verdicts, [fit |-> ordinal, preempted |-> wr.usedPreemption])
<1> DEFINE Verdict == [fit : Nat, preempted : BOOLEAN]
           last    == [fit |-> ordinal, preempted |-> wr.usedPreemption]
<1>1. wr \in WorkloadResult /\ results \in Seq(WorkloadResult) /\ results' \in Seq(WorkloadResult)
  BY TypeNext DEF TypeOK, Next
<1>2. Verdicts \in Seq(Verdict) /\ Verdicts' \in Seq(Verdict) /\ last \in Verdict
  <2>1. \A s \in Seq(WorkloadResult) :
          [j \in 1 .. Len(s) |-> [fit |-> s[j].fit, preempted |-> s[j].usedPreemption]] \in Seq(Verdict)
    <3> SUFFICES ASSUME NEW s \in Seq(WorkloadResult)
                 PROVE  [j \in 1 .. Len(s) |-> [fit |-> s[j].fit, preempted |-> s[j].usedPreemption]]
                          \in Seq(Verdict)
      OBVIOUS
    <3>1. Len(s) \in Nat /\ \A j \in 1 .. Len(s) : s[j] \in WorkloadResult
      OBVIOUS
    <3>2. \A j \in 1 .. Len(s) : [fit |-> s[j].fit, preempted |-> s[j].usedPreemption] \in Verdict
      BY <3>1 DEF WorkloadResult
    <3> QED
      BY <3>1, <3>2
  <2> QED
    BY <1>1, <2>1 DEF Verdicts, Reported, WorkloadResult, TypeOK
<1>3. wr.fit = ordinal
  BY DEF ReportWorkload, CreditInv, Working
<1>4. Len(Verdicts) = Len(results) /\ Len(Verdicts') = Len(results')
  BY <1>1 DEF Verdicts, Reported
<1>5. /\ Len(results') = Len(results) + 1 /\ Len(results) \in Nat
      /\ \A j \in 1 .. Len(results) : results'[j] = results[j]
      /\ results'[Len(results) + 1] = wr
  BY Appended
<1>6. \A j \in 1 .. Len(results) : Verdicts'[j] = Verdicts[j]
  BY <1>5 DEF Verdicts, Reported
<1>7. Verdicts'[Len(results) + 1] = last
  BY <1>3, <1>5 DEF Verdicts, Reported
<1>8. /\ Append(Verdicts, last) \in Seq(Verdict)
      /\ Len(Append(Verdicts, last)) = Len(results) + 1
      /\ \A j \in 1 .. Len(results) : Append(Verdicts, last)[j] = Verdicts[j]
      /\ Append(Verdicts, last)[Len(results) + 1] = last
  <2> HIDE DEF last, Verdict
  <2> QED
    BY <1>2, <1>4, AppendProperties
<1>9. \A j \in 1 .. Len(results) + 1 : j \in 1 .. Len(results) \/ j = Len(results) + 1
  BY <1>5
<1>10. \A j \in 1 .. Len(results) + 1 : Verdicts'[j] = Append(Verdicts, last)[j]
  BY <1>6, <1>7, <1>8, <1>9
<1> HIDE DEF last, Verdict
<1>11. Verdicts' = Append(Verdicts, last)
  BY <1>2, <1>4, <1>5, <1>8, <1>10, SeqEqual
<1> QED
  BY <1>11 DEF last
-----------------------------------------------------------------------------
(* Initial states and steps.                                               *)

LEMMA RefinesInit == Init => Promise!Init
<1> SUFFICES ASSUME Init PROVE Promise!Init
  OBVIOUS
<1>1. Verdicts = << >>
  BY DEF Init, Verdicts, Reported
<1>2. Phases = "next" /\ wr.usedPreemption = FALSE
  BY DEF Init, Phases, NewResult
<1>3. Promise!NoNode = NoNode
  BY DEF Promise!NoNode, NoNode
<1> QED
  BY <1>1, <1>2, <1>3 DEF Init, Promise!Init, ListScheduledPods

\* What the proof of a step knows of the state it starts from.
IInv == TypeOK /\ SnapshotInSync /\ CreditInv /\ SearchSound /\ VictimsNeeded

\* A replica that lands in the simulator lands in FirstFit.
LEMMA RefinesLand ==
  ASSUME IInv, NEW n, NEW victims, NEW viaPreemption,
         Commit(Current, n, victims, viaPreemption),
         Phases = "open", pvcStore' = Claims,
         UNCHANGED <<cluster, batch, opts, wi, results>>
  PROVE  Promise!Land(n, victims) /\ wr'.usedPreemption = (wr.usedPreemption \/ viaPreemption)
<1>1. Phases' = "open"
  BY DEF Commit, Phases
<1>2. Verdicts' = Verdicts
  BY DEF Verdicts, Reported
<1>3. wr'.usedPreemption = (wr.usedPreemption \/ viaPreemption)
  BY DEF Commit, IInv, TypeOK, WorkloadResult
<1> QED
  BY <1>1, <1>2, <1>3, SameAttempt DEF Commit, Promise!Land, Promise!world

LEMMA RefinesStep == IInv /\ [Next]_vars => [Promise!Next]_(Promise!vars)
<1> SUFFICES ASSUME IInv, [Next]_vars PROVE Promise!Next \/ UNCHANGED Promise!vars
  OBVIOUS
<1> USE DEF inputs, outcome, progress, ledger, Promise!world
<1>a. TypeOK /\ SnapshotInSync /\ CreditInv /\ SearchSound /\ VictimsNeeded
  BY DEF IInv
<1>b. UNCHANGED results => UNCHANGED Verdicts
  BY DEF Verdicts, Reported
<1>1. CASE ProbeWorkload
  <2>1. Phases = "next" /\ Phases' = "open" /\ wr'.usedPreemption = FALSE
    BY <1>1 DEF ProbeWorkload, Phases, NewResult
  <2>2. pvcStore' = Promise!InjectPVCs(pvcStore, cluster, batch[wi], 0)
    BY <1>1, SameReplica DEF ProbeWorkload, ProbeCycle, View, W
  <2>3. wi <= Len(batch) /\ Promise!Resolvable(cluster, batch[wi])
    BY <1>1, SamePriorities DEF ProbeWorkload, W
  <2>4. Promise!Open
    BY <1>1, <1>b, <2>1, <2>2, <2>3 DEF ProbeWorkload, Promise!Open
  <2> QED
    BY <2>4 DEF Promise!Next
<1>2. CASE RejectWorkload
  <2>1. Phases = "next" /\ Phases' = "error" /\ Verdicts' = << >>
    BY <1>2 DEF RejectWorkload, Phases, Verdicts, Reported
  <2>2. pvcStore' = Promise!InjectPVCs(pvcStore, cluster, batch[wi], 0)
    BY <1>2, SameReplica DEF RejectWorkload, ProbeCycle, View, W
  <2>3. wi <= Len(batch) /\ ~Promise!Resolvable(cluster, batch[wi])
    BY <1>2, SamePriorities DEF RejectWorkload, W
  <2>4. Promise!Fail
    BY <1>2, <2>1, <2>2, <2>3 DEF RejectWorkload, Promise!Fail
  <2> QED
    BY <2>4 DEF Promise!Next
<1>c. Attempting => Promise!Attempt /\ Phases = "open" /\ snapshot = scheduledPods
  BY <1>a DEF Attempting, Promise!Attempt, Phases, W, SnapshotInSync
<1>d. Attempting => Promise!Nodes(scheduledPods) = Accepting(Cycle, Current)
  BY <1>c, SameAttempt DEF Cycle
<1>3. CASE PlaceReplica
  <2>1. PICK n \in Node : First(n, Accepting(Cycle, Current)) /\ Commit(Current, n, {}, FALSE)
    BY <1>3 DEF PlaceReplica
  <2>2. Promise!Land(n, {}) /\ wr'.usedPreemption = (wr.usedPreemption \/ FALSE)
    BY <1>3, <1>c, <2>1, RefinesLand DEF PlaceReplica
  <2>3. wr'.usedPreemption = wr.usedPreemption
    BY <1>a, <2>2 DEF TypeOK, WorkloadResult
  <2>4. Promise!First(n, Promise!Nodes(scheduledPods)) /\ n \in Promise!Node
    BY <1>3, <1>d, <2>1, SameCycle DEF PlaceReplica, Promise!Node, Node
  <2>5. Promise!Place
    BY <1>3, <1>c, <2>2, <2>3, <2>4 DEF PlaceReplica, Promise!Place
  <2> QED
    BY <2>5 DEF Promise!Next
<1>4. CASE GiveUp
  <2>1. Promise!Attempt /\ Promise!Nodes(scheduledPods) = {}
    BY <1>4, <1>c, <1>d DEF GiveUp
  <2>2. Promise!MayPreempt => \A n \in Promise!Node : ~Promise!Helps(n)
    <3>1. CASE ~PreFilter(Cycle, Current).ok
      <4>1. Promise!Resisting = Rejecting(Cycle, Current)
        BY <1>4, <1>c, SameAttempt DEF GiveUp, Cycle
      <4>2. Promise!Resisting = {}
        BY <3>1, <4>1 DEF Rejecting
      <4> QED
        BY <4>2 DEF Promise!Helps
    <3>2. CASE ~opts.considerPreemption \/ ~PreemptionMeaningful(cluster, Current)
      BY <3>2, SameAttempt
    <3> QED
      BY <1>4, <3>1, <3>2 DEF GiveUp
  <2>3. Phases' = "closed" /\ pvcStore' = Promise!Injected
    BY <1>4, SameAttempt DEF GiveUp, Phases
  <2>4. Promise!Stop
    BY <1>4, <1>b, <2>1, <2>2, <2>3 DEF GiveUp, Promise!Stop
  <2> QED
    BY <2>4 DEF Promise!Next
<1>5. CASE StartPreemption
  <2>1. Phases' = Phases /\ pvcStore' = Promise!Injected /\ Promise!Attempt
    BY <1>5, <1>c, SameAttempt DEF StartPreemption, Phases
  <2>2. Promise!Inject
    BY <1>5, <1>b, <2>1 DEF StartPreemption, Promise!Inject
  <2> QED
    BY <2>2 DEF Promise!Next
<1>6. CASE RemoveVictim
  <2>1. Phases' = Phases
    BY <1>6 DEF RemoveVictim, Phases
  <2> QED
    BY <1>6, <1>b, <2>1 DEF RemoveVictim, Promise!vars
<1>7. CASE NextNode \/ Reprieve
  <2>1. Phases' = Phases
    BY <1>7 DEF NextNode, Reprieve, Phases
  <2> QED
    BY <1>7, <1>b, <2>1 DEF NextNode, Reprieve, Promise!vars
<1>e. Searching => /\ pvcStore = Claims /\ Phases = "open" /\ Promise!Attempt /\ Promise!MayPreempt
                   /\ Promise!Nodes(scheduledPods) = {}
  <2> SUFFICES ASSUME Searching
               PROVE  /\ pvcStore = Claims /\ Phases = "open" /\ Promise!Attempt
                      /\ Promise!MayPreempt /\ Promise!Nodes(scheduledPods) = {}
    OBVIOUS
  <2>1. /\ opts.considerPreemption /\ PreemptionMeaningful(cluster, Current)
        /\ pvcStore = Claims /\ Accepting(Trial(scheduledPods), Current) = {}
    BY <1>a DEF SearchSound
  <2>2. Phases = "open" /\ ordinal < batch[wi].replicas
    BY <1>a DEF Phases, Searching, TypeOK, W
  <2> QED
    BY <2>1, <2>2, SameAttempt, SameSearch DEF Promise!Attempt
<1>8. CASE AbandonPreemption
  <2>1. Searching /\ todo = {}
    BY <1>8 DEF AbandonPreemption, Searching
  <2>2. \A n \in Promise!Node : ~Promise!Helps(n)
    <3>1. \A m \in Resisting : ~Helps(m)
      BY <1>a, <2>1 DEF SearchSound
    <3>2. \A m : ~Helps(m)
      BY <3>1 DEF Helps
    <3> QED
      BY <1>e, <2>1, <3>2, SameSearch
  <2>3. Phases' = "closed" /\ pvcStore' = Promise!Injected
    BY <1>8, <1>e, <2>1, SameAttempt DEF AbandonPreemption, Phases
  <2>4. Promise!Stop
    BY <1>8, <1>b, <1>e, <2>1, <2>2, <2>3 DEF AbandonPreemption, Promise!Stop
  <2> QED
    BY <2>4 DEF Promise!Next
<1>9. CASE PreemptReplica
  <2>1. PICK n \in todo : /\ First(n, todo) /\ Commit(Current, n, removed, TRUE) /\ n \in Node
                          /\ removed \subseteq Victims(n) /\ removed # {}
                          /\ FitsWithout(removed, n)
    BY <1>9, <1>a, Victorious
  <2>2. Searching /\ pc = "minimize" /\ pending = {} /\ UNCHANGED <<cluster, batch, opts, wi, results, pvcStore>>
    BY <1>9 DEF PreemptReplica, Searching
  <2>3. pvcStore = Claims
    BY <1>e, <2>2
  <2>4. Promise!Land(n, removed) /\ wr'.usedPreemption = (wr.usedPreemption \/ TRUE)
    BY <1>e, <2>1, <2>2, RefinesLand
  <2>5. n \in Promise!Resisting /\ removed \in (SUBSET Promise!Evictable(n)) \ {{}}
    BY <1>a, <2>1, <2>2, <2>3, SameAttempt, SameSearch DEF SearchSound
  <2>6. \A m \in Promise!Resisting : m < n => ~Promise!Helps(m)
    <3>1. \A m \in Resisting : m < n => ~Helps(m)
      <4>1. \A m \in todo : ~(m < n)
        BY <1>a, <2>1 DEF First, TypeOK, Node
      <4> QED
        BY <1>a, <2>2, <4>1 DEF SearchSound
    <3> QED
      BY <2>3, <3>1, SameSearch
  <2>7. n \in Promise!Nodes(scheduledPods \ removed)
    BY <2>1, <2>3, SameSearch
  <2>8. \A v \in removed : n \notin Promise!Nodes(scheduledPods \ (removed \ {v}))
    BY <1>a, <2>1, <2>2, <2>3, SameSearch DEF VictimsNeeded
  <2>9. Promise!Preempt
    BY <1>e, <2>2, <2>4, <2>5, <2>6, <2>7, <2>8 DEF Promise!Preempt
  <2> QED
    BY <2>9 DEF Promise!Next
<1>10. CASE ReportWorkload
  <2>1. Phases' = "next" /\ (Phases = "closed" \/ (Phases = "open" /\ ordinal >= batch[wi].replicas))
    BY <1>10 DEF ReportWorkload, Phases, W
  <2>2. Verdicts' = Append(Verdicts, [fit |-> ordinal, preempted |-> wr.usedPreemption])
    BY <1>10, <1>a, VerdictsAppended
  <2>3. Promise!Close
    BY <1>10, <2>1, <2>2 DEF ReportWorkload, Promise!Close
  <2> QED
    BY <2>3 DEF Promise!Next
<1>11. CASE Finish
  <2>1. Phases = "next" /\ Phases' = "done"
    BY <1>11 DEF Finish, Phases
  <2>2. Promise!End
    BY <1>11, <1>b, <2>1 DEF Finish, Promise!End
  <2> QED
    BY <2>2 DEF Promise!Next
<1>12. CASE UNCHANGED vars
  BY <1>12, <1>b DEF vars, Promise!vars, Phases
<1> QED
  BY <1>1, <1>2, <1>3, <1>4, <1>5, <1>6, <1>7, <1>8, <1>9, <1>10, <1>11, <1>12 DEF Next

\* With convex filters every run of the simulator is a run of FirstFit.
THEOREM Implementation ==
  ASSUME Convex
  PROVE  Spec => ImplementsFirstFit
<1>1. Spec => []VictimsNeeded
  BY EveryVictimNeeded
<1>2. TypeOK /\ SnapshotInSync /\ CreditInv /\ SearchSound /\ VictimsNeeded => IInv
  BY DEF IInv
<1> QED
  BY <1>1, <1>2, RefinesInit, RefinesStep, CreditInit, VerdictNext, CreditNext,
     TypeCorrect, SnapshotRestored, SearchIsSound, PTL
     DEF Spec, ImplementsFirstFit, Promise!Spec
===============================================================================
