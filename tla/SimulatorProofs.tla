--------------------------- MODULE SimulatorProofs ---------------------------
(***************************************************************************)
(* Theorems about the simulator, for any number of nodes, any clusters,    *)
(* any batches and any filters: types and bounds, the snapshot, and the    *)
(* report (the verdict, the replicas each workload is credited with, the   *)
(* agreement of the probe with the greedy loop).                           *)
(***************************************************************************)
EXTENDS Simulator, FiniteSetTheorems, SequenceTheorems, TLAPS

\* A cluster's default priority, and the one a valid pod is given, is a number.
LEMMA DefaultPriorityType ==
  ASSUME NEW c, IsCluster(c)
  PROVE  DefaultPriority(c) \in Int
<1>1. CASE c.globalDefault = Empty
  BY <1>1 DEF DefaultPriority
<1>2. CASE c.globalDefault # Empty
  BY <1>2 DEF DefaultPriority, IsCluster
<1> QED
  BY <1>1, <1>2

LEMMA SystemPriorityType ==
  ASSUME NEW class \in DOMAIN SystemPriority
  PROVE  SystemPriority[class] \in Int
<1>1. systemClusterCritical \in Int /\ systemNodeCritical \in Int
  BY SMT DEF systemClusterCritical, systemNodeCritical
<1> QED
  BY <1>1 DEF SystemPriority

LEMMA PriorityClassesType ==
  ASSUME NEW c, IsCluster(c), NEW class \in DOMAIN PriorityClasses(c)
  PROVE  PriorityClasses(c)[class] \in Int
<1>1. \A x \in DOMAIN c.classes : c.classes[x] \in Int
  BY DEF IsCluster
<1>2. DefaultPriority(c) \in Int
  BY DefaultPriorityType
<1> QED
  BY <1>1, <1>2, SystemPriorityType DEF PriorityClasses

LEMMA ResolvePriorityType ==
  ASSUME NEW c, IsCluster(c), NEW w, IsWorkload(w), Resolvable(c, w)
  PROVE  ResolvePriority(c, w) \in Int
<1>1. CASE w.priority # None
  BY <1>1 DEF ResolvePriority, IsWorkload
<1>2. CASE w.priority = None
  BY <1>2, PriorityClassesType DEF ResolvePriority, Resolvable
<1> QED
  BY <1>1, <1>2

\* A replica of a workload is a pod without a node.
LEMMA ReplicaType ==
  ASSUME NEW c, IsCluster(c), NEW w, IsWorkload(w), Resolvable(c, w),
         NEW k \in Nat, NEW i \in 0 .. w.replicas
  PROVE  /\ Replica(c, w, k, i) \in Pod
         /\ Replica(c, w, k, i).node = NoNode
<1>1. ResolvePriority(c, w) \in Int
  BY ResolvePriorityType
<1>2. w.spec \in Template /\ w.spec.claims \subseteq STRING
  BY TemplateAssumption DEF IsWorkload
<1>3. ClaimsOf(w, i) \subseteq STRING
  BY DEF ClaimsOf, IsWorkload
<1>4. i \in Nat
  BY DEF IsWorkload
<1> QED
  BY <1>1, <1>2, <1>3, <1>4 DEF Replica, Pod, Phase, NoNode

\* Injecting the claims of a replica leaves only claims in the store.
LEMMA InjectPVCsType ==
  ASSUME NEW c, IsCluster(c), NEW w, IsWorkload(w), NEW i \in 0 .. w.replicas,
         NEW store \in SUBSET PVC
  PROVE  InjectPVCs(store, c, w, i) \subseteq PVC
<1>1. SynthesizedPVCs(c, w, i) \subseteq PVC
  BY DEF SynthesizedPVCs, PVC, Name, IsWorkload, IsCluster
<1> QED
  BY <1>1 DEF InjectPVCs

\* The number of nodes that accept a pod is between none and all.
LEMMA FeasibleNodesType ==
  ASSUME NEW view, NEW pod
  PROVE  Cardinality(Accepting(view, pod)) \in 0 .. N
<1>1. IsFiniteSet(Node) /\ Cardinality(Node) = N
  BY NodesAssumption, FS_Interval DEF Node
<1>2. Accepting(view, pod) \subseteq Node
  BY DEF Accepting
<1>3. IsFiniteSet(Accepting(view, pod)) /\ Cardinality(Accepting(view, pod)) <= Cardinality(Node)
  BY <1>1, <1>2, FS_Subset
<1>4. Cardinality(Accepting(view, pod)) \in Nat
  BY <1>3, FS_CardinalityType
<1> QED
  BY <1>1, <1>3, <1>4, NodesAssumption

\* The capacity report covers what the template requests and says of each
\* resource one of the three things it may say.
LEMMA ResourceStatusesType ==
  ASSUME NEW alloc, NEW used, NEW w, IsWorkload(w)
  PROVE  ResourceStatuses(alloc, used, RequestedByWorkload(w.spec, w.replicas))
           \in UNION {[D -> ResourceFit] : D \in SUBSET Resource}
<1> DEFINE requested == RequestedByWorkload(w.spec, w.replicas)
<1>1. DOMAIN requested \subseteq Resource
  BY TemplateAssumption DEF RequestedByWorkload, IsWorkload
<1>2. \A x, y, z : ClassifyResource(x, y, z) \in ResourceFit
  BY DEF ClassifyResource, ResourceFit
<1>3. ResourceStatuses(alloc, used, requested) \in [DOMAIN requested -> ResourceFit]
  BY <1>2 DEF ResourceStatuses
<1> QED
  BY <1>1, <1>3

\* What TypeOK says of the current workload, unfolded once for all actions.
LEMMA CurrentWorkload ==
  ASSUME TypeOK, wi <= Len(batch)
  PROVE  IsCluster(cluster) /\ IsWorkload(W) /\ wi \in Nat /\ Len(batch) \in Nat
<1>1. IsCluster(cluster)
  BY ClustersAssumption DEF TypeOK
<1>2. Len(batch) \in Nat
  BY BatchesAssumption DEF TypeOK
<1>3. wi \in 1 .. Len(batch)
  BY <1>2 DEF TypeOK
<1> QED
  BY <1>1, <1>2, <1>3, BatchesAssumption DEF TypeOK, W

LEMMA TypeInit == Init => TypeOK
<1> SUFFICES ASSUME Init PROVE TypeOK
  OBVIOUS
<1>1. IsCluster(cluster) /\ Len(batch) \in Nat
  BY ClustersAssumption, BatchesAssumption DEF Init
<1>2. scheduledPods \subseteq Pod /\ pvcStore \subseteq PVC
  BY <1>1 DEF Init, IsCluster, ListScheduledPods
<1>3. DOMAIN allocated = Resource
  BY DEF Init, AllocatedByResource
<1>4. wr \in WorkloadResult
  BY NodesAssumption DEF Init, NewResult, WorkloadResult
<1>5. wi \in 1 .. Len(batch) + 1 /\ ordinal \in Nat /\ results \in Seq(WorkloadResult)
  BY <1>1 DEF Init
<1> QED
  BY <1>2, <1>3, <1>4, <1>5 DEF Init, TypeOK

\* A committed replica is a pod of the ledger and the victims are gone.
LEMMA CommitType ==
  ASSUME TypeOK, wi <= Len(batch), Resolvable(cluster, W), ordinal < W.replicas,
         NEW n \in Node, NEW victims \in SUBSET (scheduledPods \ simulated),
         NEW viaPreemption \in BOOLEAN, Commit(Current, n, victims, viaPreemption)
  PROVE  /\ scheduledPods' \subseteq Pod
         /\ simulated' \subseteq scheduledPods'
         /\ snapshot' \subseteq scheduledPods'
         /\ wr' \in WorkloadResult
         /\ ordinal' \in Nat /\ ordinal' <= W.replicas
         /\ pc' = "place"
<1>1. IsCluster(cluster) /\ IsWorkload(W) /\ wi \in Nat
  BY CurrentWorkload
<1>2. ordinal \in 0 .. W.replicas
  BY <1>1 DEF TypeOK, IsWorkload
<1>3. [Current EXCEPT !.node = n] \in Pod
  <2>1. Current \in Pod
    BY <1>1, <1>2, ReplicaType DEF Current
  <2>2. n \in Node \cup {NoNode}
    OBVIOUS
  <2> QED
    BY <2>1, <2>2 DEF Pod
<1>4. wr' \in WorkloadResult
  <2>1. wr \in WorkloadResult
    BY DEF TypeOK
  <2>2. wr.fit + 1 \in Nat /\ (wr.usedPreemption \/ viaPreemption) \in BOOLEAN
    BY <2>1 DEF WorkloadResult
  <2>3. wr' = [[wr EXCEPT !.fit = wr.fit + 1]
                  EXCEPT !.usedPreemption = wr.usedPreemption \/ viaPreemption]
    BY <2>1 DEF Commit, WorkloadResult
  <2> QED
    BY <2>1, <2>2, <2>3 DEF WorkloadResult
<1>5. ordinal' \in Nat /\ ordinal' <= W.replicas
  BY <1>1, <1>2 DEF Commit, IsWorkload
<1> QED
  BY <1>3, <1>4, <1>5 DEF TypeOK, Commit

LEMMA TypeNext == TypeOK /\ [Next]_vars => TypeOK'
<1> SUFFICES ASSUME TypeOK, [Next]_vars PROVE TypeOK'
  OBVIOUS
<1> USE DEF inputs, ledger, progress, outcome, search
<1>0. wi <= Len(batch) => IsCluster(cluster) /\ IsWorkload(W) /\ W.replicas \in Nat
  BY CurrentWorkload DEF IsWorkload
<1>a. ASSUME wi <= Len(batch), NEW i \in 0 .. W.replicas
      PROVE  InjectPVCs(pvcStore, cluster, W, i) \subseteq PVC
  BY <1>0, <1>a, InjectPVCsType DEF TypeOK
<1>b. Attempting => wi <= Len(batch) /\ ordinal \in 0 .. W.replicas
  BY <1>0 DEF Attempting, TypeOK
<1>1. CASE ProbeWorkload
  <2>1. pvcStore' \subseteq PVC
    BY <1>1, <1>0, <1>a DEF ProbeWorkload, ProbeCycle, View
  <2>2. wr' \in WorkloadResult
    <3>1. Cardinality(Accepting(ProbeCycle, Probe)) \in 0 .. N
      BY FeasibleNodesType
    <3>2. FilterReasons(ProbeCycle, Probe) \subseteq Plugin
      BY DEF FilterReasons
    <3>3. ResourceStatuses(cluster.alloc, allocated, RequestedByWorkload(W.spec, W.replicas))
            \in UNION {[D -> ResourceFit] : D \in SUBSET Resource}
      BY <1>0, <1>1, ResourceStatusesType DEF ProbeWorkload
    <3> QED
      BY <1>1, <3>1, <3>2, <3>3 DEF ProbeWorkload, NewResult, WorkloadResult
  <2> QED
    BY <1>0, <1>1, <2>1, <2>2 DEF ProbeWorkload, TypeOK, W
<1>2. CASE RejectWorkload
  <2>1. pvcStore' \subseteq PVC
    BY <1>2, <1>0, <1>a DEF RejectWorkload, ProbeCycle, View
  <2> QED
    BY <1>2, <2>1 DEF RejectWorkload, TypeOK, W
<1>3. CASE PlaceReplica
  <2>1. PICK n \in Node : Commit(Current, n, {}, FALSE)
    BY <1>3 DEF PlaceReplica
  <2>2. pvcStore' \subseteq PVC
    BY <1>3, <1>a, <1>b DEF PlaceReplica, Claims
  <2>3. /\ wi <= Len(batch) /\ Resolvable(cluster, W) /\ ordinal < W.replicas
        /\ removed = {} /\ pending = {}
    BY <1>3 DEF PlaceReplica, Attempting, TypeOK
  <2>4. /\ scheduledPods' \subseteq Pod /\ simulated' \subseteq scheduledPods'
        /\ snapshot' \subseteq scheduledPods' /\ wr' \in WorkloadResult
        /\ ordinal' \in Nat /\ ordinal' <= W.replicas /\ pc' = "place"
    BY <2>1, <2>3, CommitType
  <2> QED
    BY <1>3, <2>2, <2>3, <2>4 DEF PlaceReplica, TypeOK, W
<1>4. CASE GiveUp
  <2>1. pvcStore' \subseteq PVC
    BY <1>4, <1>a, <1>b DEF GiveUp, Claims
  <2> QED
    BY <1>4, <2>1 DEF GiveUp, Attempting, TypeOK, W
<1>5. CASE StartPreemption
  <2>1. pvcStore' \subseteq PVC
    BY <1>5, <1>a, <1>b DEF StartPreemption, Claims
  <2>2. todo' \subseteq Node
    BY <1>5 DEF StartPreemption, Rejecting
  <2> QED
    BY <1>5, <2>1, <2>2 DEF StartPreemption, Attempting, TypeOK, W
<1>6. CASE RemoveVictim
  <2>1. PICK n \in todo, v \in scheduledPods :
          /\ v \in Candidates(scheduledPods, simulated, Current, n)
          /\ removed' = removed \cup {v}
          /\ snapshot' = scheduledPods \ removed'
          /\ \/ pc' = "minimize" /\ pending' = removed'
             \/ UNCHANGED <<pc, pending>>
    BY <1>6 DEF RemoveVictim, Lowest
  <2>2. removed' \subseteq scheduledPods \ simulated
    BY <2>1 DEF Candidates, TypeOK
  <2> QED
    BY <1>6, <2>1, <2>2 DEF RemoveVictim, TypeOK, W
<1>7. CASE NextNode
  BY <1>7 DEF NextNode, TypeOK, W
<1>8. CASE AbandonPreemption
  BY <1>8 DEF AbandonPreemption, TypeOK, W
<1>9. CASE Reprieve
  <2>1. PICK n \in todo, v \in pending :
          /\ pending' = pending \ {v}
          /\ snapshot' = scheduledPods \ (removed \ {v})
          /\ removed' = removed \ {v} \/ removed' = removed
    BY <1>9 DEF Reprieve
  <2> QED
    BY <1>9, <2>1 DEF Reprieve, TypeOK, W
<1>10. CASE PreemptReplica
  <2>1. PICK n \in todo : Commit(Current, n, removed, TRUE)
    BY <1>10 DEF PreemptReplica
  <2>2. wi <= Len(batch) /\ Resolvable(cluster, W) /\ ordinal < W.replicas
    BY <1>10 DEF PreemptReplica, TypeOK
  <2>3. n \in Node /\ removed \in SUBSET (scheduledPods \ simulated)
    BY DEF TypeOK
  <2>4. /\ scheduledPods' \subseteq Pod /\ simulated' \subseteq scheduledPods'
        /\ snapshot' \subseteq scheduledPods' /\ wr' \in WorkloadResult
        /\ ordinal' \in Nat /\ ordinal' <= W.replicas /\ pc' = "place"
    BY <2>1, <2>2, <2>3, CommitType
  <2> QED
    BY <1>10, <2>2, <2>4 DEF PreemptReplica, TypeOK, W
<1>11. CASE ReportWorkload
  <2>1. wi <= Len(batch)
    BY <1>11 DEF ReportWorkload, TypeOK
  <2>2. wi' \in 1 .. Len(batch) + 1
    BY <1>11, <2>1, CurrentWorkload DEF ReportWorkload, TypeOK
  <2>3. results' \in Seq(WorkloadResult) /\ schedulable' \in BOOLEAN
    BY <1>11 DEF ReportWorkload, TypeOK, Fits
  <2>4. removed = {} /\ pending = {}
    BY <1>11 DEF ReportWorkload, TypeOK
  <2> QED
    BY <1>11, <2>2, <2>3, <2>4 DEF ReportWorkload, TypeOK, W
<1>12. CASE Finish
  BY <1>12 DEF Finish, TypeOK, W
<1>13. CASE UNCHANGED vars
  BY <1>13 DEF vars, TypeOK, W
<1> QED
  BY <1>1, <1>2, <1>3, <1>4, <1>5, <1>6, <1>7, <1>8, <1>9, <1>10, <1>11, <1>12, <1>13
     DEF Next

\* Whatever the cluster, the batch and the filters, the simulator's variables
\* keep their types and its loops their bounds.
THEOREM TypeCorrect == Spec => []TypeOK
<1> QED
  BY TypeInit, TypeNext, PTL DEF Spec

LEMMA SyncNext == SnapshotInSync /\ [Next]_vars => SnapshotInSync'
<1> SUFFICES ASSUME SnapshotInSync, [Next]_vars PROVE SnapshotInSync'
  OBVIOUS
<1> USE DEF SnapshotInSync, ledger
<1>1. CASE PlaceReplica
  BY <1>1 DEF PlaceReplica, Commit
<1>2. CASE PreemptReplica
  BY <1>2 DEF PreemptReplica, Commit
<1>3. CASE ProbeWorkload \/ RejectWorkload \/ GiveUp \/ ReportWorkload \/ Finish
  BY <1>3 DEF ProbeWorkload, RejectWorkload, GiveUp, Attempting, ReportWorkload, Finish
<1>4. CASE StartPreemption \/ NextNode \/ RemoveVictim \/ Reprieve
  BY <1>4 DEF StartPreemption, NextNode, RemoveVictim, Reprieve
<1>5. CASE AbandonPreemption
  BY <1>5 DEF AbandonPreemption
<1>6. CASE UNCHANGED vars
  BY <1>6 DEF vars
<1> QED
  BY <1>1, <1>2, <1>3, <1>4, <1>5, <1>6 DEF Next

\* No trial snapshot outlives the search it was made for.
THEOREM SnapshotRestored == Spec => []SnapshotInSync
<1>1. Init => SnapshotInSync
  BY DEF Init, SnapshotInSync
<1> QED
  BY <1>1, SyncNext, PTL DEF Spec
-----------------------------------------------------------------------------
(* The report.                                                             *)

\* What appending a result does to the ones before it.
LEMMA Appended ==
  ASSUME TypeOK, ReportWorkload
  PROVE  /\ wi' = wi + 1 /\ wi \in Nat
         /\ Len(results) \in Nat
         /\ Len(results') = Len(results) + 1
         /\ \A k \in 1 .. Len(results) : results'[k] = results[k]
         /\ results'[Len(results) + 1] = wr
<1>1. wi <= Len(batch)
  BY DEF ReportWorkload, TypeOK
<1>2. wi \in Nat
  BY <1>1, CurrentWorkload
<1>3. results \in Seq(WorkloadResult) /\ wr \in WorkloadResult
  BY DEF TypeOK
<1>4. Len(results) \in Nat
  BY <1>3
<1> QED
  BY <1>2, <1>3, <1>4, AppendProperties DEF ReportWorkload
-----------------------------------------------------------------------------
(* The verdict.                                                            *)

\* One result per workload that was evaluated, and the verdict so far is their
\* conjunction.
VerdictInv ==
  /\ pc # "error" => Len(results) = wi - 1
  /\ pc = "done" => wi > Len(batch)
  /\ pc # "error" => (schedulable <=> \A k \in Reported : Fits(k, results[k]))

LEMMA VerdictNext == TypeOK /\ VerdictInv /\ [Next]_vars => VerdictInv'
<1> SUFFICES ASSUME TypeOK, VerdictInv, [Next]_vars PROVE VerdictInv'
  OBVIOUS
<1> USE DEF inputs, outcome, progress
<1>1. CASE UNCHANGED <<batch, results, schedulable, wi>> /\ pc # "error" /\ pc' # "done"
  BY <1>1 DEF VerdictInv, Reported, Fits
<1>2. CASE ProbeWorkload
  <2> QED
    BY <1>2, <1>1 DEF ProbeWorkload
<1>3. CASE PlaceReplica
  BY <1>3, <1>1 DEF PlaceReplica, Attempting, Commit
<1>4. CASE GiveUp \/ StartPreemption
  BY <1>4, <1>1 DEF GiveUp, StartPreemption, Attempting
<1>5. CASE RemoveVictim
  BY <1>5, <1>1 DEF RemoveVictim
<1>6. CASE NextNode \/ AbandonPreemption \/ Reprieve
  BY <1>6, <1>1 DEF NextNode, AbandonPreemption, Reprieve
<1>7. CASE PreemptReplica
  BY <1>7, <1>1 DEF PreemptReplica, Commit
<1>8. CASE RejectWorkload
  BY <1>8 DEF RejectWorkload, VerdictInv
<1>9. CASE ReportWorkload
  <2>1. pc # "error" /\ pc' = "probe" /\ batch' = batch
    BY <1>9 DEF ReportWorkload
  <2>2. Len(results') = wi' - 1 /\ Len(results') = Len(results) + 1 /\ Len(results) \in Nat
    BY <1>9, <2>1, Appended DEF VerdictInv
  <2>3. \A k \in 1 .. Len(results) : results'[k] = results[k]
    BY <1>9, Appended
  <2>4. results'[Len(results) + 1] = wr /\ wi = Len(results) + 1
    BY <1>9, <2>1, Appended DEF VerdictInv
  <2>5. schedulable' <=> (schedulable /\ Fits(wi, wr))
    BY <1>9 DEF ReportWorkload
  <2>6. schedulable <=> \A k \in 1 .. Len(results) : results[k].fit = batch[k].replicas
    BY <2>1 DEF VerdictInv, Reported, Fits
  <2>7. schedulable' <=> \A k \in 1 .. Len(results') : results'[k].fit = batch[k].replicas
    BY <2>2, <2>3, <2>4, <2>5, <2>6 DEF Fits
  <2> QED
    BY <2>1, <2>2, <2>7 DEF VerdictInv, Reported, Fits
<1>10. CASE Finish
  BY <1>10 DEF Finish, VerdictInv, Reported, Fits
<1>11. CASE UNCHANGED vars
  BY <1>11 DEF vars, VerdictInv, Reported, Fits
<1> QED
  BY <1>2, <1>3, <1>4, <1>5, <1>6, <1>7, <1>8, <1>9, <1>10, <1>11 DEF Next

LEMMA VerdictInvImplies == TypeOK /\ VerdictInv => VerdictExact
<1> SUFFICES ASSUME TypeOK, VerdictInv, pc = "done"
             PROVE  /\ Len(results) = Len(batch)
                    /\ schedulable <=> \A k \in Reported : Fits(k, results[k])
  BY DEF VerdictExact
<1>1. Len(batch) \in Nat /\ wi \in 1 .. Len(batch) + 1
  BY BatchesAssumption DEF TypeOK
<1> QED
  BY <1>1 DEF VerdictInv

\* The verdict takes every workload of the batch into account, each once, and
\* nothing else; the exit code is made of it.
THEOREM VerdictCorrect == Spec => []VerdictExact
<1>1. Init => VerdictInv
  BY DEF Init, VerdictInv, Reported
<1> QED
  BY <1>1, TypeCorrect, VerdictNext, VerdictInvImplies, PTL DEF Spec
-----------------------------------------------------------------------------
(* The replicas a workload is credited with.                               *)

Working == pc \in {"place", "remove", "minimize", "report"}

\* The replicas in the ledger are those of the workloads reported so far and the
\* first ones, up to the loop variable, of the workload at hand; both counts are right.
CreditInv ==
  /\ IsFiniteSet(simulated)
  /\ \A p \in simulated : /\ p.id[1] <= wi
                          /\ p.id[1] = wi => Working /\ p.id[2] < ordinal
  /\ Working => Cardinality(ReplicasOf(wi)) = wr.fit /\ wr.fit = ordinal

LEMMA ReplicasFinite ==
  ASSUME IsFiniteSet(simulated), NEW k
  PROVE  IsFiniteSet(ReplicasOf(k))
BY FS_Subset DEF ReplicasOf

\* The replica that Commit appends is a new one, of the workload at hand.
LEMMA Committed ==
  ASSUME TypeOK, CreditInv, Attempting \/ pc = "minimize",
         NEW n \in Node, NEW victims, NEW viaPreemption,
         Commit(Current, n, victims, viaPreemption), wi' = wi
  PROVE  /\ IsFiniteSet(simulated')
         /\ \A p \in simulated' : /\ p.id[1] <= wi
                                  /\ p.id[1] = wi => p.id[2] < ordinal'
         /\ Cardinality(ReplicasOf(wi)') = wr'.fit
         /\ \A k : k # wi => ReplicasOf(k)' = ReplicasOf(k)
         /\ wr'.fit = wr.fit + 1 /\ wr'.fit = ordinal' /\ ordinal' = ordinal + 1
         /\ [Current EXCEPT !.node = n] \notin simulated
         /\ wr'.feasible = wr.feasible
<1> DEFINE placed == [Current EXCEPT !.node = n]
<1>1. placed.id = <<wi, ordinal>>
  BY DEF Current, Replica
<1>2. simulated' = simulated \cup {placed} /\ ordinal' = ordinal + 1
  BY DEF Commit
<1> HIDE DEF placed
<1>3. wi \in Nat /\ ordinal \in Nat /\ wr \in WorkloadResult
  <2>1. wi <= Len(batch)
    BY DEF TypeOK, Attempting
  <2> QED
    BY <2>1, CurrentWorkload DEF TypeOK
<1>4. wr'.fit = wr.fit + 1 /\ wr'.feasible = wr.feasible
  BY <1>3 DEF Commit, WorkloadResult
<1>5. simulated \subseteq Pod
  BY DEF TypeOK
<1>6. placed \notin simulated
  <2>1. \A p \in simulated : p.id[1] = wi => p.id[2] < ordinal
    BY DEF CreditInv
  <2>2. placed.id[1] = wi /\ ~(placed.id[2] < ordinal)
    BY <1>1, <1>3
  <2> QED
    BY <2>1, <2>2
<1>7. \A p \in simulated' : p.id[1] <= wi /\ (p.id[1] = wi => p.id[2] < ordinal')
  BY <1>1, <1>2, <1>3, <1>5 DEF CreditInv, Pod
<1>8. ReplicasOf(wi)' = ReplicasOf(wi) \cup {placed}
  BY <1>1, <1>2 DEF ReplicasOf
<1>9. Cardinality(ReplicasOf(wi)') = Cardinality(ReplicasOf(wi)) + 1
  <2>1. IsFiniteSet(ReplicasOf(wi))
    BY ReplicasFinite DEF CreditInv
  <2>2. placed \notin ReplicasOf(wi)
    BY <1>6 DEF ReplicasOf
  <2> QED
    BY <1>8, <2>1, <2>2, FS_AddElement
<1>10. Cardinality(ReplicasOf(wi)) = wr.fit /\ wr.fit = ordinal
  BY DEF CreditInv, Working, Attempting
<1>11. \A k : k # wi => ReplicasOf(k)' = ReplicasOf(k)
  BY <1>1, <1>2 DEF ReplicasOf
<1>12. IsFiniteSet(simulated')
  BY <1>2, FS_AddElement DEF CreditInv
<1> QED
  BY <1>2, <1>4, <1>6, <1>7, <1>9, <1>10, <1>11, <1>12 DEF placed

LEMMA CreditNext == TypeOK /\ VerdictInv /\ CreditInv /\ ReplicasStand /\ [Next]_vars
                      => CreditInv' /\ ReplicasStand'
<1> SUFFICES ASSUME TypeOK, VerdictInv, CreditInv, ReplicasStand, [Next]_vars
             PROVE  CreditInv' /\ ReplicasStand'
  OBVIOUS
<1> USE DEF inputs, outcome, progress, ledger
<1>a. TypeOK'
  BY TypeNext
<1>1. CASE /\ UNCHANGED <<simulated, wi, wr, ordinal, results>>
           /\ Working <=> Working'
  <2>1. CreditInv'
    BY <1>1 DEF CreditInv, ReplicasOf
  <2>2. \A k \in Reported' : /\ Cardinality(ReplicasOf(k)') = results'[k].fit
                             /\ ReplicasOf(k)' \subseteq scheduledPods'
    BY <1>1, <1>a DEF ReplicasStand, Reported, ReplicasOf, TypeOK
  <2> QED
    BY <2>1, <2>2 DEF ReplicasStand
<1>2. CASE ProbeWorkload
  <2>1. wi \in Nat /\ simulated' = simulated /\ wi' = wi /\ pc = "probe" /\ results' = results
    BY <1>2, CurrentWorkload DEF ProbeWorkload
  <2>2. ReplicasOf(wi) = {} /\ \A p \in simulated : p.id[1] # wi
    BY <2>1 DEF CreditInv, ReplicasOf, Working
  <2>3. wr'.fit = 0 /\ ordinal' = 0
    BY <1>2 DEF ProbeWorkload, NewResult
  <2>4. Cardinality({}) = 0
    BY FS_EmptySet
  <2>5. CreditInv'
    BY <2>1, <2>2, <2>3, <2>4 DEF CreditInv, ReplicasOf
  <2>6. ReplicasStand'
    BY <1>2, <2>1 DEF ProbeWorkload, ReplicasStand, Reported, ReplicasOf
  <2> QED
    BY <2>5, <2>6
<1>3. ASSUME NEW n \in Node, NEW victims, NEW viaPreemption,
             Commit(Current, n, victims, viaPreemption),
             Attempting \/ pc = "minimize", wi' = wi, results' = results
      PROVE  CreditInv' /\ ReplicasStand'
  <2>1. CreditInv'
    BY <1>3, Committed DEF CreditInv, Working, Commit
  <2>2. \A k \in Reported : k # wi
    <3>1. wi \in Nat /\ Len(results) = wi - 1
      BY <1>3, CurrentWorkload DEF VerdictInv, TypeOK, Attempting
    <3> QED
      BY <3>1 DEF Reported
  <2>3. \A k \in Reported : ReplicasOf(k)' = ReplicasOf(k)
    BY <1>3, <2>2, Committed
  <2>4. \A k \in Reported' : /\ Cardinality(ReplicasOf(k)') = results'[k].fit
                             /\ ReplicasOf(k)' \subseteq simulated'
    BY <1>3, <2>3 DEF ReplicasStand, Reported, ReplicasOf
  <2> QED
    BY <2>1, <2>4, <1>a DEF ReplicasStand, TypeOK
<1>4. CASE PlaceReplica
  BY <1>4, <1>3 DEF PlaceReplica
<1>5. CASE PreemptReplica
  <2>1. PICK n \in todo : Commit(Current, n, removed, TRUE)
    BY <1>5 DEF PreemptReplica
  <2>2. n \in Node
    BY DEF TypeOK
  <2> QED
    BY <1>5, <2>1, <2>2, <1>3 DEF PreemptReplica
<1>6. CASE GiveUp \/ StartPreemption
  BY <1>6, <1>1 DEF GiveUp, StartPreemption, Attempting, Working
<1>7. CASE RemoveVictim
  BY <1>7, <1>1 DEF RemoveVictim, Working
<1>8. CASE NextNode \/ AbandonPreemption \/ Reprieve
  BY <1>8, <1>1 DEF NextNode, AbandonPreemption, Reprieve, Working
<1>9. CASE RejectWorkload
  BY <1>9 DEF RejectWorkload, CreditInv, ReplicasStand, Reported, ReplicasOf, Working
<1>10. CASE ReportWorkload
  <2>1. Working /\ ~Working' /\ simulated' = simulated /\ scheduledPods' = scheduledPods
    BY <1>10 DEF ReportWorkload, Working
  <2>2. wi \in Nat /\ wi' = wi + 1 /\ Len(results) = wi - 1 /\ Len(results') = wi
    BY <1>10, Appended DEF ReportWorkload, VerdictInv
  <2>3. \A p \in simulated : p.id[1] \in Nat
    BY DEF TypeOK, Pod
  <2>4. CreditInv'
    BY <2>1, <2>2, <2>3 DEF CreditInv
  <2>5. \A k \in Reported' : \/ k \in Reported /\ results'[k] = results[k]
                             \/ k = wi /\ results'[k] = wr
    BY <1>10, <2>2, Appended DEF Reported
  <2>6. ReplicasOf(wi) \subseteq scheduledPods /\ Cardinality(ReplicasOf(wi)) = wr.fit
    BY <2>1 DEF CreditInv, ReplicasOf, TypeOK
  <2> QED
    BY <2>1, <2>4, <2>5, <2>6 DEF ReplicasStand, ReplicasOf
<1>11. CASE Finish
  BY <1>11, <1>1 DEF Finish, Working
<1>12. CASE UNCHANGED vars
  BY <1>12, <1>1 DEF vars, Working
<1> QED
  BY <1>2, <1>4, <1>5, <1>6, <1>7, <1>8, <1>9, <1>10, <1>11, <1>12 DEF Next

LEMMA CreditInit == Init => VerdictInv /\ CreditInv /\ ReplicasStand
<1>1. IsFiniteSet({})
  BY FS_EmptySet
<1> QED
  BY <1>1 DEF Init, VerdictInv, CreditInv, ReplicasStand, Reported, Working

\* What a workload was credited with, it keeps: no later replica, workload or
\* eviction takes a replica out of the ledger, and the count is exact.
THEOREM CreditStands == Spec => []ReplicasStand
<1> QED
  BY CreditInit, TypeCorrect, VerdictNext, CreditNext, PTL DEF Spec
-----------------------------------------------------------------------------
(* The probe and the greedy loop.                                          *)

\* Injecting the same claims once more changes nothing.
LEMMA InjectTwice ==
  ASSUME NEW c, NEW w, NEW i, NEW store
  PROVE  InjectPVCs(InjectPVCs(store, c, w, i), c, w, i) = InjectPVCs(store, c, w, i)
<1>1. \A q \in SynthesizedPVCs(c, w, i) : q.name \in ClaimsOf(w, i)
  BY DEF SynthesizedPVCs, ClaimsOf
<1> QED
  BY <1>1 DEF InjectPVCs

\* Until the first replica is dealt with, the probe's count is what the loop
\* would find; afterwards, the loop has confirmed it.
ProbeInv ==
  /\ pc = "place" /\ ordinal = 0 => wr.feasible = Cardinality(Accepting(Cycle, Current))
  /\ Working /\ ordinal = 0 /\ pc # "place" => wr.feasible = 0
  /\ Working /\ ordinal = 0 => wr.fit = 0
  /\ Working /\ ordinal > 0 => wr.fit > 0 /\ (wr.feasible = 0 => wr.usedPreemption)
  /\ \A k \in Reported : batch[k].replicas >= 1 =>
       /\ results[k].feasible > 0 => results[k].fit >= 1
       /\ results[k].feasible = 0 /\ results[k].fit >= 1 => results[k].usedPreemption

\* As long as the loop keeps its place, what the invariant says of it stands.
LEMMA ProbeKept ==
  ASSUME ProbeInv, UNCHANGED <<batch, results, wr, ordinal>>,
         Working <=> Working', pc' # "place",
         Working /\ ordinal = 0 => wr.feasible = 0
  PROVE  ProbeInv'
BY DEF ProbeInv, Reported

LEMMA NobodyAccepts ==
  ASSUME NEW view, NEW pod
  PROVE  /\ Cardinality(Accepting(view, pod)) \in Nat
         /\ Cardinality(Accepting(view, pod)) = 0 <=> Accepting(view, pod) = {}
<1>1. IsFiniteSet(Node)
  BY NodesAssumption, FS_Interval DEF Node
<1>2. IsFiniteSet(Accepting(view, pod))
  BY <1>1, FS_Subset DEF Accepting
<1> QED
  BY <1>2, FS_EmptySet, FS_CardinalityType

LEMMA ProbeNext == TypeOK /\ VerdictInv /\ ProbeInv /\ [Next]_vars => ProbeInv'
<1> SUFFICES ASSUME TypeOK, VerdictInv, ProbeInv, [Next]_vars PROVE ProbeInv'
  OBVIOUS
<1> USE DEF inputs, outcome, progress, ledger
<1>a. wr \in WorkloadResult /\ ordinal \in Nat
  BY DEF TypeOK
<1>1. CASE ProbeWorkload
  <2>1. /\ wr'.feasible = Cardinality(Accepting(ProbeCycle, Probe)) /\ wr'.fit = 0
        /\ ordinal' = 0 /\ pc' = "place"
        /\ UNCHANGED <<cluster, batch, wi, snapshot, results>>
    BY <1>1 DEF ProbeWorkload, NewResult
  <2>2. Current' = Probe
    BY <2>1 DEF Current, Probe, W
  <2>3. Cycle' = ProbeCycle
    <3>1. pvcStore' = InjectPVCs(pvcStore, cluster, W, 0)
      BY <1>1 DEF ProbeWorkload, ProbeCycle, View
    <3>2. Claims' = InjectPVCs(pvcStore', cluster, W, 0)
      BY <2>1 DEF Claims, W
    <3>3. Claims' = pvcStore'
      BY <3>1, <3>2, InjectTwice
    <3> QED
      BY <2>1, <3>1, <3>3 DEF Cycle, ProbeCycle
  <2>4. wr'.feasible = Cardinality(Accepting(Cycle', Current'))
    BY <2>1, <2>2, <2>3
  <2> QED
    BY <2>1, <2>4 DEF ProbeInv, Reported
<1>2. ASSUME Attempting, Accepting(Cycle, Current) = {}
      PROVE  ordinal = 0 => wr.feasible = 0
  BY <1>2, NobodyAccepts DEF ProbeInv, Attempting
<1>3. ASSUME NEW n, NEW victims, NEW viaPreemption \in BOOLEAN,
             Commit(Current, n, victims, viaPreemption), Working,
             UNCHANGED <<batch, results>>,
             ordinal = 0 => (viaPreemption \/ wr.feasible # 0)
      PROVE  ProbeInv'
  <2>1. /\ wr'.fit = wr.fit + 1 /\ wr'.feasible = wr.feasible
        /\ wr'.usedPreemption = (wr.usedPreemption \/ viaPreemption)
        /\ ordinal' = ordinal + 1
    BY <1>3, <1>a DEF Commit, WorkloadResult
  <2>2. wr.fit \in Nat
    BY <1>a DEF WorkloadResult
  <2>3. wr'.feasible = 0 => wr'.usedPreemption
    <3>1. CASE viaPreemption
      BY <2>1, <3>1
    <3>2. CASE ~viaPreemption
      <4>1. wr.feasible = 0 => ordinal > 0
        BY <1>3, <1>a, <3>2
      <4>2. wr.feasible = 0 => wr.usedPreemption
        BY <1>3, <4>1 DEF ProbeInv
      <4> QED
        BY <2>1, <4>2
    <3> QED
      BY <3>1, <3>2
  <2>4. \A k \in Reported' : batch'[k].replicas >= 1 =>
          /\ results'[k].feasible > 0 => results'[k].fit >= 1
          /\ results'[k].feasible = 0 /\ results'[k].fit >= 1 => results'[k].usedPreemption
    BY <1>3 DEF ProbeInv, Reported
  <2> QED
    BY <1>a, <2>1, <2>2, <2>3, <2>4 DEF ProbeInv
<1>4. CASE PlaceReplica
  <2>1. PICK n \in Node : First(n, Accepting(Cycle, Current)) /\ Commit(Current, n, {}, FALSE)
    BY <1>4 DEF PlaceReplica
  <2>2. Accepting(Cycle, Current) # {}
    BY <2>1 DEF First
  <2>3. ordinal = 0 => wr.feasible # 0
    BY <1>4, <2>2, NobodyAccepts DEF ProbeInv, PlaceReplica, Attempting
  <2> QED
    BY <1>3, <1>4, <2>1, <2>3 DEF PlaceReplica, Attempting, Working
<1>5. CASE GiveUp
  BY <1>2, <1>5, ProbeKept DEF GiveUp, Attempting, Working
<1>6. CASE StartPreemption
  BY <1>2, <1>6, ProbeKept DEF StartPreemption, Attempting, Working
<1>7. CASE RemoveVictim
  <2>1. pc = "remove" /\ pc' \in {"remove", "minimize"} /\ UNCHANGED <<batch, results, wr, ordinal>>
    BY <1>7 DEF RemoveVictim
  <2> QED
    BY <2>1, ProbeKept DEF Working, ProbeInv
<1>8. CASE NextNode \/ AbandonPreemption \/ Reprieve
  BY <1>8, ProbeKept DEF NextNode, AbandonPreemption, Reprieve, Working, ProbeInv
<1>9. CASE PreemptReplica
  <2>1. PICK n \in todo : Commit(Current, n, removed, TRUE)
    BY <1>9 DEF PreemptReplica
  <2> QED
    BY <1>3, <1>9, <2>1 DEF PreemptReplica, Working
<1>10. CASE RejectWorkload
  BY <1>10 DEF RejectWorkload, ProbeInv, Reported, Working
<1>11. CASE ReportWorkload
  <2>1. ~Working' /\ batch' = batch /\ Working /\ wi \in Nat
    BY <1>11, Appended DEF ReportWorkload, Working
  <2>2. \A k \in Reported' : \/ k \in Reported /\ results'[k] = results[k]
                             \/ k = Len(results) + 1 /\ results'[k] = wr
    BY <1>11, Appended DEF Reported
  <2>3. Len(results) + 1 = wi
    BY <1>11, Appended DEF VerdictInv, ReportWorkload
  <2>4. batch[wi].replicas >= 1 =>
          /\ wr.feasible > 0 => wr.fit >= 1
          /\ wr.feasible = 0 /\ wr.fit >= 1 => wr.usedPreemption
    <3>1. wr.fit \in Nat /\ wr.feasible \in Nat
      BY <1>a, NodesAssumption DEF WorkloadResult
    <3>2. batch[wi].replicas >= 1 => ordinal > 0 \/ wr.feasible = 0
      <4>1. CASE pc = "report"
        BY <4>1, <1>a DEF ProbeInv, Working
      <4>2. CASE pc = "place" /\ ordinal >= W.replicas
        <5>1. W.replicas \in Nat
          BY <4>2, CurrentWorkload DEF TypeOK, IsWorkload
        <5> QED
          BY <4>2, <1>a, <5>1 DEF W
      <4> QED
        BY <1>11, <4>1, <4>2 DEF ReportWorkload
    <3> QED
      BY <1>a, <2>1, <3>1, <3>2 DEF ProbeInv
  <2>5. \A k \in Reported' : batch[k].replicas >= 1 =>
          /\ results'[k].feasible > 0 => results'[k].fit >= 1
          /\ results'[k].feasible = 0 /\ results'[k].fit >= 1 => results'[k].usedPreemption
    BY <2>2, <2>3, <2>4 DEF ProbeInv
  <2> QED
    BY <2>1, <2>5 DEF ProbeInv, Working
<1>12. CASE Finish
  BY <1>12, ProbeKept DEF Finish, Working
<1>13. CASE UNCHANGED vars
  BY <1>13 DEF vars, ProbeInv, Reported, Working, Current, Cycle, Claims, W
<1> QED
  BY <1>1, <1>4, <1>5, <1>6, <1>7, <1>8, <1>9, <1>10, <1>11, <1>12, <1>13 DEF Next

\* The number of feasible nodes a report shows is honest about the first
\* replica: some mean it was placed, none that it was not, or by eviction.
THEOREM ProbeHonest == Spec => []FeasibilityAgrees
<1>1. Init => VerdictInv /\ ProbeInv
  BY DEF Init, VerdictInv, ProbeInv, Reported, Working
<1>2. ProbeInv => FeasibilityAgrees
  BY DEF ProbeInv, FeasibilityAgrees
<1> QED
  BY <1>1, <1>2, TypeCorrect, VerdictNext, ProbeNext, PTL DEF Spec
-----------------------------------------------------------------------------
(* The claim store.                                                        *)

\* What the store holds if the claims of these names were made up.
Accounts(store, c, made) ==
  /\ \A q \in store \cup c.pvcs : q.name \notin made => q \in store \cap c.pvcs
  /\ \A name \in made : \E q \in store : q.name = name
  /\ \A q \in store : q.name \in made =>
       q.volume = Empty /\ (q.class = Empty => c.storageClass = Empty)

LEMMA InjectAccounts ==
  ASSUME NEW c, NEW w, NEW i, NEW store, NEW made, Accounts(store, c, made)
  PROVE  Accounts(InjectPVCs(store, c, w, i), c, made \cup ClaimsOf(w, i))
<1> DEFINE new == SynthesizedPVCs(c, w, i)  names == ClaimsOf(w, i)
<1>1. \A q \in new : /\ q.name \in names /\ q.volume = Empty
                     /\ q.class = Empty => c.storageClass = Empty
  <2> SUFFICES ASSUME NEW q \in new
               PROVE  /\ q.name \in names /\ q.volume = Empty
                      /\ q.class = Empty => c.storageClass = Empty
    OBVIOUS
  <2>1. PICK t \in DOMAIN w.vcts :
          q = [name |-> ClaimName(t, w.name, i), volume |-> Empty,
               class |-> IF w.vcts[t] = Empty THEN c.storageClass ELSE w.vcts[t]]
    BY DEF SynthesizedPVCs
  <2>2. q.name = ClaimName(t, w.name, i) /\ q.volume = Empty
    BY <2>1
  <2>3. q.class = IF w.vcts[t] = Empty THEN c.storageClass ELSE w.vcts[t]
    BY <2>1
  <2>4. q.name \in names
    BY <2>2 DEF ClaimsOf
  <2> HIDE DEF new, names
  <2> QED
    BY <2>2, <2>3, <2>4
<1>2. \A name \in names : \E q \in new : q.name = name
  <2> SUFFICES ASSUME NEW name \in names PROVE \E q \in new : q.name = name
    OBVIOUS
  <2>1. PICK t \in DOMAIN w.vcts : name = ClaimName(t, w.name, i)
    BY DEF ClaimsOf
  <2> DEFINE q == [name |-> ClaimName(t, w.name, i), volume |-> Empty,
                   class |-> IF w.vcts[t] = Empty THEN c.storageClass ELSE w.vcts[t]]
  <2>2. q \in new
    BY DEF SynthesizedPVCs
  <2>3. q.name = name
    BY <2>1
  <2> HIDE DEF q, new
  <2> QED
    BY <2>2, <2>3
<1>3. InjectPVCs(store, c, w, i) = {q \in store : q.name \notin names} \cup new
  BY DEF InjectPVCs
<1> HIDE DEF new, names
<1>4. Accounts({q \in store : q.name \notin names} \cup new, c, made \cup names)
  BY <1>1, <1>2 DEF Accounts
<1> QED
  BY <1>3, <1>4 DEF names

\* Whose claims were injected, once those of replica last were.
LEMMA MadeUpForIt ==
  ASSUME NEW w, NEW last
  PROVE  \A name : name \in MadeUpFor(w, last) <=>
                     \E i \in Tried(w) : i <= last /\ name \in ClaimsOf(w, i)
BY DEF MadeUpFor

LEMMA MadeUpByProbe ==
  ASSUME NEW w, w.replicas \in Nat
  PROVE  MadeUpFor(w, 0) = ClaimsOf(w, 0)
<1>1. \A i : i \in Tried(w) /\ i <= 0 <=> i = 0
  BY DEF Tried
<1> QED
  BY <1>1, MadeUpForIt

LEMMA MadeUpByReplica ==
  ASSUME NEW w, w.replicas \in Nat, NEW n \in Nat, 0 < n, n <= w.replicas
  PROVE  MadeUpFor(w, n) = MadeUpFor(w, n - 1) \cup
                             (IF n < w.replicas THEN ClaimsOf(w, n) ELSE {})
<1>1. \A i : i \in Tried(w) /\ i <= n <=>
               (i \in Tried(w) /\ i <= n - 1) \/ (i = n /\ n < w.replicas)
  BY DEF Tried
<1> QED
  BY <1>1, MadeUpForIt

\* The last replica of the workload at hand whose claims were injected.
LastTried == IF pc = "place" /\ ordinal > 0 THEN ordinal - 1 ELSE ordinal

MadeSoFar == MadeUp \cup (IF Working THEN MadeUpFor(W, LastTried) ELSE {})

ClaimsInv ==
  /\ pc \notin {"done", "error"} => Accounts(pvcStore, cluster, MadeSoFar)
  /\ pc \in {"remove", "minimize", "report"} => ordinal < W.replicas

LEMMA ClaimsNext == TypeOK /\ VerdictInv /\ CreditInv /\ ClaimsInv /\ [Next]_vars => ClaimsInv'
<1> SUFFICES ASSUME TypeOK, VerdictInv, CreditInv, ClaimsInv, [Next]_vars PROVE ClaimsInv'
  OBVIOUS
<1> USE DEF inputs, outcome, progress, ledger
<1>a. ordinal \in Nat
  BY DEF TypeOK
<1>b. wi <= Len(batch) => W.replicas \in Nat
  BY CurrentWorkload DEF IsWorkload
<1>1. ASSUME Attempting, pvcStore' = Claims, UNCHANGED <<cluster, batch, wi, results>>,
             \/ pc' = "place" /\ ordinal' = ordinal + 1
             \/ pc' \in {"remove", "report"} /\ ordinal' = ordinal
      PROVE  ClaimsInv'
  <2>1. pc = "place" /\ ordinal < W.replicas /\ wi <= Len(batch) /\ W.replicas \in Nat
    BY <1>1, <1>b DEF Attempting, TypeOK
  <2>2. Working /\ Working' /\ LastTried' = ordinal /\ W' = W /\ MadeUp' = MadeUp
    BY <1>1, <1>a, <2>1 DEF Working, LastTried, W, MadeUp, Reported
  <2>3. MadeUpFor(W, ordinal) = MadeUpFor(W, LastTried) \cup ClaimsOf(W, ordinal)
    <3>1. CASE ordinal = 0
      BY <2>1, <3>1, MadeUpByProbe DEF LastTried
    <3>2. CASE ordinal > 0
      BY <1>a, <2>1, <3>2, MadeUpByReplica DEF LastTried
    <3> QED
      BY <1>a, <3>1, <3>2
  <2>4. MadeSoFar' = MadeUp \cup MadeUpFor(W, ordinal)
    BY <2>2 DEF MadeSoFar
  <2>5. MadeSoFar' = MadeSoFar \cup ClaimsOf(W, ordinal)
    BY <2>2, <2>3, <2>4 DEF MadeSoFar
  <2>6. Accounts(pvcStore, cluster, MadeSoFar)
    BY <2>1 DEF ClaimsInv
  <2>7. Accounts(Claims, cluster, MadeSoFar \cup ClaimsOf(W, ordinal))
    BY <2>6, InjectAccounts DEF Claims
  <2>8. Accounts(pvcStore', cluster', MadeSoFar')
    BY <1>1, <2>5, <2>7
  <2> QED
    BY <1>1, <2>1, <2>2, <2>8 DEF ClaimsInv, Accounts
<1>2. ASSUME UNCHANGED <<cluster, batch, wi, results, ordinal, pvcStore>>,
             pc \in {"remove", "minimize"}, pc' \in {"remove", "minimize", "report"}
      PROVE  ClaimsInv'
  <2>1. MadeSoFar' = MadeSoFar
    BY <1>2 DEF MadeSoFar, Working, LastTried, W, MadeUp, Reported
  <2>2. Accounts(pvcStore', cluster', MadeSoFar')
    BY <1>2, <2>1 DEF ClaimsInv
  <2> QED
    BY <1>2, <2>2 DEF ClaimsInv, Accounts, W
<1>3. CASE ProbeWorkload
  <2>1. /\ pc = "probe" /\ pc' = "place" /\ wi <= Len(batch) /\ ordinal' = 0
        /\ pvcStore' = InjectPVCs(pvcStore, cluster, W, 0)
        /\ UNCHANGED <<cluster, batch, wi, results>>
    BY <1>3 DEF ProbeWorkload, ProbeCycle, View
  <2>2. ~Working /\ Working' /\ LastTried' = 0 /\ W' = W /\ MadeUp' = MadeUp
    BY <2>1 DEF Working, LastTried, W, MadeUp, Reported
  <2>3. MadeSoFar' = MadeSoFar \cup ClaimsOf(W, 0)
    <3>1. MadeUpFor(W, 0) = ClaimsOf(W, 0)
      BY <1>b, <2>1, MadeUpByProbe
    <3>2. MadeSoFar' = MadeUp \cup MadeUpFor(W, 0)
      BY <2>2 DEF MadeSoFar
    <3> QED
      BY <2>2, <3>1, <3>2 DEF MadeSoFar
  <2>4. Accounts(pvcStore, cluster, MadeSoFar)
    BY <2>1 DEF ClaimsInv
  <2>5. Accounts(pvcStore', cluster', MadeSoFar')
    BY <2>1, <2>3, <2>4, InjectAccounts
  <2> QED
    BY <2>1, <2>5 DEF ClaimsInv, Accounts
<1>4. CASE PlaceReplica
  BY <1>1, <1>4 DEF PlaceReplica, Commit
<1>5. CASE GiveUp \/ StartPreemption
  BY <1>1, <1>5 DEF GiveUp, StartPreemption
<1>6. CASE RemoveVictim
  BY <1>2, <1>6 DEF RemoveVictim
<1>7. CASE NextNode \/ AbandonPreemption \/ Reprieve
  BY <1>2, <1>7 DEF NextNode, AbandonPreemption, Reprieve
<1>8. CASE PreemptReplica
  <2>1. /\ pc = "minimize" /\ pc' = "place" /\ ordinal' = ordinal + 1
        /\ UNCHANGED <<cluster, batch, wi, results, pvcStore>>
    BY <1>8 DEF PreemptReplica, Commit
  <2>2. LastTried' = LastTried
    BY <1>a, <2>1 DEF LastTried
  <2>3. MadeSoFar' = MadeSoFar
    BY <2>1, <2>2 DEF MadeSoFar, Working, W, MadeUp, Reported
  <2>4. Accounts(pvcStore', cluster', MadeSoFar')
    BY <2>1, <2>3 DEF ClaimsInv
  <2> QED
    BY <2>1, <2>4 DEF ClaimsInv, Accounts
<1>9. CASE ReportWorkload
  <2>1. /\ Working /\ pc' = "probe" /\ wi <= Len(batch)
        /\ pc = "report" \/ (pc = "place" /\ ordinal >= W.replicas)
        /\ UNCHANGED <<cluster, batch, pvcStore>>
    BY <1>9 DEF ReportWorkload, Working, TypeOK
  <2>2. wr.fit = ordinal /\ ordinal <= W.replicas /\ W.replicas \in Nat
    BY <1>b, <2>1 DEF CreditInv, TypeOK, Working
  <2>3. Len(results) = wi - 1
    BY <2>1 DEF VerdictInv, Working
  <2>4. \A k \in Reported' : \/ k \in Reported /\ results'[k] = results[k]
                             \/ k = wi /\ results'[k] = wr
    BY <1>9, <2>3, Appended DEF Reported
  <2>5. Reported' = Reported \cup {wi} /\ wi \notin Reported
    BY <1>9, <2>3, Appended DEF Reported
  <2>6. MadeUp' = UNION {MadeUpFor(batch[k], results'[k].fit) : k \in Reported'}
    BY <2>1 DEF MadeUp
  <2>7. MadeUp' = MadeUp \cup MadeUpFor(W, ordinal)
    <3>1. ASSUME NEW name PROVE name \in MadeUp' <=> name \in MadeUp \/ name \in MadeUpFor(W, ordinal)
      <4>1. name \in MadeUp' <=> \E k \in Reported' : name \in MadeUpFor(batch[k], results'[k].fit)
        BY <2>6
      <4>2. name \in MadeUp <=> \E k \in Reported : name \in MadeUpFor(batch[k], results[k].fit)
        BY DEF MadeUp
      <4> QED
        BY <2>2, <2>4, <2>5, <4>1, <4>2 DEF W
    <3> QED
      BY <3>1
  <2>8. MadeUpFor(W, LastTried) = MadeUpFor(W, ordinal)
    <3>1. CASE pc = "place" /\ ordinal > 0
      <4>1. ordinal = W.replicas /\ 0 < ordinal /\ LastTried = ordinal - 1
        <5>1. ordinal >= W.replicas
          BY <2>1, <3>1
        <5> QED
          BY <1>a, <2>2, <3>1, <5>1 DEF LastTried
      <4>2. 0 < ordinal /\ ordinal <= W.replicas /\ ~(ordinal < W.replicas)
        BY <1>a, <2>2, <4>1
      <4>3. MadeUpFor(W, ordinal) = MadeUpFor(W, ordinal - 1) \cup
                                      (IF ordinal < W.replicas THEN ClaimsOf(W, ordinal) ELSE {})
        BY <1>a, <2>2, <4>2, MadeUpByReplica
      <4> QED
        BY <4>1, <4>2, <4>3
    <3>2. CASE ~(pc = "place" /\ ordinal > 0)
      BY <3>2 DEF LastTried
    <3> QED
      BY <3>1, <3>2
  <2>9. MadeSoFar' = MadeSoFar
    <3>1. ~Working'
      BY <2>1 DEF Working
    <3> QED
      BY <2>1, <2>7, <2>8, <3>1 DEF MadeSoFar
  <2>10. Accounts(pvcStore', cluster', MadeSoFar')
    BY <2>1, <2>9 DEF ClaimsInv, Working
  <2> QED
    BY <2>1, <2>10 DEF ClaimsInv, Accounts
<1>10. CASE RejectWorkload \/ Finish
  BY <1>10 DEF RejectWorkload, Finish, ClaimsInv
<1>11. CASE UNCHANGED vars
  <2>1. MadeSoFar' = MadeSoFar
    BY <1>11 DEF vars, MadeSoFar, Working, LastTried, W, MadeUp, Reported
  <2>2. pc' \notin {"done", "error"} => Accounts(pvcStore', cluster', MadeSoFar')
    BY <1>11, <2>1 DEF vars, ClaimsInv
  <2> QED
    BY <1>11, <2>2 DEF vars, ClaimsInv, Accounts, W
<1> QED
  BY <1>3, <1>4, <1>5, <1>6, <1>7, <1>8, <1>9, <1>10, <1>11 DEF Next

\* Whatever was placed, given up or only probed, the claim store holds between
\* workloads what the cluster listed and what was made up, and nothing was lost.
THEOREM StoreAccounted == Spec => []ClaimsAccounted
<1>1. Init => ClaimsInv
  <2> SUFFICES ASSUME Init PROVE ClaimsInv
    OBVIOUS
  <2>1. pc = "probe" /\ results = << >> /\ pvcStore = cluster.pvcs
    BY DEF Init
  <2>2. MadeSoFar = {}
    BY <2>1 DEF MadeSoFar, MadeUp, Reported, Working
  <2> QED
    BY <2>1, <2>2 DEF ClaimsInv, Accounts
<1>2. ClaimsInv => ClaimsAccounted
  BY DEF ClaimsInv, ClaimsAccounted, Accounts, MadeSoFar, Working
<1> QED
  BY <1>1, <1>2, TypeCorrect, VerdictNext, CreditInit, CreditNext, ClaimsNext, PTL DEF Spec
===============================================================================
