---------------------------- MODULE CommandProofs ----------------------------
(***************************************************************************)
(* What of the simulator's correctness does not depend on the filters      *)
(* giving the same answer twice: it holds beside live informers, and after *)
(* an interrupt, for every number of nodes and any filters.  And the       *)
(* command carries it to its exit code: what it does to the simulator is a *)
(* run of LiveInformers, whatever fails and whenever it is interrupted, so *)
(* the verdict and the credit hold when the process ends.                  *)
(***************************************************************************)
EXTENDS Command, PreemptionProofs

\* What an event, between or amid steps, leaves of the cluster.
SameWorld == cluster' \in Clusters /\ SameLists(cluster')

\* Replicas, priorities and candidates are made from what New listed.
LEMMA ListsDecide ==
  ASSUME SameWorld, UNCHANGED <<batch, wi, ordinal, scheduledPods, simulated>>
  PROVE  /\ Resolvable(cluster', W') <=> Resolvable(cluster, W)
         /\ Initial' = Initial
         /\ \A n : Victims(n)' = Victims(n)
         /\ W' = W
<1>1. DefaultPriority(cluster') = DefaultPriority(cluster)
  BY DEF SameWorld, SameLists, DefaultPriority
<1>2. PriorityClasses(cluster') = PriorityClasses(cluster)
  BY <1>1 DEF SameWorld, SameLists, PriorityClasses
<1>3. W' = W
  BY DEF W
<1>4. Current' = Current
  BY <1>2, <1>3 DEF Current, Replica, ResolvePriority
<1>5. Resolvable(cluster', W') <=> Resolvable(cluster, W)
  BY <1>2, <1>3 DEF Resolvable
<1>6. Initial' = Initial
  BY DEF SameWorld, SameLists, Initial, ListScheduledPods
<1>7. \A n : Victims(n)' = Victims(n)
  BY <1>4 DEF Victims
<1> QED
  BY <1>3, <1>5, <1>6, <1>7

\* What the informers deliver are claims.
LEMMA DeliveredType ==
  ASSUME NEW c \in Clusters, NEW store \in SUBSET PVC
  PROVE  Delivered(store, c) \subseteq PVC
<1>1. c.pvcs \subseteq PVC
  BY ClustersAssumption DEF IsCluster
<1> QED
  BY <1>1 DEF Delivered

LEMMA ClaimsType ==
  ASSUME TypeOK, Attempting
  PROVE  Claims \subseteq PVC
<1>1. wi <= Len(batch) /\ ordinal < W.replicas
  BY DEF Attempting, TypeOK
<1>2. IsCluster(cluster) /\ IsWorkload(W)
  BY <1>1, CurrentWorkload
<1>3. ordinal \in 0 .. W.replicas
  BY <1>1, <1>2 DEF TypeOK, IsWorkload
<1> QED
  BY <1>2, <1>3, InjectPVCsType DEF Claims, TypeOK
-----------------------------------------------------------------------------
\* The steps the informers add to those of Run, by what they change.
Idle ==
  /\ SameWorld /\ pvcStore' \subseteq PVC
  /\ UNCHANGED <<batch, opts, allocated, ledger, snapshot, pc, progress, outcome, search>>

PlacesAmid ==
  /\ Attempting /\ SameWorld /\ pvcStore' \subseteq PVC
  /\ \E n \in Node : /\ Commit(Current, n, {}, FALSE)
                     /\ \E c \in Clusters, pvcs \in SUBSET PVC :
                          SameLists(c) /\ FitsOnNode(View(c, pvcs, snapshot), Current, n)
  /\ UNCHANGED <<batch, opts, allocated, wi, outcome, search>>

StopsAmid ==
  /\ Attempting /\ SameWorld /\ pvcStore' \subseteq PVC
  /\ \/ pc' = "report" /\ UNCHANGED search
     \/ /\ pc' = "remove" /\ opts.considerPreemption
        /\ todo' \subseteq Node /\ removed' = {} /\ pending' = {}
  /\ UNCHANGED <<batch, opts, allocated, ledger, snapshot, progress, outcome>>

LEMMA LiveSteps ==
  ASSUME TypeOK, [LiveNext]_vars
  PROVE  [Next]_vars \/ Idle \/ PlacesAmid \/ StopsAmid
<1>1. CASE InformerEvent
  <2>1. PICK c \in Variants : cluster' = c /\ pvcStore' = Delivered(pvcStore, c)
    BY <1>1 DEF InformerEvent
  <2> QED
    BY <1>1, <2>1, DeliveredType DEF InformerEvent, Variants, Idle, SameWorld, TypeOK
<1>2. CASE Relist
  <2>1. cluster.pvcs \subseteq PVC
    BY ClustersAssumption DEF TypeOK, IsCluster
  <2> QED
    BY <1>2, <2>1 DEF Relist, Idle, SameWorld, SameLists, inputs, TypeOK
<1>3. CASE Interrupt
  BY <1>3 DEF Interrupt, Idle, SameWorld, TypeOK
<1>4. ASSUME Attempting, NEW c \in Variants, cluster' = c, pvcStore' = Delivered(Claims, c)
      PROVE  SameWorld /\ pvcStore' \subseteq PVC
  BY <1>4, ClaimsType, DeliveredType DEF Variants, SameWorld
<1>5. CASE PlaceAmidEvents
  <2>1. PICK c \in Variants : /\ cluster' = c /\ pvcStore' = Delivered(Claims, c)
                             /\ \E n \in Node : /\ n \in Accepting(Meanwhile(c), Current)
                                                /\ Commit(Current, n, {}, FALSE)
    BY <1>5 DEF PlaceAmidEvents
  <2>2. c \in Clusters /\ SameLists(c) /\ Delivered(Claims, c) \in SUBSET PVC
    BY <1>4, <1>5, <2>1 DEF PlaceAmidEvents, Variants
  <2>3. PICK n \in Node : Commit(Current, n, {}, FALSE)
                          /\ FitsOnNode(View(c, Delivered(Claims, c), snapshot), Current, n)
    BY <2>1 DEF Meanwhile, FitsOnNode
  <2>4. /\ Commit(Current, n, {}, FALSE)
        /\ \E d \in Clusters, pvcs \in SUBSET PVC :
             SameLists(d) /\ FitsOnNode(View(d, pvcs, snapshot), Current, n)
    BY <2>2, <2>3
  <2>5. SameWorld /\ pvcStore' \subseteq PVC
    BY <1>4, <1>5, <2>1 DEF PlaceAmidEvents
  <2> QED
    BY <1>5, <2>3, <2>4, <2>5 DEF PlaceAmidEvents, PlacesAmid
<1>6. CASE GiveUpAmidEvents
  BY <1>6, <1>4 DEF GiveUpAmidEvents, StopsAmid
<1>7. CASE SearchAmidEvents
  <2>1. UNION {Rejecting(Meanwhile(c), Current) : c \in Variants} \subseteq Node
    BY DEF Rejecting
  <2>2. todo' \subseteq Node
    BY <1>7, <2>1 DEF SearchAmidEvents
  <2>3. SameWorld /\ pvcStore' \subseteq PVC
    BY <1>7, <1>4 DEF SearchAmidEvents
  <2> QED
    BY <1>7, <2>2, <2>3 DEF SearchAmidEvents, StopsAmid
<1> QED
  BY <1>1, <1>2, <1>3, <1>5, <1>6, <1>7 DEF LiveNext, Program, Outside
-----------------------------------------------------------------------------
LEMMA LiveTypeNext == TypeOK /\ [LiveNext]_vars => TypeOK'
<1> SUFFICES ASSUME TypeOK, [LiveNext]_vars PROVE TypeOK'
  OBVIOUS
<1> USE DEF ledger, progress, outcome, search
<1>1. CASE [Next]_vars
  BY <1>1, TypeNext
<1>2. CASE Idle
  <2>1. Resolvable(cluster', W') <=> Resolvable(cluster, W)
    BY <1>2, ListsDecide DEF Idle
  <2>2. W' = W
    BY <1>2, ListsDecide DEF Idle
  <2> QED
    BY <1>2, <2>1, <2>2 DEF Idle, SameWorld, TypeOK
<1>3. CASE PlacesAmid
  <2>1. PICK n \in Node : Commit(Current, n, {}, FALSE)
    BY <1>3 DEF PlacesAmid
  <2>2. /\ wi <= Len(batch) /\ Resolvable(cluster, W) /\ ordinal < W.replicas
        /\ removed = {} /\ pending = {}
    BY <1>3 DEF PlacesAmid, Attempting, TypeOK
  <2>3. /\ scheduledPods' \subseteq Pod /\ simulated' \subseteq scheduledPods'
        /\ snapshot' \subseteq scheduledPods' /\ wr' \in WorkloadResult
        /\ ordinal' \in Nat /\ ordinal' <= W.replicas /\ pc' = "place"
    BY <2>1, <2>2, CommitType
  <2>4. W' = W
    BY <1>3 DEF PlacesAmid, W
  <2>5. Resolvable(cluster', W')
    <3>1. PriorityClasses(cluster') = PriorityClasses(cluster)
      BY <1>3 DEF PlacesAmid, SameWorld, SameLists, PriorityClasses, DefaultPriority
    <3> QED
      BY <2>2, <2>4, <3>1 DEF Resolvable
  <2> QED
    BY <1>3, <2>2, <2>3, <2>4, <2>5 DEF PlacesAmid, SameWorld, TypeOK
<1>4. CASE StopsAmid
  <2>1. Resolvable(cluster', W') <=> Resolvable(cluster, W)
    BY <1>4, ListsDecide DEF StopsAmid
  <2>2. W' = W
    BY <1>4, ListsDecide DEF StopsAmid
  <2> QED
    BY <1>4, <2>1, <2>2 DEF StopsAmid, SameWorld, Attempting, TypeOK
<1> QED
  BY <1>1, <1>2, <1>3, <1>4, LiveSteps

\* Informers and interrupts break no type and no bound of a loop.
THEOREM LiveTypeCorrect == LiveSpec => []TypeOK
<1> QED
  BY TypeInit, LiveTypeNext, PTL DEF LiveSpec, LiveInit

\* Nor do they leave a trial snapshot behind.
THEOREM LiveSnapshotRestored == LiveSpec => []SnapshotInSync
<1>1. Init => SnapshotInSync
  BY DEF Init, SnapshotInSync
<1>2. TypeOK /\ SnapshotInSync /\ [LiveNext]_vars => SnapshotInSync'
  <2> SUFFICES ASSUME TypeOK, SnapshotInSync, [LiveNext]_vars PROVE SnapshotInSync'
    OBVIOUS
  <2>1. CASE [Next]_vars
    BY <2>1, SyncNext
  <2>2. CASE Idle
    BY <2>2 DEF Idle, SnapshotInSync, ledger
  <2>3. CASE PlacesAmid
    BY <2>3 DEF PlacesAmid, Commit, SnapshotInSync
  <2>4. CASE StopsAmid
    BY <2>4 DEF StopsAmid, Attempting, SnapshotInSync, ledger
  <2> QED
    BY <2>1, <2>2, <2>3, <2>4, LiveSteps
<1> QED
  BY <1>1, <1>2, LiveTypeCorrect, PTL DEF LiveSpec, LiveInit
-----------------------------------------------------------------------------
LEMMA LiveVerdictNext == TypeOK /\ VerdictInv /\ [LiveNext]_vars => VerdictInv'
<1> SUFFICES ASSUME TypeOK, VerdictInv, [LiveNext]_vars PROVE VerdictInv'
  OBVIOUS
<1> USE DEF progress, outcome
<1>1. CASE [Next]_vars
  BY <1>1, VerdictNext
<1>2. CASE Idle
  BY <1>2 DEF Idle, VerdictInv, Reported, Fits
<1>3. CASE PlacesAmid
  BY <1>3 DEF PlacesAmid, Attempting, Commit, VerdictInv, Reported, Fits
<1>4. CASE StopsAmid
  BY <1>4 DEF StopsAmid, Attempting, VerdictInv, Reported, Fits
<1> QED
  BY <1>1, <1>2, <1>3, <1>4, LiveSteps

\* The verdict is the conjunction of the results, one for each workload.
THEOREM LiveVerdictCorrect == LiveSpec => []VerdictExact
<1>1. Init => VerdictInv
  BY CreditInit
<1> QED
  BY <1>1, LiveTypeCorrect, LiveVerdictNext, VerdictInvImplies, PTL DEF LiveSpec, LiveInit

LEMMA LiveCreditNext ==
  TypeOK /\ VerdictInv /\ CreditInv /\ ReplicasStand /\ [LiveNext]_vars
    => CreditInv' /\ ReplicasStand'
<1> SUFFICES ASSUME TypeOK, VerdictInv, CreditInv, ReplicasStand, [LiveNext]_vars
             PROVE  CreditInv' /\ ReplicasStand'
  OBVIOUS
<1> USE DEF ledger, progress, outcome
<1>1. CASE [Next]_vars
  BY <1>1, CreditNext
<1>2. CASE Idle
  BY <1>2 DEF Idle, CreditInv, ReplicasStand, Reported, ReplicasOf, Working
<1>3. CASE PlacesAmid
  <2>1. PICK n \in Node : Commit(Current, n, {}, FALSE)
    BY <1>3 DEF PlacesAmid
  <2>2. Attempting /\ wi' = wi /\ results' = results
    BY <1>3 DEF PlacesAmid
  <2>3. /\ IsFiniteSet(simulated')
        /\ \A p \in simulated' : /\ p.id[1] <= wi
                                 /\ p.id[1] = wi => p.id[2] < ordinal'
        /\ Cardinality(ReplicasOf(wi)') = wr'.fit /\ wr'.fit = ordinal'
        /\ \A k : k # wi => ReplicasOf(k)' = ReplicasOf(k)
    BY <2>1, <2>2, Committed
  <2>4. CreditInv'
    BY <2>1, <2>2, <2>3 DEF CreditInv, Working, Commit
  <2>5. \A k \in Reported : k # wi
    <3>1. wi \in Nat /\ Len(results) = wi - 1
      BY <2>2, CurrentWorkload DEF VerdictInv, TypeOK, Attempting
    <3> QED
      BY <3>1 DEF Reported
  <2>6. \A k \in Reported : ReplicasOf(k)' = ReplicasOf(k)
    BY <2>3, <2>5
  <2>7. ReplicasStand'
    <3>1. simulated' \subseteq scheduledPods'
      BY LiveTypeNext DEF TypeOK
    <3>2. Reported' = Reported
      BY <2>2 DEF Reported
    <3>3. \A k \in Reported' : /\ Cardinality(ReplicasOf(k)') = results'[k].fit
                               /\ ReplicasOf(k)' \subseteq simulated'
      BY <2>2, <2>6, <3>2 DEF ReplicasStand, ReplicasOf
    <3> QED
      BY <3>1, <3>3 DEF ReplicasStand
  <2> QED
    BY <2>4, <2>7
<1>4. CASE StopsAmid
  BY <1>4 DEF StopsAmid, Attempting, CreditInv, ReplicasStand, Reported, ReplicasOf, Working
<1> QED
  BY <1>1, <1>2, <1>3, <1>4, LiveSteps

\* A reported fit stands to the end of the run, whatever the informers deliver.
THEOREM LiveCreditStands == LiveSpec => []ReplicasStand
<1> QED
  BY CreditInit, LiveTypeCorrect, LiveVerdictNext, LiveCreditNext, PTL DEF LiveSpec, LiveInit
-----------------------------------------------------------------------------
LEMMA LiveEligibleNext ==
  TypeOK /\ VictimsEligible /\ [LiveNext]_vars => VictimsEligible'
<1> SUFFICES ASSUME TypeOK, VictimsEligible, [LiveNext]_vars PROVE VictimsEligible'
  OBVIOUS
<1> USE DEF ledger, progress, search
<1>1. CASE [Next]_vars
  BY <1>1, EligibleNext
<1>2. CASE Idle
  <2>1. \A n : Victims(n)' = Victims(n)
    BY <1>2, ListsDecide DEF Idle
  <2> QED
    BY <1>2, <2>1 DEF Idle, VictimsEligible, Searching, First
<1>3. CASE PlacesAmid
  BY <1>3 DEF PlacesAmid, Commit, VictimsEligible, Searching
<1>4. CASE StopsAmid
  BY <1>4 DEF StopsAmid, Attempting, VictimsEligible, Searching
<1> QED
  BY <1>1, <1>2, <1>3, <1>4, LiveSteps

\* Only pods the replica outranks, of the node at hand, are removed in a search.
THEOREM LiveVictimsEligible == LiveSpec => []VictimsEligible
<1> QED
  BY EvictionInit, LiveTypeCorrect, LiveEligibleNext, PTL DEF LiveSpec, LiveInit

LEMMA LiveEvictionNext ==
  TypeOK /\ VictimsEligible /\ EvictionInv /\ [LiveNext]_vars => EvictionInv'
<1> SUFFICES ASSUME TypeOK, VictimsEligible, EvictionInv, [LiveNext]_vars PROVE EvictionInv'
  OBVIOUS
<1> USE DEF ledger, progress, outcome
<1>a. SameWorld => Initial' = Initial
  BY DEF SameWorld, SameLists, Initial, ListScheduledPods
<1>1. CASE [Next]_vars
  BY <1>1, EvictionNext
<1>2. CASE Idle
  BY <1>2, <1>a DEF Idle, EvictionInv, EvictedOnlyForHigher, Evicted, Reported
<1>3. CASE PlacesAmid
  <2>1. PICK n \in Node : Commit(Current, n, {}, FALSE)
    BY <1>3 DEF PlacesAmid
  <2>b. wr \in WorkloadResult
    BY DEF TypeOK
  <2>2. scheduledPods \subseteq scheduledPods' /\ simulated \subseteq simulated' /\ pc' = "place"
        /\ (wr.usedPreemption => wr'.usedPreemption)
    BY <2>b, <2>1 DEF Commit, WorkloadResult
  <2>3. Evicted' \subseteq Evicted
    BY <1>3, <1>a, <2>2 DEF PlacesAmid, Evicted
  <2>4. pc = "place" /\ UNCHANGED <<results, opts>>
    BY <1>3 DEF PlacesAmid, Attempting
  <2> QED
    BY <2>2, <2>3, <2>4 DEF EvictionInv, EvictedOnlyForHigher, Reported
<1>4. CASE StopsAmid
  BY <1>4, <1>a DEF StopsAmid, Attempting, EvictionInv, EvictedOnlyForHigher, Evicted, Reported
<1> QED
  BY <1>1, <1>2, <1>3, <1>4, LiveSteps

\* Whoever is evicted is outranked by a replica on its node, and the report says
\* that preemption was used.
THEOREM LiveEvictionsJustified == LiveSpec => []EvictedOnlyForHigher
<1>1. EvictionInv => EvictedOnlyForHigher
  BY DEF EvictionInv
<1> QED
  BY <1>1, EvictionInit, LiveTypeCorrect, LiveVictimsEligible, LiveEvictionNext, PTL
  DEF LiveSpec, LiveInit
-----------------------------------------------------------------------------
(* The command.                                                            *)

LEMMA CommandSteps == [CommandNext]_all => [LiveNext]_vars
<1> SUFFICES ASSUME [CommandNext]_all PROVE [LiveNext]_vars
  OBVIOUS
<1>1. CASE \/ ValidateFlags \/ LoadConfig \/ BuildWorkloads \/ NewClient \/ NewReturns
           \/ RunReturns
  BY <1>1 DEF ValidateFlags, LoadConfig, BuildWorkloads, NewClient, NewReturns, RunReturns, Goes
<1>2. CASE NewFails \/ Fails \/ RunFails \/ Render \/ Kill
  BY <1>2 DEF NewFails, Fails, RunFails, Render, Kill, Exits
<1>3. CASE RunStep
  BY <1>3 DEF RunStep, LiveNext
<1>4. CASE OutsideStep
  BY <1>4 DEF OutsideStep, LiveNext, Outside
<1>5. CASE Cancel
  BY <1>5 DEF Cancel, LiveNext, Outside
<1>6. CASE UNCHANGED all
  BY <1>6 DEF all
<1> QED
  BY <1>1, <1>2, <1>3, <1>4, <1>5, <1>6 DEF CommandNext

\* Whatever the command does, its simulator behaves as one beside live informers.
THEOREM CommandRunsLive == CommandSpec => LiveSpec
<1>1. CommandInit => LiveInit
  BY DEF CommandInit
<1> QED
  BY <1>1, CommandSteps, PTL DEF CommandSpec, LiveSpec

\* The command runs Run beside live informers, so what holds of that holds of it:
\* the ledger, the credits and the evictions are right at every stage (run).
THEOREM CommandKeepsLedger ==
  CommandSpec => [](SnapshotInSync /\ ReplicasStand /\ EvictedOnlyForHigher /\ VictimsEligible)
BY CommandRunsLive, LiveSnapshotRestored, LiveCreditStands, LiveEvictionsJustified,
   LiveVictimsEligible, PTL
-----------------------------------------------------------------------------
\* Where the command is, what it has written and which code it has.
ExitInv ==
  /\ stage = "render" => pc = "done"
  /\ stage # "exited" => written = "nothing" /\ exit = NoCode
  /\ stage = "exited" =>
       \/ exit \in {2, Killed} /\ written # "report"
       \/ /\ pc = "done" /\ written = "report"
          /\ exit = IF schedulable THEN 0 ELSE 1

LEMMA ExitNext == ExitInv /\ [CommandNext]_all => ExitInv'
<1> SUFFICES ASSUME ExitInv, [CommandNext]_all PROVE ExitInv'
  OBVIOUS
<1> USE DEF ExitInv, command
<1>1. CASE ValidateFlags \/ LoadConfig \/ BuildWorkloads \/ NewClient \/ NewReturns
  BY <1>1 DEF ValidateFlags, LoadConfig, BuildWorkloads, NewClient, NewReturns, Goes
<1>2. CASE RunReturns
  BY <1>2 DEF RunReturns, Goes, vars
<1>3. CASE NewFails \/ RunFails
  BY <1>3 DEF NewFails, RunFails, Exits
<1>4. CASE Fails
  BY <1>4 DEF Fails, Exits
<1>5. CASE Kill
  BY <1>5 DEF Kill, Exits
<1>6. CASE Render
  BY <1>6 DEF Render, Exits, vars, outcome
<1>7. CASE RunStep \/ OutsideStep
  BY <1>7 DEF RunStep, OutsideStep
<1>8. CASE Cancel
  <2>1. UNCHANGED <<pc, schedulable>>
    BY <1>8 DEF Cancel, Interrupt, outcome
  <2> QED
    BY <1>8, <2>1 DEF Cancel
<1>9. CASE UNCHANGED all
  BY <1>9 DEF all, vars, outcome
<1> QED
  BY <1>1, <1>2, <1>3, <1>4, <1>5, <1>6, <1>7, <1>8, <1>9 DEF CommandNext

LEMMA ExitAlways == CommandSpec => []ExitInv
<1>1. CommandInit => ExitInv
  BY DEF CommandInit, ExitInv
<1> QED
  BY <1>1, ExitNext, PTL DEF CommandSpec

\* With a result, each workload has a verdict and the overall one is their conjunction.
LEMMA OneVerdictEach ==
  ASSUME TypeOK, VerdictExact, pc = "done"
  PROVE  /\ Reported = 1 .. Len(batch)
         /\ schedulable <=> \A k \in 1 .. Len(batch) : Fits(k, results[k])
BY DEF VerdictExact, Reported, TypeOK

LEMMA CreditShows ==
  ASSUME ReplicasStand, NEW k \in Reported
  PROVE  Placed(k) = batch[k].replicas <=> Fits(k, results[k])
<1>1. ReplicasOf(k) \cap scheduledPods = ReplicasOf(k)
  BY DEF ReplicasStand
<1> QED
  BY <1>1 DEF Placed, Fits, ReplicasStand

\* 0 and 1 come with the full report, and 0 if and only if the ledger holds every
\* replica of every workload: for any filters, events, failures and interrupts.
THEOREM ExitIsTruthful == CommandSpec => []ExitTruthful
<1>1. TypeOK /\ VerdictExact /\ ReplicasStand /\ ExitInv => ExitTruthful
  <2> SUFFICES ASSUME TypeOK, VerdictExact, ReplicasStand, ExitInv, stage = "exited"
               PROVE  /\ exit \in {0, 1} <=> written = "report"
                      /\ written = "report" =>
                           (exit = 0 <=> \A k \in 1 .. Len(batch) : Placed(k) = batch[k].replicas)
    BY DEF ExitTruthful
  <2>1. exit \in {0, 1} <=> written = "report"
    BY DEF ExitInv, Killed
  <2>2. ASSUME written = "report" PROVE pc = "done" /\ (exit = 0 <=> schedulable)
    BY <2>2 DEF ExitInv
  <2> QED
    BY <2>1, <2>2, OneVerdictEach, CreditShows
<1> QED
  BY <1>1, CommandRunsLive, LiveTypeCorrect, LiveVerdictCorrect, LiveCreditStands,
     ExitAlways, PTL
-----------------------------------------------------------------------------
LEMMA ReasonIffUnfit ==
  ASSUME NEW k, NEW r
  PROVE  ShortReason(k, r) = {} <=> Fits(k, r)
BY DEF ShortReason, Untolerated

LEMMA ClosingIsVerdict ==
  ASSUME TypeOK, VerdictExact, pc = "done"
  PROVE  Rendered.closing.says = "SCHEDULABLE" <=> schedulable
<1>1. Rendered.closing = RenderVerdict
  BY DEF Rendered
<1>2. CASE Len(results) = 1
  <2>1. schedulable <=> Fits(1, results[1])
    BY <1>2, OneVerdictEach DEF Reported
  <2>2. RenderVerdict = VerdictLine(1, results[1])
    BY <1>2 DEF RenderVerdict
  <2>3. VerdictLine(1, results[1]).says = Verdict(1, results[1])
    BY DEF VerdictLine
  <2> QED
    BY <1>1, <2>1, <2>2, <2>3 DEF Verdict
<1>3. CASE Len(results) # 1
  <2>1. RenderVerdict.says = Overall
    BY <1>3 DEF RenderVerdict
  <2> QED
    BY <1>1, <2>1 DEF Overall
<1> QED
  BY <1>2, <1>3

LEMMA RowShows ==
  ASSUME NEW k \in Reported
  PROVE  /\ Rendered.rows[k].reason = {} <=> Fits(k, results[k])
         /\ Rendered.rows[k].fit = Rendered.rows[k].replicas <=> Fits(k, results[k])
         /\ Rendered.rows[k].color = "green" <=> Fits(k, results[k])
<1>1. Rendered.rows[k] = Row(k)
  BY DEF Rendered, Reported
<1>2. /\ Row(k).reason = ShortReason(k, results[k])
      /\ Row(k).fit = results[k].fit /\ Row(k).replicas = batch[k].replicas
      /\ Row(k).color = FitColor(k, results[k])
  BY DEF Row
<1>3. FitColor(k, results[k]) = "green" <=> Fits(k, results[k])
  BY DEF FitColor
<1>4. results[k].fit = batch[k].replicas <=> Fits(k, results[k])
  BY DEF Fits
<1> QED
  BY <1>1, <1>2, <1>3, <1>4, ReasonIffUnfit

\* The report a reader sees and the code a script sees say the same.
THEOREM ReportAndExitAgree == CommandSpec => []ReportAgrees
<1>1. TypeOK /\ VerdictExact /\ ExitInv => ReportAgrees
  <2> SUFFICES ASSUME TypeOK, VerdictExact, ExitInv, exit \in {0, 1} PROVE ReportAgrees
    BY DEF ReportAgrees
  <2>1. pc = "done" /\ (exit = 0 <=> schedulable)
    BY DEF ExitInv, NoCode, Killed
  <2>2. exit = 0 <=> Rendered.closing.says = "SCHEDULABLE"
    BY <2>1, ClosingIsVerdict
  <2>3. exit = 0 <=> \A k \in 1 .. Len(batch) : Rendered.rows[k].reason = {}
    BY <2>1, OneVerdictEach, RowShows
  <2>4. \A k \in 1 .. Len(batch) :
          Rendered.rows[k].reason = {} <=>
            Rendered.rows[k].fit = Rendered.rows[k].replicas /\ Rendered.rows[k].color = "green"
    BY <2>1, OneVerdictEach, RowShows
  <2> QED
    BY <2>2, <2>3, <2>4 DEF ReportAgrees
<1> QED
  BY <1>1, CommandRunsLive, LiveTypeCorrect, LiveVerdictCorrect, ExitAlways, PTL
===============================================================================
