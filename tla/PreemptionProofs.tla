--------------------------- MODULE PreemptionProofs ---------------------------
(***************************************************************************)
(* Theorems about preemption: what the search for victims knows at each of *)
(* its steps, who is evicted, and that nobody is evicted for nothing.      *)
(***************************************************************************)
EXTENDS SimulatorProofs

searchFrame == <<cluster, batch, opts, wi, ordinal, pvcStore, scheduledPods, simulated>>

\* What a search reasons about does not change from one of its steps to the next.
LEMMA SearchFrame ==
  ASSUME UNCHANGED searchFrame
  PROVE  /\ Current' = Current /\ Claims' = Claims /\ Resisting' = Resisting
         /\ \A n : Victims(n)' = Victims(n)
         /\ \A n : Helps(n)' = Helps(n)
         /\ \A n : FitsWithout(removed, n)' = FitsOnNode(Trial(scheduledPods \ removed'), Current, n)
<1>1. UNCHANGED <<cluster, batch, opts, wi, ordinal, pvcStore, scheduledPods, simulated>>
  BY DEF searchFrame
<1>2. Current' = Current /\ Claims' = Claims
  BY <1>1 DEF Current, Claims, W
<1>3. Resisting' = Resisting
  BY <1>1, <1>2 DEF Resisting, Trial
<1>4. \A n : Victims(n)' = Victims(n)
  BY <1>1, <1>2 DEF Victims
<1>5. \A n : Helps(n)' = Helps(n)
  BY <1>1, <1>2, <1>3, <1>4 DEF Helps, FitsWithout, Trial
<1>6. \A n : FitsWithout(removed, n)' = FitsOnNode(Trial(scheduledPods \ removed'), Current, n)
  BY <1>1, <1>2 DEF FitsWithout, Trial
<1> QED
  BY <1>2, <1>3, <1>4, <1>5, <1>6

LEMMA FirstUnique ==
  ASSUME NEW nodes \in SUBSET Node, NEW m, NEW n, First(m, nodes), First(n, nodes)
  PROVE  m = n
<1>1. m \in Int /\ n \in Int
  BY DEF First, Node
<1> QED
  BY <1>1 DEF First

\* Nobody in, nobody out: with nothing removed the replica is where it started.
LEMMA NothingRemoved ==
  ASSUME NEW n, Accepting(Trial(scheduledPods), Current) = {}
  PROVE  ~FitsWithout({}, n)
<1>1. scheduledPods \ {} = scheduledPods
  OBVIOUS
<1> QED
  BY <1>1 DEF FitsWithout, FitsOnNode

LEMMA SearchNext ==
  TypeOK /\ SnapshotInSync /\ SearchSound /\ [Next]_vars => SearchSound'
<1> SUFFICES ASSUME TypeOK, SnapshotInSync, SearchSound, [Next]_vars PROVE SearchSound'
  OBVIOUS
<1> USE DEF inputs, outcome, progress, ledger
<1>1. CASE ~Searching'
  BY <1>1 DEF SearchSound
<1>2. CASE StartPreemption
  <2>1. /\ pc' = "remove" /\ removed' = {} /\ pvcStore' = Claims
        /\ todo' = Rejecting(Cycle, Current)
        /\ Accepting(Cycle, Current) = {}
        /\ opts.considerPreemption /\ PreemptionMeaningful(cluster, Current)
        /\ UNCHANGED <<cluster, batch, opts, wi, ordinal, scheduledPods, simulated>>
    BY <1>2 DEF StartPreemption
  <2>2. Current' = Current
    BY <2>1 DEF Current, W
  <2>3. Trial(scheduledPods)' = Cycle
    <3>1. snapshot = scheduledPods
      BY <1>2 DEF StartPreemption, Attempting, SnapshotInSync
    <3> QED
      BY <2>1, <3>1 DEF Trial, Cycle
  <2>4. Claims' = pvcStore'
    <3>1. Claims' = InjectPVCs(pvcStore', cluster, W, ordinal)
      BY <2>1 DEF Claims, W
    <3> QED
      BY <2>1, <3>1, InjectTwice DEF Claims
  <2>5. Resisting' = todo'
    BY <2>1, <2>2, <2>3 DEF Resisting
  <2>6. Accepting(Trial(scheduledPods), Current)' = {}
    BY <2>1, <2>2, <2>3
  <2>7. \A n : ~FitsWithout(removed, n)'
    <3>1. (scheduledPods \ removed)' = scheduledPods'
      BY <2>1
    <3>2. \A n : FitsWithout(removed, n)' = FitsOnNode(Trial(scheduledPods)', Current', n)
      BY <3>1 DEF FitsWithout, Trial
    <3> QED
      BY <2>6, <3>2 DEF FitsOnNode
  <2>8. opts'.considerPreemption /\ PreemptionMeaningful(cluster, Current)'
    BY <2>1, <2>2
  <2> QED
    BY <2>1, <2>4, <2>5, <2>6, <2>7, <2>8 DEF SearchSound, Searching
<1>3. ASSUME Searching, UNCHANGED searchFrame, todo' \subseteq todo,
             \A m \in todo \ todo' : ~Helps(m) /\ \A n \in todo' : m < n,
             \A n \in todo' : First(n, todo') =>
                /\ removed' \subseteq Victims(n)
                /\ FitsOnNode(Trial(scheduledPods \ removed'), Current, n) <=> pc' = "minimize"
      PROVE  SearchSound'
  <2>1. /\ Current' = Current /\ Claims' = Claims /\ Resisting' = Resisting
        /\ \A n : Victims(n)' = Victims(n)
        /\ \A n : Helps(n)' = Helps(n)
        /\ \A n : FitsWithout(removed, n)' = FitsOnNode(Trial(scheduledPods \ removed'), Current, n)
    BY <1>3, SearchFrame
  <2>2. /\ opts'.considerPreemption /\ PreemptionMeaningful(cluster, Current)'
        /\ pvcStore' = Claims'
        /\ Accepting(Trial(scheduledPods), Current)' = {}
    BY <1>3, <2>1 DEF SearchSound, searchFrame, Trial
  <2>3. todo' \subseteq Resisting' /\ \A m \in Resisting' \ todo' : ~Helps(m)' /\ \A n \in todo' : m < n
    BY <1>3, <2>1 DEF SearchSound
  <2>4. \A n \in todo' : First(n, todo') =>
          /\ removed' \subseteq Victims(n)'
          /\ FitsWithout(removed, n)' <=> pc' = "minimize"
    BY <1>3, <2>1
  <2> QED
    BY <2>2, <2>3, <2>4 DEF SearchSound
<1>4. ASSUME NEW n \in todo, First(n, todo)
      PROVE  \A m \in todo : First(m, todo) => m = n
  BY <1>4, FirstUnique DEF TypeOK
<1>5. CASE RemoveVictim
  <2>1. PICK n \in todo, v \in scheduledPods :
          /\ First(n, todo)
          /\ v \in Victims(n)
          /\ removed' = removed \cup {v}
          /\ snapshot' = scheduledPods \ removed'
          /\ IF FitsOnNode(Trial(snapshot'), Current, n)
             THEN pc' = "minimize" ELSE pc' = pc
    BY <1>5 DEF RemoveVictim, Lowest, Victims
  <2>2. pc = "remove" /\ Searching /\ UNCHANGED searchFrame /\ todo' = todo
    BY <1>5 DEF RemoveVictim, Searching, searchFrame
  <2>3. removed' \subseteq Victims(n)
    BY <2>1, <2>2 DEF SearchSound
  <2>4. FitsOnNode(Trial(scheduledPods \ removed'), Current, n) <=> pc' = "minimize"
    BY <2>1, <2>2
  <2> QED
    BY <1>3, <1>4, <2>1, <2>2, <2>3, <2>4
<1>6. CASE NextNode
  <2>1. PICK n \in todo : First(n, todo) /\ Victims(n) \subseteq removed /\ todo' = todo \ {n}
    BY <1>6 DEF NextNode, Victims
  <2>2. pc = "remove" /\ pc' = pc /\ Searching /\ UNCHANGED searchFrame /\ removed' = {}
    BY <1>6 DEF NextNode, Searching, searchFrame
  <2>3. ~Helps(n)
    <3>1. removed = Victims(n) /\ ~FitsWithout(removed, n)
      BY <2>1, <2>2 DEF SearchSound
    <3> QED
      BY <3>1 DEF Helps
  <2>4. \A m \in todo' : n < m
    BY <2>1 DEF First, TypeOK, Node
  <2>5. \A m : ~FitsOnNode(Trial(scheduledPods \ removed'), Current, m)
    BY <2>2, NothingRemoved DEF SearchSound, FitsWithout
  <2> QED
    BY <1>3, <2>1, <2>2, <2>3, <2>4, <2>5
<1>7. CASE Reprieve
  <2>1. PICK n \in todo, v \in pending :
          /\ First(n, todo)
          /\ snapshot' = scheduledPods \ (removed \ {v})
          /\ removed' = IF FitsOnNode(Trial(snapshot'), Current, n)
                        THEN removed \ {v} ELSE removed
    BY <1>7 DEF Reprieve
  <2>2. pc = "minimize" /\ pc' = pc /\ Searching /\ UNCHANGED searchFrame /\ todo' = todo
    BY <1>7 DEF Reprieve, Searching, searchFrame
  <2>3. removed \subseteq Victims(n) /\ FitsWithout(removed, n)
    BY <2>1, <2>2 DEF SearchSound
  <2>4. FitsOnNode(Trial(scheduledPods \ removed'), Current, n)
    BY <2>1, <2>3 DEF FitsWithout
  <2>5. removed' \subseteq Victims(n)
    BY <2>1, <2>3
  <2> QED
    BY <1>3, <1>4, <2>1, <2>2, <2>4, <2>5
<1>8. CASE AbandonPreemption \/ PreemptReplica
  BY <1>8, <1>1 DEF AbandonPreemption, PreemptReplica, Commit, Searching
<1>9. CASE ProbeWorkload \/ RejectWorkload \/ ReportWorkload \/ Finish
  BY <1>9, <1>1 DEF ProbeWorkload, RejectWorkload, ReportWorkload, Finish, Searching
<1>10. CASE PlaceReplica \/ GiveUp
  BY <1>10, <1>1 DEF PlaceReplica, Commit, GiveUp, Searching
<1>11. CASE UNCHANGED vars
  <2>1. UNCHANGED searchFrame /\ UNCHANGED <<todo, removed, pc>>
    BY <1>11 DEF vars, searchFrame, search
  <2>2. CASE Searching
    BY <2>1, <2>2, <1>3 DEF SearchSound, FitsWithout
  <2>3. CASE ~Searching
    BY <2>1, <2>3, <1>1 DEF Searching
  <2> QED
    BY <2>2, <2>3
<1> QED
  BY <1>2, <1>5, <1>6, <1>7, <1>8, <1>9, <1>10, <1>11 DEF Next

\* A search never skips a node that could be made to fit, removes only pods it
\* may evict, from the node at hand, and minimises only sets that let the
\* replica in.
THEOREM SearchIsSound == Spec => []SearchSound
<1>1. Init => SearchSound
  BY DEF Init, SearchSound, Searching
<1> QED
  BY <1>1, TypeCorrect, SnapshotRestored, SearchNext, PTL DEF Spec
-----------------------------------------------------------------------------
(* Who is evicted.                                                         *)

\* When the search has its victims: all of them are candidates of the node the
\* replica gets, the replica fits without them, and there is at least one.
LEMMA Victorious ==
  ASSUME TypeOK, SearchSound, PreemptReplica
  PROVE  \E n \in todo : /\ First(n, todo) /\ Commit(Current, n, removed, TRUE)
                         /\ n \in Node
                         /\ removed \subseteq Victims(n) /\ removed # {}
                         /\ FitsWithout(removed, n)
<1>1. PICK n \in todo : First(n, todo) /\ Commit(Current, n, removed, TRUE)
  BY DEF PreemptReplica
<1>2. Searching /\ pc = "minimize"
  BY DEF PreemptReplica, Searching
<1>3. removed \subseteq Victims(n) /\ FitsWithout(removed, n)
  BY <1>1, <1>2 DEF SearchSound
<1>4. removed # {}
  BY <1>2, <1>3, NothingRemoved DEF SearchSound
<1> QED
  BY <1>1, <1>3, <1>4 DEF TypeOK

\* The replica at hand outranks what it may evict, so it is none of it.
LEMMA Outranked ==
  ASSUME NEW n, NEW v \in Victims(n)
  PROVE  v.node = n /\ v.prio < Current.prio
BY DEF Victims, Candidates

\* An eviction is on record in the result at hand, or in one reported.
EvictionInv == EvictedOnlyForHigher /\ (pc = "probe" /\ Evicted # {} =>
                 \E k \in Reported : results[k].usedPreemption)

\* Of the node at hand only candidates are removed, step by step.
LEMMA EligibleNext == TypeOK /\ VictimsEligible /\ [Next]_vars => VictimsEligible'
<1> SUFFICES ASSUME TypeOK, VictimsEligible, [Next]_vars PROVE VictimsEligible'
  OBVIOUS
<1> USE DEF inputs, outcome, progress, ledger
<1>1. CASE ~Searching'
  BY <1>1 DEF VictimsEligible
<1>2. ASSUME removed' = {}, opts' = opts, opts.considerPreemption PROVE VictimsEligible'
  BY <1>2 DEF VictimsEligible
<1>3. CASE StartPreemption
  BY <1>3, <1>2 DEF StartPreemption
<1>4. CASE NextNode
  BY <1>4, <1>2 DEF NextNode, VictimsEligible, Searching
<1>5. ASSUME UNCHANGED <<cluster, batch, wi, ordinal, scheduledPods, simulated, opts, todo>>,
             Searching, NEW v, NEW m \in todo, First(m, todo),
             v \in Victims(m), removed' \subseteq removed \cup {v}
      PROVE  VictimsEligible'
  <2>1. \A n \in todo : First(n, todo) => n = m
    BY <1>5, FirstUnique DEF TypeOK
  <2>2. \A n : Victims(n)' = Victims(n)
    BY <1>5 DEF Victims, Current, Replica, W
  <2>3. removed' \subseteq Victims(m)
    BY <1>5 DEF VictimsEligible
  <2> QED
    BY <1>5, <2>1, <2>2, <2>3 DEF VictimsEligible
<1>6. CASE RemoveVictim
  <2>1. PICK n \in todo, v \in scheduledPods :
          /\ First(n, todo)
          /\ v \in Candidates(scheduledPods, simulated, Current, n)
          /\ removed' = removed \cup {v}
    BY <1>6 DEF RemoveVictim, Lowest
  <2>2. v \in Victims(n)
    BY <2>1 DEF Victims
  <2> QED
    BY <1>6, <2>1, <2>2, <1>5 DEF RemoveVictim, Searching
<1>7. CASE UNCHANGED <<cluster, batch, wi, ordinal, scheduledPods, simulated, opts, todo>>
           /\ Searching /\ removed' \subseteq removed
  <2>1. \A n : Victims(n)' = Victims(n)
    BY <1>7 DEF Victims, Current, Replica, W
  <2> QED
    BY <1>7, <2>1 DEF VictimsEligible
<1>8. CASE Reprieve
  <2>1. removed' \subseteq removed
    BY <1>8 DEF Reprieve
  <2> QED
    BY <1>8, <2>1, <1>7 DEF Reprieve, Searching
<1>9. CASE ProbeWorkload \/ RejectWorkload \/ GiveUp \/ ReportWorkload \/ Finish
  BY <1>9, <1>1 DEF ProbeWorkload, RejectWorkload, GiveUp, ReportWorkload, Finish, Searching
<1>10. CASE PlaceReplica \/ PreemptReplica
  BY <1>10, <1>1 DEF PlaceReplica, PreemptReplica, Commit, Searching
<1>11. CASE AbandonPreemption
  BY <1>11, <1>1 DEF AbandonPreemption, Searching
<1>12. CASE UNCHANGED vars
  BY <1>12, <1>7, <1>1 DEF vars, search, Searching
<1> QED
  BY <1>3, <1>4, <1>6, <1>8, <1>9, <1>10, <1>11, <1>12 DEF Next

LEMMA EvictionNext ==
  TypeOK /\ VictimsEligible /\ EvictionInv /\ [Next]_vars => EvictionInv'
<1> SUFFICES ASSUME TypeOK, VictimsEligible, EvictionInv, [Next]_vars PROVE EvictionInv'
  OBVIOUS
<1> USE DEF inputs, outcome, progress, ledger
<1>a. wr \in WorkloadResult
  BY DEF TypeOK
<1>1. CASE UNCHANGED <<cluster, opts, scheduledPods, simulated, wr, results>> /\ pc # "error"
           /\ (pc' = "probe" => pc = "probe")
  BY <1>1 DEF EvictionInv, EvictedOnlyForHigher, Evicted, Initial, Reported
<1>2. CASE ProbeWorkload
  BY <1>2 DEF ProbeWorkload, EvictionInv, EvictedOnlyForHigher, Evicted, Initial, Reported
<1>3. CASE RejectWorkload
  BY <1>3 DEF RejectWorkload, EvictionInv, EvictedOnlyForHigher, Evicted, Initial
<1>4. CASE PlaceReplica
  <2>1. PICK n \in Node : Commit(Current, n, {}, FALSE)
    BY <1>4 DEF PlaceReplica
  <2>2. scheduledPods \subseteq scheduledPods' /\ simulated \subseteq simulated' /\ pc' = "place"
        /\ (wr.usedPreemption => wr'.usedPreemption)
    BY <1>a, <2>1 DEF Commit, WorkloadResult
  <2>3. Evicted' \subseteq Evicted
    BY <1>4, <2>2 DEF PlaceReplica, Evicted, Initial
  <2>4. pc = "place" /\ UNCHANGED <<results, opts>>
    BY <1>4 DEF PlaceReplica, Attempting
  <2> QED
    BY <2>2, <2>3, <2>4 DEF EvictionInv, EvictedOnlyForHigher, Reported
<1>5. CASE PreemptReplica
  <2> DEFINE placed(n) == [Current EXCEPT !.node = n]
  <2>1. PICK n \in todo : Commit(Current, n, removed, TRUE) /\ removed \subseteq Victims(n)
    BY <1>5 DEF PreemptReplica, VictimsEligible, Searching
  <2>2. placed(n).node = n /\ placed(n).prio = Current.prio
    BY DEF Current, Replica
  <2>3. placed(n) \in simulated' /\ simulated \subseteq simulated'
    BY <2>1 DEF Commit
  <2>4. Evicted' \subseteq Evicted \cup removed
    BY <1>5, <2>1 DEF PreemptReplica, Commit, Evicted, Initial
  <2>5. wr'.usedPreemption /\ pc' = "place"
    BY <1>a, <2>1 DEF Commit, WorkloadResult
  <2> HIDE DEF placed
  <2>6. \A p \in removed : p.node = n /\ p.prio < placed(n).prio
    BY <2>1, <2>2, Outranked
  <2>7. \A p \in removed : \E q \in simulated' : q.node = p.node /\ q.prio > p.prio
    <3> SUFFICES ASSUME NEW p \in removed PROVE placed(n).node = p.node /\ placed(n).prio > p.prio
      BY <2>3
    <3> QED
      BY <2>2, <2>6
  <2>8. \A p \in Evicted : \E q \in simulated' : q.node = p.node /\ q.prio > p.prio
    BY <2>3 DEF EvictionInv, EvictedOnlyForHigher
  <2>9. opts'.considerPreemption
    BY <1>5 DEF PreemptReplica, VictimsEligible, Searching
  <2> QED
    BY <2>4, <2>5, <2>7, <2>8, <2>9 DEF EvictionInv, EvictedOnlyForHigher
<1>6. CASE GiveUp \/ StartPreemption
  BY <1>6, <1>1 DEF GiveUp, StartPreemption, Attempting
<1>7. CASE RemoveVictim
  BY <1>7, <1>1 DEF RemoveVictim
<1>8. CASE NextNode \/ AbandonPreemption \/ Reprieve
  BY <1>8, <1>1 DEF NextNode, AbandonPreemption, Reprieve
<1>9. CASE ReportWorkload
  <2>1. UNCHANGED <<cluster, opts, scheduledPods, simulated, wr>> /\ pc # "error" /\ pc' = "probe"
    BY <1>9 DEF ReportWorkload
  <2>2. Len(results) \in Nat
    BY <1>9, Appended
  <2>3. wr.usedPreemption \/ (\E k \in Reported : results[k].usedPreemption)
          => \E k \in Reported' : results'[k].usedPreemption
    BY <1>9, <2>2, Appended DEF Reported
  <2> QED
    BY <2>1, <2>3 DEF EvictionInv, EvictedOnlyForHigher, Evicted, Initial
<1>10. CASE Finish
  BY <1>10, <1>1 DEF Finish
<1>11. CASE UNCHANGED vars
  BY <1>11 DEF vars, EvictionInv, EvictedOnlyForHigher, Evicted, Initial, Reported
<1> QED
  BY <1>2, <1>3, <1>4, <1>5, <1>6, <1>7, <1>8, <1>9, <1>10, <1>11 DEF Next

LEMMA EvictionInit == Init => EvictionInv /\ VictimsEligible
BY DEF Init, EvictionInv, EvictedOnlyForHigher, Evicted, Initial, VictimsEligible, Searching

\* Nobody is evicted but for a replica that outranks it and now holds its node,
\* nobody without --consider-preemption, and the report says so.
THEOREM EvictionsJustified == Spec => []EvictedOnlyForHigher
<1>1. Init => EvictionInv /\ VictimsEligible
  BY EvictionInit
<1>2. EvictionInv => EvictedOnlyForHigher
  BY DEF EvictionInv
<1> QED
  BY <1>1, <1>2, TypeCorrect, EligibleNext, EvictionNext, PTL DEF Spec
-----------------------------------------------------------------------------
(* Nobody is evicted for nothing.                                          *)

\* What the greedy reprieve relies on: if a pod fits on a node among some pods,
\* and still fits when more are put back there, it also fits in between.
Convex ==
  \A c \in Clusters, pvcs \in SUBSET PVC, pod \in Pod, n \in Node, pods \in SUBSET Pod :
    IsFiniteSet(pods) => ConvexOn(c, pvcs, pod, n, pods)

LEMMA InitialFinite ==
  ASSUME NEW c \in Clusters
  PROVE  /\ ListScheduledPods(c) \in SUBSET Pod /\ IsFiniteSet(ListScheduledPods(c))
         /\ \A p \in ListScheduledPods(c) : p.id[1] = 0 /\ p.node # NoNode
<1>1. IsCluster(c)
  BY ClustersAssumption
<1>2. ListScheduledPods(c) \subseteq c.pods
  BY DEF ListScheduledPods
<1> QED
  BY <1>1, <1>2, FS_Subset DEF IsCluster, ListScheduledPods

\* The ledger stays finite.
LEMMA FiniteNext == IsFiniteSet(scheduledPods) /\ [Next]_vars => IsFiniteSet(scheduledPods)'
<1> SUFFICES ASSUME IsFiniteSet(scheduledPods), [Next]_vars PROVE IsFiniteSet(scheduledPods')
  OBVIOUS
<1> USE DEF inputs, outcome, progress, ledger
<1>1. ASSUME NEW n, NEW victims, NEW viaPreemption, Commit(Current, n, victims, viaPreemption)
      PROVE  IsFiniteSet(scheduledPods')
  <2>1. scheduledPods' = (scheduledPods \ victims) \cup {[Current EXCEPT !.node = n]}
    BY <1>1 DEF Commit
  <2>2. IsFiniteSet(scheduledPods \ victims)
    BY FS_Subset
  <2> QED
    BY <2>1, <2>2, FS_AddElement
<1>2. CASE PlaceReplica \/ PreemptReplica
  BY <1>1, <1>2 DEF PlaceReplica, PreemptReplica
<1>3. CASE ProbeWorkload \/ RejectWorkload \/ ReportWorkload \/ Finish
  BY <1>3 DEF ProbeWorkload, RejectWorkload, ReportWorkload, Finish
<1>4. CASE GiveUp \/ StartPreemption \/ RemoveVictim
  BY <1>4 DEF GiveUp, StartPreemption, RemoveVictim
<1>5. CASE NextNode \/ AbandonPreemption \/ Reprieve \/ UNCHANGED vars
  BY <1>5 DEF NextNode, AbandonPreemption, Reprieve, vars
<1> QED
  BY <1>2, <1>3, <1>4, <1>5 DEF Next

LEMMA CurrentType ==
  ASSUME TypeOK, Searching
  PROVE  Current \in Pod
<1>1. wi <= Len(batch) /\ Resolvable(cluster, W) /\ ordinal < W.replicas
  BY DEF TypeOK, Searching
<1>2. IsCluster(cluster) /\ IsWorkload(W) /\ wi \in Nat
  BY <1>1, CurrentWorkload
<1>3. ordinal \in 0 .. W.replicas
  BY <1>1, <1>2 DEF TypeOK, IsWorkload
<1> QED
  BY <1>1, <1>2, <1>3, ReplicaType DEF Current

LEMMA NeededNext ==
  ASSUME Convex
  PROVE  TypeOK /\ IsFiniteSet(scheduledPods) /\ SearchSound /\ VictimsNeeded /\ [Next]_vars
           => VictimsNeeded'
<1> SUFFICES ASSUME TypeOK, IsFiniteSet(scheduledPods), SearchSound, VictimsNeeded, [Next]_vars
             PROVE  VictimsNeeded'
  OBVIOUS
<1> USE DEF inputs, outcome, progress, ledger
<1>1. CASE pc' # "minimize"
  BY <1>1 DEF VictimsNeeded
<1>2. CASE RemoveVictim
  <2>1. pc' = "minimize" => pending' = removed'
    BY <1>2 DEF RemoveVictim
  <2> QED
    BY <2>1 DEF VictimsNeeded
<1>3. CASE Reprieve
  <2>1. PICK n \in todo, v \in pending :
          /\ First(n, todo)
          /\ pending' = pending \ {v}
          /\ snapshot' = scheduledPods \ (removed \ {v})
          /\ removed' = IF FitsOnNode(Trial(snapshot'), Current, n)
                        THEN removed \ {v} ELSE removed
    BY <1>3 DEF Reprieve
  <2>2. /\ pc = "minimize" /\ Searching /\ UNCHANGED todo
        /\ UNCHANGED <<cluster, batch, wi, ordinal, pvcStore, scheduledPods>>
    BY <1>3 DEF Reprieve, Searching
  <2>3. Current' = Current
    BY <2>2 DEF Current, W
  <2>4. /\ removed \subseteq Victims(n) /\ FitsWithout(removed, n)
        /\ \A u \in removed \ pending : ~FitsWithout(removed \ {u}, n)
    BY <2>1, <2>2 DEF SearchSound, VictimsNeeded
  <2>5. ASSUME NEW u \in removed' \ pending'
        PROVE  ~FitsWithout(removed' \ {u}, n)
    <3>1. CASE removed' = removed /\ ~FitsWithout(removed \ {v}, n)
      <4>1. u = v \/ u \in removed \ pending
        BY <2>1, <3>1
      <4> QED
        BY <2>4, <3>1, <4>1
    <3>2. CASE removed' = removed \ {v} /\ FitsWithout(removed \ {v}, n)
      <4> DEFINE few  == scheduledPods \ removed
                 some == scheduledPods \ (removed \ {u})
                 many == scheduledPods \ ((removed \ {v}) \ {u})
      <4>1. u \in removed \ pending
        BY <2>1, <3>2
      <4>2. SUFFICES ASSUME FitsWithout((removed \ {v}) \ {u}, n) PROVE FALSE
        BY <3>2
      <4>3. /\ few \subseteq some /\ some \subseteq many /\ many \subseteq scheduledPods
            /\ scheduledPods \in SUBSET Pod
        BY DEF TypeOK
      <4>4. \A p \in many \ few : p.node = n
        BY <2>4, Outranked
      <4>5. Current \in Pod /\ cluster \in Clusters /\ pvcStore \in SUBSET PVC /\ n \in Node
        BY <2>2, CurrentType DEF TypeOK
      <4>6. /\ FitsOnNode(View(cluster, pvcStore, few), Current, n)
            /\ FitsOnNode(View(cluster, pvcStore, many), Current, n)
        BY <2>4, <4>2 DEF FitsWithout, Trial
      <4>7. FitsOnNode(View(cluster, pvcStore, some), Current, n)
        <5> HIDE DEF few, some, many
        <5> QED
          BY <4>3, <4>4, <4>5, <4>6 DEF Convex, ConvexOn
      <4> QED
        BY <2>4, <4>1, <4>7 DEF FitsWithout, Trial
    <3> QED
      BY <2>1, <3>1, <3>2 DEF FitsWithout
  <2>6. \A m \in todo' : First(m, todo') => m = n
    BY <2>1, <2>2, FirstUnique DEF TypeOK
  <2>7. \A u : FitsWithout(removed \ {u}, n)' <=> FitsWithout(removed' \ {u}, n)
    BY <2>2, <2>3 DEF FitsWithout, Trial
  <2> QED
    BY <2>5, <2>6, <2>7 DEF VictimsNeeded
<1>4. CASE NextNode
  BY <1>4, <1>1 DEF NextNode
<1>5. CASE StartPreemption \/ AbandonPreemption \/ PreemptReplica
  BY <1>5, <1>1 DEF StartPreemption, AbandonPreemption, PreemptReplica, Commit
<1>6. CASE ProbeWorkload \/ RejectWorkload \/ ReportWorkload \/ Finish
  BY <1>6, <1>1 DEF ProbeWorkload, RejectWorkload, ReportWorkload, Finish
<1>7. CASE PlaceReplica \/ GiveUp
  BY <1>7, <1>1 DEF PlaceReplica, Commit, GiveUp
<1>8. CASE UNCHANGED vars
  <2>1. UNCHANGED <<cluster, batch, wi, ordinal, pvcStore, scheduledPods, todo, removed, pending, pc>>
    BY <1>8 DEF vars, search
  <2>2. Current' = Current
    BY <2>1 DEF Current, W
  <2> QED
    BY <2>1, <2>2 DEF VictimsNeeded, FitsWithout, Trial
<1> QED
  BY <1>2, <1>3, <1>4, <1>5, <1>6, <1>7, <1>8 DEF Next

\* With convex filters every victim that is not put back is needed.
THEOREM EveryVictimNeeded ==
  ASSUME Convex
  PROVE  Spec => []VictimsNeeded
<1>1. Init => VictimsNeeded
  BY DEF Init, VictimsNeeded
<1>2. TypeOK /\ IsFiniteSet(scheduledPods) /\ SearchSound /\ VictimsNeeded /\ [Next]_vars
        => VictimsNeeded'
  BY NeededNext
<1>3. Init => IsFiniteSet(scheduledPods)
  BY InitialFinite DEF Init
<1> QED
  BY <1>1, <1>2, <1>3, FiniteNext, TypeCorrect, SearchIsSound, PTL DEF Spec

LEMMA MinimalStep ==
  TypeOK /\ CreditInv /\ SearchSound /\ VictimsNeeded /\ [Next]_vars
    => LET victims == scheduledPods \ scheduledPods'
       IN  victims # {} =>
             \E p \in simulated' \ simulated :
               LET pod == [p EXCEPT !.node = NoNode]
               IN  /\ Accepting(Trial(scheduledPods), pod) = {}
                   /\ FitsOnNode(Trial(scheduledPods \ victims), pod, p.node)
                   /\ \A v \in victims :
                        /\ v.node = p.node
                        /\ ~FitsOnNode(Trial(scheduledPods \ (victims \ {v})), pod, p.node)
<1> DEFINE victims == scheduledPods \ scheduledPods'
<1> SUFFICES ASSUME TypeOK, CreditInv, SearchSound, VictimsNeeded, [Next]_vars, victims # {}
             PROVE  \E p \in simulated' \ simulated :
                      LET pod == [p EXCEPT !.node = NoNode]
                      IN  /\ Accepting(Trial(scheduledPods), pod) = {}
                          /\ FitsOnNode(Trial(scheduledPods \ victims), pod, p.node)
                          /\ \A v \in victims :
                               /\ v.node = p.node
                               /\ ~FitsOnNode(Trial(scheduledPods \ (victims \ {v})), pod, p.node)
  OBVIOUS
<1> USE DEF inputs, outcome, progress, ledger
<1>1. PreemptReplica
  <2>1. CASE PlaceReplica
    BY <2>1 DEF PlaceReplica, Commit
  <2>2. CASE UNCHANGED scheduledPods
    BY <2>2
  <2> QED
    BY <2>1, <2>2 DEF Next, vars, ProbeWorkload, RejectWorkload, GiveUp, StartPreemption,
          RemoveVictim, NextNode, AbandonPreemption, Reprieve, ReportWorkload, Finish
<1>2. PICK n \in todo : /\ First(n, todo) /\ Commit(Current, n, removed, TRUE) /\ n \in Node
                        /\ removed \subseteq Victims(n) /\ FitsWithout(removed, n)
  BY <1>1, Victorious
<1> DEFINE placed == [Current EXCEPT !.node = n]
<1>3. placed \in simulated' /\ placed \notin simulated
  <2>1. pc = "minimize" /\ wi' = wi
    BY <1>1 DEF PreemptReplica
  <2>2. placed \notin simulated
    BY <1>2, <2>1, Committed
  <2> QED
    BY <1>2, <2>2 DEF Commit
<1>4. placed.node = n /\ [placed EXCEPT !.node = NoNode] = Current /\ placed.prio = Current.prio
  <2>1. Current \in Pod
    BY <1>1, CurrentType DEF PreemptReplica, Searching
  <2>2. Current.node = NoNode
    BY DEF Current, Replica
  <2>3. \A p \in Pod : p.node = NoNode =>
          LET q == [p EXCEPT !.node = n]
          IN  q.node = n /\ [q EXCEPT !.node = NoNode] = p /\ q.prio = p.prio
    BY DEF Pod
  <2> QED
    BY <2>1, <2>2, <2>3
<1>5. victims = removed
  <2>1. scheduledPods' = (scheduledPods \ removed) \cup {placed}
    BY <1>2 DEF Commit
  <2>2. removed \subseteq scheduledPods
    BY DEF TypeOK
  <2>3. placed \notin removed
    <3>1. Current.prio \in Int
      BY <1>1, CurrentType DEF PreemptReplica, Searching, Pod
    <3> HIDE DEF placed
    <3>2. \A v \in removed : v.prio < Current.prio
      BY <1>2, Outranked
    <3> QED
      BY <1>4, <3>1, <3>2
  <2> QED
    BY <2>1, <2>2, <2>3
<1>6. Accepting(Trial(scheduledPods), Current) = {}
  BY <1>1 DEF PreemptReplica, SearchSound, Searching
<1>7. \A v \in removed : v.node = n /\ ~FitsWithout(removed \ {v}, n)
  BY <1>1, <1>2, Outranked DEF PreemptReplica, VictimsNeeded
<1>8. /\ Accepting(Trial(scheduledPods), Current) = {}
      /\ FitsOnNode(Trial(scheduledPods \ victims), Current, n)
      /\ \A v \in victims :
           /\ v.node = n
           /\ ~FitsOnNode(Trial(scheduledPods \ (victims \ {v})), Current, n)
  BY <1>2, <1>5, <1>6, <1>7 DEF FitsWithout
<1> HIDE DEF placed, victims
<1> QED
  BY <1>3, <1>4, <1>8

\* With convex filters an eviction removes a set of pods of one node, for a
\* replica that fits nowhere else, and not one pod more than it takes.
THEOREM EvictionsMinimal ==
  ASSUME Convex
  PROVE  Spec => MinimalEviction
<1>1. Init => VerdictInv /\ CreditInv /\ ReplicasStand
  BY CreditInit
<1>2. Spec => []VictimsNeeded
  BY EveryVictimNeeded
<1> QED
  BY <1>1, <1>2, TypeCorrect, SearchIsSound, VerdictNext, CreditNext, MinimalStep, PTL
     DEF Spec, MinimalEviction
-----------------------------------------------------------------------------
(* Every loop of Run gets closer to its end.                               *)

\* Of a finite set, what loses an element loses one of its number.
LEMMA OneLess ==
  ASSUME NEW S, IsFiniteSet(S), NEW T \in SUBSET S, T # S
  PROVE  Cardinality(T) \in Nat /\ Cardinality(S) \in Nat /\ Cardinality(T) < Cardinality(S)
<1>1. /\ IsFiniteSet(T) /\ Cardinality(T) <= Cardinality(S)
      /\ Cardinality(T) = Cardinality(S) => S = T
  BY FS_Subset
<1>2. Cardinality(T) \in Nat /\ Cardinality(S) \in Nat
  BY <1>1, FS_CardinalityType
<1> QED
  BY <1>1, <1>2

Looping(at) == at \in {"place", "remove", "minimize"}

\* What is left, place by place, before and after a step.
LEMMA LeftIs ==
  /\ DOMAIN Left = 1 .. 6
  /\ Left[1] = Len(batch) + 1 - wi
  /\ Left[2] = IF pc = "probe" THEN 3 ELSE IF Looping(pc) THEN 2 ELSE IF pc = "report" THEN 1 ELSE 0
  /\ Left[3] = IF Looping(pc) THEN W.replicas - ordinal ELSE 0
  /\ Left[4] = IF pc = "place" THEN 2 ELSE IF pc = "remove" THEN 1 ELSE 0
  /\ Left[5] = Cardinality(todo)
  /\ Left[6] = IF pc = "remove" THEN Cardinality(scheduledPods \ removed) ELSE Cardinality(pending)
BY DEF Left, Looping

LEMMA LeftThen ==
  /\ Left[1]' = Len(batch') + 1 - wi'
  /\ Left[2]' = IF pc' = "probe" THEN 3 ELSE IF Looping(pc') THEN 2 ELSE IF pc' = "report" THEN 1 ELSE 0
  /\ Left[3]' = IF Looping(pc') THEN W'.replicas - ordinal' ELSE 0
  /\ Left[4]' = IF pc' = "place" THEN 2 ELSE IF pc' = "remove" THEN 1 ELSE 0
  /\ Left[5]' = Cardinality(todo')
  /\ Left[6]' = IF pc' = "remove" THEN Cardinality(scheduledPods' \ removed') ELSE Cardinality(pending')
BY DEF Left, Looping

Closer ==
  \E i \in DOMAIN Left : /\ Left[i]' \in Nat /\ Left[i]' < Left[i]
                         /\ \A j \in 1 .. i - 1 : Left[j]' = Left[j]

\* The first place that changes is the i-th, and it goes down.
LEMMA CloserAt ==
  ASSUME NEW i \in 1 .. 6, Left[i]' \in Nat, Left[i]' < Left[i],
         \A j \in 1 .. i - 1 : Left[j]' = Left[j]
  PROVE  Closer
BY LeftIs DEF Closer

LEMMA CloserNext == TypeOK /\ IsFiniteSet(scheduledPods) /\ [Next]_vars => Closer \/ UNCHANGED vars
<1> SUFFICES ASSUME TypeOK, IsFiniteSet(scheduledPods), Next PROVE Closer
  OBVIOUS
<1>1. wi \in Nat /\ Len(batch) \in Nat /\ ordinal \in Nat
  BY BatchesAssumption DEF TypeOK
<1>2. \A i \in 1 .. 6 : i = 1 \/ i = 2 \/ i = 3 \/ i = 4 \/ i = 5 \/ i = 6
  OBVIOUS
<1>3. CASE ProbeWorkload \/ RejectWorkload \/ Finish
  <2>1. UNCHANGED <<batch, wi>> /\ pc = "probe" /\ pc' \in {"place", "error", "done"}
    BY <1>3 DEF ProbeWorkload, RejectWorkload, Finish, inputs, progress
  <2>2. Left[1]' = Left[1] /\ Left[2]' \in Nat /\ Left[2]' < Left[2]
    BY <2>1, LeftIs, LeftThen DEF Looping
  <2> QED
    BY <2>2, CloserAt
<1>4. CASE GiveUp \/ AbandonPreemption
  <2>1. UNCHANGED <<batch, wi>> /\ pc \in {"place", "remove"} /\ pc' = "report"
    BY <1>4 DEF GiveUp, AbandonPreemption, Attempting, inputs, progress
  <2>2. Left[1]' = Left[1] /\ Left[2]' \in Nat /\ Left[2]' < Left[2]
    BY <2>1, LeftIs, LeftThen DEF Looping
  <2> QED
    BY <2>2, CloserAt
<1>5. CASE PlaceReplica \/ PreemptReplica
  <2>1. /\ UNCHANGED <<batch, wi>> /\ pc \in {"place", "minimize"} /\ pc' = "place"
        /\ ordinal' = ordinal + 1 /\ wi <= Len(batch) /\ ordinal < W.replicas
    BY <1>5 DEF PlaceReplica, PreemptReplica, Commit, Attempting, inputs, TypeOK
  <2>2. W' = W /\ W.replicas \in Nat
    BY <2>1, CurrentWorkload DEF W, IsWorkload
  <2>3. /\ Left[1]' = Left[1] /\ Left[2]' = Left[2]
        /\ Left[3]' \in Nat /\ Left[3]' < Left[3]
    BY <1>1, <2>1, <2>2, LeftIs, LeftThen DEF Looping
  <2> QED
    BY <2>3, CloserAt
<1>6. CASE StartPreemption \/ RemoveVictim \/ NextNode \/ Reprieve
  <2>1. /\ UNCHANGED <<batch, wi, ordinal, scheduledPods>>
        /\ pc \in {"place", "remove", "minimize"} /\ pc' \in {"place", "remove", "minimize"}
    BY <1>6 DEF StartPreemption, RemoveVictim, NextNode, Reprieve, Attempting, inputs, progress,
                ledger
  <2>2. W' = W
    BY <2>1 DEF W
  <2>3. Left[1]' = Left[1] /\ Left[2]' = Left[2] /\ Left[3]' = Left[3]
    BY <2>1, <2>2, LeftIs, LeftThen DEF Looping
  <2>4. CASE StartPreemption
    <3>1. pc = "place" /\ pc' = "remove"
      BY <2>4 DEF StartPreemption, Attempting
    <3>2. Left[4]' \in Nat /\ Left[4]' < Left[4]
      BY <3>1, LeftIs, LeftThen DEF Looping
    <3> QED
      BY <2>3, <3>2, CloserAt
  <2>5. CASE RemoveVictim
    <3>1. PICK n \in todo, v \in scheduledPods :
            /\ Lowest(v, Candidates(scheduledPods, simulated, Current, n) \ removed)
            /\ removed' = removed \cup {v} /\ todo' = todo /\ pc = "remove"
            /\ pc' \in {"remove", "minimize"}
      BY <2>5 DEF RemoveVictim
    <3>2. CASE pc' = "minimize"
      <4>1. Left[4]' \in Nat /\ Left[4]' < Left[4]
        BY <3>1, <3>2, LeftIs, LeftThen DEF Looping
      <4> QED
        BY <2>3, <4>1, CloserAt
    <3>3. CASE pc' = "remove"
      <4>1. Left[4]' = Left[4] /\ Left[5]' = Left[5]
        BY <3>1, <3>3, LeftIs, LeftThen DEF Looping
      <4>2. v \notin removed
        BY <3>1 DEF Lowest
      <4>3. IsFiniteSet(scheduledPods \ removed)
        BY FS_Subset
      <4>4. /\ Cardinality(scheduledPods \ removed') \in Nat
            /\ Cardinality(scheduledPods \ removed') < Cardinality(scheduledPods \ removed)
        BY <3>1, <4>2, <4>3, OneLess
      <4>5. Left[6]' \in Nat /\ Left[6]' < Left[6]
        BY <2>1, <3>1, <3>3, <4>4, LeftIs, LeftThen DEF Looping
      <4> QED
        BY <2>3, <4>1, <4>5, CloserAt
    <3> QED
      BY <3>1, <3>2, <3>3
  <2>6. CASE NextNode
    <3>1. PICK n \in todo : todo' = todo \ {n} /\ pc = "remove" /\ pc' = "remove"
      BY <2>6 DEF NextNode
    <3>2. IsFiniteSet(todo)
      <4>1. IsFiniteSet(Node)
        BY NodesAssumption, FS_Interval DEF Node
      <4> QED
        BY <4>1, FS_Subset DEF TypeOK
    <3>3. Left[4]' = Left[4] /\ Left[5]' \in Nat /\ Left[5]' < Left[5]
      BY <3>1, <3>2, OneLess, LeftIs, LeftThen DEF Looping
    <3> QED
      BY <2>3, <3>3, CloserAt
  <2>7. CASE Reprieve
    <3>1. PICK v \in pending : /\ pending' = pending \ {v} /\ todo' = todo
                               /\ pc = "minimize" /\ pc' = "minimize"
      BY <2>7 DEF Reprieve
    <3>2. IsFiniteSet(pending)
      BY FS_Subset DEF TypeOK
    <3>3. Cardinality(pending') \in Nat /\ Cardinality(pending') < Cardinality(pending)
      BY <3>1, <3>2, OneLess
    <3>4. Left[4]' = Left[4] /\ Left[5]' = Left[5] /\ Left[6]' \in Nat /\ Left[6]' < Left[6]
      BY <3>1, <3>3, LeftIs, LeftThen DEF Looping
    <3> QED
      BY <2>3, <3>4, CloserAt
  <2> QED
    BY <1>6, <2>4, <2>5, <2>6, <2>7
<1>7. CASE ReportWorkload
  <2>1. /\ wi' = wi + 1 /\ UNCHANGED batch /\ wi <= Len(batch)
    BY <1>7 DEF ReportWorkload, inputs, TypeOK
  <2>2. Left[1]' \in Nat /\ Left[1]' < Left[1]
    BY <1>1, <2>1, LeftIs, LeftThen DEF Looping
  <2> QED
    BY <2>2, CloserAt
<1> QED
  BY <1>3, <1>4, <1>5, <1>6, <1>7 DEF Next

\* Every step of Run leaves less to do, whatever the filters answer and however many
\* workloads, nodes and pods there are: no run is infinite (Run, tryPreemption).
THEOREM RunGetsCloser == Spec => AlwaysCloser
<1> DEFINE Inv == TypeOK /\ IsFiniteSet(scheduledPods)
<1>1. Init => Inv
  BY TypeInit, InitialFinite DEF Init
<1>2. Inv /\ [Next]_vars => Inv'
  BY TypeNext, FiniteNext
<1>3. Inv /\ [Next]_vars => [Closer]_vars
  BY CloserNext
<1> QED
  BY <1>1, <1>2, <1>3, PTL DEF Spec, AlwaysCloser, Closer
===============================================================================
