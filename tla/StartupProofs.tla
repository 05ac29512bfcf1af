---------------------------- MODULE StartupProofs ----------------------------
(***************************************************************************)
(* What New has when it returns, for any cluster, any changes in it and    *)
(* any interrupt.                                                          *)
(***************************************************************************)
EXTENDS Startup, TLAPS

Clustered == NodeJoins \/ NodeLeaves \/ PodStarts \/ PodEnds

\* The steps of New that do not look at nodes or pods.
Elsewhere ==
  /\ UNCHANGED <<nodes, where, served, started, nodeList, podList, settled, changes>>
  /\ \/ UNCHANGED synced \/ \E i \in (started \cap served) \ synced : synced' = synced \cup {i}
  /\ \/ UNCHANGED <<pc, cancelled>>
     \/ pc = "framework" /\ pc' = "nodes" /\ UNCHANGED cancelled
     \/ pc = "sync" /\ pc' = "classes" /\ started \subseteq synced /\ UNCHANGED <<cancelled, synced>>
     \/ pc = "classes" /\ pc' = "storage" /\ UNCHANGED <<cancelled, synced>>
     \/ pc = "storage" /\ pc' = "ready" /\ UNCHANGED <<cancelled, synced>>
     \/ pc' = "failed" /\ UNCHANGED cancelled
     \/ cancelled' = TRUE /\ UNCHANGED pc

LEMMA StartupSteps ==
  ASSUME [Next]_vars
  PROVE  Clustered \/ ListNodes \/ ListScheduledPods \/ StartInformers \/ Elsewhere
<1> USE DEF caches, lists, world
<1>1. CASE BuildFramework \/ WaitForCacheSync \/ ListPriorityClasses \/ DefaultStorageClassName
  BY <1>1 DEF BuildFramework, WaitForCacheSync, ListPriorityClasses, DefaultStorageClassName,
     Call, Request, After, Elsewhere
<1>2. CASE Fail \/ Interrupt
  BY <1>2 DEF Fail, Interrupt, Elsewhere
<1>3. ASSUME NEW i \in Informer, InformerSyncs(i) PROVE Elsewhere
  BY <1>3 DEF InformerSyncs, Elsewhere
<1>4. CASE UNCHANGED vars
  BY <1>4 DEF vars, Elsewhere
<1> QED
  BY <1>1, <1>2, <1>3, <1>4 DEF Next, New, Cluster, Clustered

LEMMA ClusterSteps ==
  ASSUME TypeOK, Clustered
  PROVE  /\ nodes' \in SUBSET NodeName /\ where' \in [PodName -> NodeName \cup {None}]
         /\ changes' \in 0 .. MaxChanges
         /\ settled' = {s \in settled : where'[s.pod] = s.node /\ s.node \in nodes'}
         /\ UNCHANGED <<served, pc, cancelled, started, synced, nodeList, podList>>
<1>1. Changed
  BY DEF Clustered, NodeJoins, NodeLeaves, PodStarts, PodEnds
<1>2. nodes' \in SUBSET NodeName /\ where' \in [PodName -> NodeName \cup {None}]
  BY DEF Clustered, NodeJoins, NodeLeaves, PodStarts, PodEnds, TypeOK
<1>3. changes' \in 0 .. MaxChanges
  BY <1>1, ChangesAreCounted DEF Changed, TypeOK
<1> QED
  BY <1>1, <1>2, <1>3 DEF Changed, caches, lists

LEMMA ScheduledType ==
  ASSUME TypeOK
  PROVE  /\ Scheduled \in UNION {[P -> NodeName] : P \in SUBSET PodName}
         /\ DOMAIN Scheduled = {q \in PodName : where[q] # None}
         /\ \A p \in DOMAIN Scheduled : Scheduled[p] = where[p]
<1> DEFINE P == {q \in PodName : where[q] # None}
<1>1. Scheduled \in [P -> NodeName]
  BY DEF Scheduled, TypeOK
<1>2. P \in SUBSET PodName
  OBVIOUS
<1> QED
  BY <1>1, <1>2 DEF Scheduled

LEMMA StartupTypeNext == TypeOK /\ [Next]_vars => TypeOK'
<1> SUFFICES ASSUME TypeOK, [Next]_vars PROVE TypeOK'
  OBVIOUS
<1> USE DEF caches, lists, world
<1>1. CASE Clustered
  BY <1>1, ClusterSteps DEF TypeOK
<1>2. CASE ListNodes
  BY <1>2 DEF ListNodes, Request, Call, After, TypeOK
<1>3. CASE ListScheduledPods
  BY <1>3, ScheduledType DEF ListScheduledPods, Request, Call, After, TypeOK
<1>4. CASE StartInformers
  BY <1>4 DEF StartInformers, Call, After, TypeOK
<1>5. CASE Elsewhere
  BY <1>5 DEF Elsewhere, After, TypeOK
<1> QED
  BY <1>1, <1>2, <1>3, <1>4, <1>5, StartupSteps

\* Types, through every change of the cluster.
THEOREM StartupTypeCorrect == Spec => []TypeOK
<1>1. Init => TypeOK
  <2> SUFFICES ASSUME Init PROVE TypeOK
    OBVIOUS
  <2>1. podList \in [{} -> NodeName]
    BY DEF Init
  <2>2. podList \in UNION {[P -> NodeName] : P \in SUBSET PodName}
    BY <2>1
  <2>3. where \in [PodName -> NodeName \cup {None}]
    BY DEF Init
  <2>4. changes \in 0 .. MaxChanges
    BY ChangesAreCounted DEF Init
  <2>5. pc \in DOMAIN After \cup {"ready", "failed"}
    BY DEF Init, After
  <2> QED
    BY <2>2, <2>3, <2>4, <2>5 DEF Init, TypeOK
<1> QED
  BY <1>1, StartupTypeNext, PTL DEF Spec
-----------------------------------------------------------------------------
\* From the start of the informers on, all are started.
FilledInv == (pc \in {"sync", "classes", "storage", "ready"} => started = Informer) /\ CachesFilled

\* No plugin reads a cache without its first list.
THEOREM NoEmptyCache == Spec => []CachesFilled
<1>1. Init => FilledInv
  BY DEF Init, FilledInv, CachesFilled
<1>2. TypeOK /\ FilledInv /\ [Next]_vars => FilledInv'
  <2> SUFFICES ASSUME TypeOK, FilledInv, [Next]_vars PROVE FilledInv'
    OBVIOUS
  <2> USE DEF FilledInv, CachesFilled, caches, lists, world
  <2>1. CASE Clustered
    BY <2>1, ClusterSteps
  <2>2. CASE ListNodes \/ ListScheduledPods \/ StartInformers
    BY <2>2 DEF ListNodes, ListScheduledPods, StartInformers, Request, Call, After
  <2>3. CASE Elsewhere
    BY <2>3 DEF Elsewhere, TypeOK
  <2> QED
    BY <2>1, <2>2, <2>3, StartupSteps
<1>3. FilledInv => CachesFilled
  BY DEF FilledInv
<1> QED
  BY <1>1, <1>2, <1>3, StartupTypeCorrect, PTL DEF Spec
-----------------------------------------------------------------------------
\* Who has settled is where he was when his node was listed.
SettledInv ==
  /\ \A s \in settled : s.node \in nodes /\ s.node \in nodeList /\ where[s.pod] = s.node
  /\ ResidentsCounted

\* A pod that stays on a node from the listing of the nodes on is in the snapshot.
THEOREM NoResidentLost == Spec => []ResidentsCounted
<1>1. Init => SettledInv
  BY DEF Init, SettledInv, ResidentsCounted
<1>2. TypeOK /\ SettledInv /\ [Next]_vars => SettledInv'
  <2> SUFFICES ASSUME TypeOK, SettledInv, [Next]_vars PROVE SettledInv'
    OBVIOUS
  <2> USE DEF SettledInv, ResidentsCounted, caches, lists, world
  <2>1. CASE Clustered
    BY <2>1, ClusterSteps
  <2>2. CASE ListNodes
    BY <2>2 DEF ListNodes, Request, Call, After
  <2>3. CASE ListScheduledPods
    <3>1. \A s \in settled : s.pod \in PodName /\ s.node # None
      BY NoneIsNoNode DEF TypeOK
    <3>2. UNCHANGED <<nodes, where, nodeList, settled>> /\ podList' = Scheduled
      BY <2>3 DEF ListScheduledPods, Request, Call
    <3>3. \A s \in settled : s.pod \in DOMAIN Scheduled /\ Scheduled[s.pod] = s.node
      BY <3>1, ScheduledType
    <3> QED
      BY <3>2, <3>3
  <2>4. CASE StartInformers
    BY <2>4 DEF StartInformers, Call, After
  <2>5. CASE Elsewhere
    BY <2>5 DEF Elsewhere
  <2> QED
    BY <2>1, <2>2, <2>3, <2>4, <2>5, StartupSteps
<1>3. SettledInv => ResidentsCounted
  BY DEF SettledInv
<1> QED
  BY <1>1, <1>2, <1>3, StartupTypeCorrect, PTL DEF Spec
===============================================================================
