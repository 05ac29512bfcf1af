----------------------------- MODULE FilterProofs -----------------------------
(***************************************************************************)
(* What the theorems about the simulator assume of the filters holds of    *)
(* KubeFilters: a pod that fits has room, and what fits with few pods and  *)
(* with many on a node fits in between.  With these filters, the reasons   *)
(* shown are right and the replicas placed keep passing them.              *)
(***************************************************************************)
EXTENDS CapacityProofs, RefinementProofs, KubeFilters, NaturalsInduction, WellFoundedInduction

LEMMA MinIn ==
  ASSUME NEW S \in SUBSET Nat, S # {}
  PROVE  Min(S) \in S
<1>1. PICK x \in S : \A y \in S : x <= y
  <2>1. IsWellFoundedOn(OpToRel(<, Nat), Nat)
    BY NatLessThanWellFounded
  <2>2. PICK x \in S : \A y \in S : ~(<<y, x>> \in OpToRel(<, Nat))
    BY <2>1, WFMin
  <2>3. \A y \in S : ~(y < x)
    BY <2>2 DEF OpToRel
  <2> QED
    BY <2>3
<1> QED
  BY <1>1 DEF Min

\* A node takes a pod if no check says no; else the code is the one of some check
\* that says no, and so is the plugin.
LEMMA FilterSays ==
  ASSUME NEW view, NEW pod, NEW n
  PROVE  LET checks == Checks(view, pod, n)
         IN  \/ /\ KubeFilter(view, pod, n).code = "Success"
                /\ \A i \in 1 .. 7 : ~checks[i].says
             \/ \E i \in 1 .. 7 : /\ checks[i].says
                                  /\ KubeFilter(view, pod, n).code = checks[i].code
                                  /\ KubeFilter(view, pod, n).plugin = checks[i].plugin
<1> DEFINE checks == Checks(view, pod, n)
           saying == {i \in DOMAIN checks : checks[i].says}
<1>1. DOMAIN checks = 1 .. 7
  BY DEF Checks
<1>2. KubeFilter(view, pod, n) =
        IF saying = {} THEN [code |-> "Success", plugin |-> Empty]
        ELSE [code |-> checks[Min(saying)].code, plugin |-> checks[Min(saying)].plugin]
  BY DEF KubeFilter
<1>3. saying # {} => Min(saying) \in saying
  <2>1. saying \in SUBSET Nat
    BY <1>1
  <2> QED
    BY <2>1, MinIn
<1> HIDE DEF checks
<1>4. CASE saying = {}
  BY <1>1, <1>2, <1>4 DEF checks
<1>5. CASE saying # {}
  <2>1. PICK i \in saying : i = Min(saying)
    BY <1>3, <1>5
  <2>2. i \in 1 .. 7 /\ checks[i].says
    BY <1>1, <2>1
  <2>3. KubeFilter(view, pod, n) = [code |-> checks[i].code, plugin |-> checks[i].plugin]
    BY <1>2, <1>5, <2>1
  <2> QED
    BY <2>2, <2>3 DEF checks
<1> QED
  BY <1>4, <1>5

\* The filters are those of the default profile, with every plugin of theirs known.
KubeProfile ==
  /\ \A view, pod : PreFilter(view, pod) = KubePreFilter(view, pod)
  /\ \A view, pod, n : Filter(view, pod, n) = KubeFilter(view, pod, n)
  /\ KubePlugin \subseteq Plugin

Admitted(view, pod, n) ==
  KubePreFilter(view, pod).ok /\ n \in KubePreFilter(view, pod).nodes

\* What does not depend on the pods of the cluster.
Suits(view, pod, n) ==
  /\ Admitted(view, pod, n)
  /\ n \in view.cluster.tainted => pod.spec.tolerates
  /\ n \in pod.spec.selects
  /\ Bindable(view, pod, n)

Clashes(view, pod, n) ==
  PortTaken(view, pod, n) \/ TooBusy(view, pod, n) \/ Lonely(view, pod, n) \/ Repelled(view, pod, n)

LEMMA NobodySays ==
  ASSUME NEW view, NEW pod, NEW n
  PROVE  (\A i \in 1 .. 7 : ~Checks(view, pod, n)[i].says) <=>
           /\ n \in view.cluster.tainted => pod.spec.tolerates
           /\ n \in pod.spec.selects
           /\ Bindable(view, pod, n)
           /\ ~Clashes(view, pod, n)
<1> DEFINE checks == Checks(view, pod, n)
<1>1. /\ checks[1].says <=> n \in view.cluster.tainted /\ ~pod.spec.tolerates
      /\ checks[2].says <=> n \notin pod.spec.selects
      /\ checks[3].says <=> PortTaken(view, pod, n)
      /\ checks[4].says <=> TooBusy(view, pod, n)
      /\ checks[5].says <=> ~Bindable(view, pod, n)
      /\ checks[6].says <=> Lonely(view, pod, n)
      /\ checks[7].says <=> Repelled(view, pod, n)
  BY DEF Checks
<1> HIDE DEF checks
<1>2. (\A i \in 1 .. 7 : ~checks[i].says) <=>
         /\ ~checks[1].says /\ ~checks[2].says /\ ~checks[3].says /\ ~checks[4].says
         /\ ~checks[5].says /\ ~checks[6].says /\ ~checks[7].says
  <2>1. \A i : i \in 1 .. 7 <=> i \in {1, 2, 3, 4, 5, 6, 7}
    OBVIOUS
  <2> QED
    BY <2>1
<1>3. (\A i \in 1 .. 7 : ~checks[i].says) <=>
         /\ n \in view.cluster.tainted => pod.spec.tolerates
         /\ n \in pod.spec.selects
         /\ Bindable(view, pod, n)
         /\ ~Clashes(view, pod, n)
  BY <1>1, <1>2 DEF Clashes
<1> QED
  BY <1>3 DEF checks

LEMMA FitsIf ==
  ASSUME KubeProfile, NEW view, NEW pod, NEW n \in Node
  PROVE  FitsOnNode(view, pod, n) <=> Suits(view, pod, n) /\ ~Clashes(view, pod, n)
<1> DEFINE checks == Checks(view, pod, n)
<1>1. FitsOnNode(view, pod, n) <=>
        Admitted(view, pod, n) /\ KubeFilter(view, pod, n).code = "Success"
  BY DEF KubeProfile, FitsOnNode, Accepting, Admitted
<1>2. \A i \in 1 .. 7 : checks[i].code # "Success"
  BY DEF Checks
<1>3. \/ KubeFilter(view, pod, n).code = "Success" /\ \A i \in 1 .. 7 : ~checks[i].says
      \/ \E i \in 1 .. 7 : checks[i].says /\ KubeFilter(view, pod, n).code = checks[i].code
  BY FilterSays
<1> HIDE DEF checks
<1>4. KubeFilter(view, pod, n).code = "Success" <=> \A i \in 1 .. 7 : ~checks[i].says
  BY <1>2, <1>3
<1>5. (\A i \in 1 .. 7 : ~checks[i].says) <=>
         /\ n \in view.cluster.tainted => pod.spec.tolerates
         /\ n \in pod.spec.selects
         /\ Bindable(view, pod, n)
         /\ ~Clashes(view, pod, n)
  BY NobodySays DEF checks
<1> QED
  BY <1>1, <1>4, <1>5 DEF Suits

\* In the default profile a pod that fits finds room for everything it asks for.
THEOREM KubeRespectsCapacity ==
  ASSUME KubeProfile
  PROVE  RespectsCapacity
<1> SUFFICES ASSUME NEW c \in Clusters, NEW pvcs \in SUBSET PVC, NEW pods \in SUBSET Pod,
                    IsFiniteSet(pods), NEW pod \in Pod, NEW n \in Node,
                    FitsOnNode(View(c, pvcs, pods), pod, n), NEW r \in Resource
             PROVE  \/ Demand(pod.spec, r) = 0
                    \/ UsedBy(At(pods, n), r) + Demand(pod.spec, r) <= c.alloc[n][r]
  BY DEF RespectsCapacity, Room
<1> DEFINE view == View(c, pvcs, pods)
<1>1. ~TooBusy(view, pod, n)
  BY FitsIf DEF Clashes
<1>2. view.cluster = c /\ On(view, n) = At(pods, n)
  BY DEF View, On, At
<1>3. \A q \in Asks(pod) : ~(pod.spec.req[q] > c.alloc[n][q] - UsedBy(At(pods, n), q))
  BY <1>1, <1>2 DEF TooBusy, Free
<1>4. CASE r \in DOMAIN pod.spec.req /\ pod.spec.req[r] > 0
  <2>1. r \in Asks(pod) /\ Demand(pod.spec, r) = pod.spec.req[r]
    BY <1>4 DEF Asks, Demand
  <2>2. ~(Demand(pod.spec, r) > c.alloc[n][r] - UsedBy(At(pods, n), r))
    BY <1>3, <2>1
  <2>3. Demand(pod.spec, r) \in Nat /\ UsedBy(At(pods, n), r) \in Nat /\ c.alloc[n][r] \in Nat
    BY DemandNat, AtFinite, UsedNat, ClustersAssumption DEF IsCluster
  <2> QED
    BY <2>2, <2>3
<1>5. CASE ~(r \in DOMAIN pod.spec.req /\ pod.spec.req[r] > 0)
  <2>1. Demand(pod.spec, r) \in Nat
    BY DemandNat
  <2> QED
    BY <1>5, <2>1 DEF Demand
<1> QED
  BY <1>4, <1>5
-----------------------------------------------------------------------------
(* Fewer pods, fewer clashes.                                              *)

\* What suits a pod does not depend on the pods of the cluster.
LEMMA SuitsWhoever ==
  ASSUME NEW c, NEW pvcs, NEW few, NEW many, NEW pod, NEW n
  PROVE  Suits(View(c, pvcs, few), pod, n) <=> Suits(View(c, pvcs, many), pod, n)
<1> DEFINE v == View(c, pvcs, few)  w == View(c, pvcs, many)
<1>1. v.cluster = w.cluster /\ v.pvcs = w.pvcs
  BY DEF View
<1> HIDE DEF v, w
<1>2. PVCsOf(v, pod) = PVCsOf(w, pod)
  BY <1>1 DEF PVCsOf
<1>3. KubePreFilter(v, pod) = KubePreFilter(w, pod)
  BY <1>1, <1>2 DEF KubePreFilter, Immediate
<1>4. Bindable(v, pod, n) <=> Bindable(w, pod, n)
  BY <1>1, <1>2 DEF Bindable
<1>5. Suits(v, pod, n) <=> Suits(w, pod, n)
  BY <1>1, <1>3, <1>4 DEF Suits, Admitted
<1> QED
  BY <1>5 DEF v, w

\* Ports, resources and pods that repel each other: with fewer pods on the node and
\* anywhere else there is nothing new to clash with.
LEMMA FewerClashes ==
  ASSUME NEW c, c.alloc \in [Node -> [Resource -> Nat]], NEW pvcs,
         NEW many \in SUBSET Pod, IsFiniteSet(many), NEW few \in SUBSET many,
         NEW pod \in Pod, NEW n \in Node
  PROVE  /\ PortTaken(View(c, pvcs, few), pod, n) => PortTaken(View(c, pvcs, many), pod, n)
         /\ TooBusy(View(c, pvcs, few), pod, n) => TooBusy(View(c, pvcs, many), pod, n)
         /\ Repelled(View(c, pvcs, few), pod, n) => Repelled(View(c, pvcs, many), pod, n)
<1> DEFINE v == View(c, pvcs, few)  w == View(c, pvcs, many)
<1>1. /\ v.cluster = c /\ w.cluster = c
      /\ On(v, n) = At(few, n) /\ On(w, n) = At(many, n)
      /\ At(few, n) \subseteq At(many, n)
      /\ Seen(v) \subseteq Seen(w)
  BY DEF View, On, At, Seen
<1> HIDE DEF v, w
<1>2. PortTaken(v, pod, n) => PortTaken(w, pod, n)
  BY <1>1 DEF PortTaken
<1>3. Repelled(v, pod, n) => Repelled(w, pod, n)
  BY <1>1 DEF Repelled
<1>4. ASSUME TooBusy(v, pod, n) PROVE TooBusy(w, pod, n)
  <2>1. PICK r \in Asks(pod) : pod.spec.req[r] > c.alloc[n][r] - UsedBy(At(few, n), r)
    BY <1>1, <1>4 DEF TooBusy, Free
  <2>2. pod.spec.req[r] \in Nat /\ c.alloc[n][r] \in Nat
    BY TemplateAssumption DEF Asks, Pod
  <2>3. At(many, n) \in SUBSET Pod /\ IsFiniteSet(At(many, n))
    BY AtFinite
  <2>4. UsedBy(At(few, n), r) <= UsedBy(At(many, n), r)
    BY <1>1, <2>3, UsedSubset
  <2>5. UsedBy(At(few, n), r) \in Nat /\ UsedBy(At(many, n), r) \in Nat
    <3>1. At(few, n) \in SUBSET Pod /\ IsFiniteSet(At(few, n))
      BY <1>1, <2>3, FS_Subset
    <3> QED
      BY <2>3, <3>1, UsedNat
  <2>6. pod.spec.req[r] > c.alloc[n][r] - UsedBy(At(many, n), r)
    BY <2>1, <2>2, <2>4, <2>5
  <2> QED
    BY <1>1, <2>6 DEF TooBusy, Free
<1> QED
  BY <1>2, <1>3, <1>4 DEF v, w

\* The one filter that wants company: a pod lonely among some pods is lonely with
\* fewer or with more, if those who make the difference are all on the node.
LEMMA LonelyBetween ==
  ASSUME NEW c, DOMAIN c.alloc = Node, NEW pvcs, NEW many, NEW some \in SUBSET many, NEW few \in SUBSET some,
         NEW pod, NEW n \in Node, \A p \in many \ few : p.node = n,
         Lonely(View(c, pvcs, some), pod, n)
  PROVE  Lonely(View(c, pvcs, few), pod, n) \/ Lonely(View(c, pvcs, many), pod, n)
<1> DEFINE seen(pods) == IF c.cancelled THEN {} ELSE {p \in pods : p.node \in Node}
           Friendly(p) == p.spec.label = pod.spec.needs
           lonely(pods) == /\ pod.spec.needs # Empty
                           /\ \A p \in seen(pods) : p.node = n => ~Friendly(p)
                           /\ ~ ((\A p \in seen(pods) : ~Friendly(p)) /\ pod.spec.label = pod.spec.needs)
<1>1. ASSUME NEW pods
      PROVE  Lonely(View(c, pvcs, pods), pod, n) <=> lonely(pods)
  <2> DEFINE v == View(c, pvcs, pods)
  <2>1. Seen(v) = seen(pods) /\ Seen(v) \cap On(v, n) = {p \in seen(pods) : p.node = n}
    BY DEF Seen, View, On
  <2> HIDE DEF v
  <2>2. pod.spec.needs \notin Labels(Seen(v) \cap On(v, n)) <=> \A p \in seen(pods) : p.node = n => ~Friendly(p)
    BY <2>1 DEF Labels
  <2>3. pod.spec.needs \notin Labels(Seen(v)) <=> \A p \in seen(pods) : ~Friendly(p)
    BY <2>1 DEF Labels
  <2>4. Lonely(v, pod, n) <=> lonely(pods)
    BY <2>2, <2>3 DEF Lonely
  <2> QED
    BY <2>4 DEF v
<1>2. /\ seen(few) \subseteq seen(some) /\ seen(some) \subseteq seen(many)
      /\ \A p \in seen(many) \ seen(few) : p.node = n
  OBVIOUS
<1> HIDE DEF seen
<1>3. lonely(some)
  BY <1>1
<1> SUFFICES ASSUME ~lonely(few), ~lonely(many) PROVE FALSE
  BY <1>1
<1>4. /\ \A p \in seen(few) : ~Friendly(p)
      /\ pod.spec.label = pod.spec.needs
  BY <1>2, <1>3
<1>5. PICK p \in seen(some) : Friendly(p)
  BY <1>3, <1>4
<1>6. p.node = n
  BY <1>2, <1>4, <1>5
<1> QED
  BY <1>3, <1>5, <1>6

\* The filters of the default profile are convex, so the greedy reprieve leaves a
\* victim set from which nobody can be spared.
THEOREM KubeConvex ==
  ASSUME KubeProfile
  PROVE  Convex
<1> SUFFICES ASSUME NEW c \in Clusters, NEW pvcs \in SUBSET PVC, NEW pod \in Pod, NEW n \in Node,
                    NEW pods \in SUBSET Pod, IsFiniteSet(pods),
                    NEW many \in SUBSET pods, NEW some \in SUBSET many, NEW few \in SUBSET some,
                    \A p \in many \ few : p.node = n,
                    FitsOnNode(View(c, pvcs, few), pod, n), FitsOnNode(View(c, pvcs, many), pod, n)
             PROVE  FitsOnNode(View(c, pvcs, some), pod, n)
  BY DEF Convex, ConvexOn
<1>1. c.alloc \in [Node -> [Resource -> Nat]]
  BY ClustersAssumption DEF IsCluster
<1>2. /\ Suits(View(c, pvcs, many), pod, n) /\ ~Clashes(View(c, pvcs, many), pod, n)
      /\ ~Clashes(View(c, pvcs, few), pod, n)
  BY FitsIf
<1>3. Suits(View(c, pvcs, some), pod, n)
  BY <1>2, SuitsWhoever
<1>4. many \in SUBSET Pod /\ IsFiniteSet(many)
  BY FS_Subset
<1>5. /\ ~PortTaken(View(c, pvcs, some), pod, n)
      /\ ~TooBusy(View(c, pvcs, some), pod, n)
      /\ ~Repelled(View(c, pvcs, some), pod, n)
  BY <1>1, <1>2, <1>4, FewerClashes DEF Clashes
<1>6. ~Lonely(View(c, pvcs, some), pod, n)
  <2>1. DOMAIN c.alloc = Node
    BY <1>1
  <2>2. ~Lonely(View(c, pvcs, few), pod, n) /\ ~Lonely(View(c, pvcs, many), pod, n)
    BY <1>2 DEF Clashes
  <2> QED
    BY <2>1, <2>2, LonelyBetween
<1> QED
  BY <1>3, <1>5, <1>6, FitsIf DEF Clashes
-----------------------------------------------------------------------------
(* Who is blamed.                                                          *)

\* What the replica at hand sees of the ledger.
LedgerCycle == View(cluster, Claims, scheduledPods)

\* As long as no replica of the workload is placed, the reasons that the probe gave
\* are those of the cycle at hand, and the loop stops only if no node accepts.
BlameInv ==
  Working /\ ordinal = 0 =>
    /\ wr.reasons = FilterReasons(LedgerCycle, Current)
    /\ pc # "place" => Accepting(LedgerCycle, Current) = {}

LEMMA BlameNext == TypeOK /\ SnapshotInSync /\ BlameInv /\ [Next]_vars => BlameInv'
<1> SUFFICES ASSUME TypeOK, SnapshotInSync, BlameInv, [Next]_vars PROVE BlameInv'
  OBVIOUS
<1> USE DEF inputs, outcome, progress, ledger
<1>1. CASE ~Working' \/ ordinal' # 0
  BY <1>1 DEF BlameInv
<1>2. CASE ProbeWorkload
  <2>1. /\ ordinal' = 0 /\ pc' = "place" /\ wr'.reasons = FilterReasons(ProbeCycle, Probe)
        /\ UNCHANGED <<cluster, batch, wi, scheduledPods>> /\ snapshot = scheduledPods
        /\ pvcStore' = InjectPVCs(pvcStore, cluster, W, 0)
    BY <1>2 DEF ProbeWorkload, NewResult, ProbeCycle, View, SnapshotInSync
  <2>2. Current' = Probe
    BY <2>1 DEF Current, Probe, W
  <2>3. Claims' = pvcStore'
    <3>1. Claims' = InjectPVCs(pvcStore', cluster, W, 0)
      BY <2>1 DEF Claims, W
    <3> QED
      BY <2>1, <3>1, InjectTwice
  <2>4. LedgerCycle' = ProbeCycle
    BY <2>1, <2>3 DEF LedgerCycle, ProbeCycle
  <2> QED
    BY <2>1, <2>2, <2>4 DEF BlameInv
<1>3. ASSUME UNCHANGED <<cluster, batch, wi, ordinal, wr, scheduledPods>>, Working,
             pvcStore' \in {pvcStore, Claims}
      PROVE  /\ LedgerCycle' = LedgerCycle /\ Current' = Current
             /\ ordinal' = 0 => wr'.reasons = FilterReasons(LedgerCycle', Current')
  <2>1. W' = W /\ Current' = Current
    BY <1>3 DEF W, Current
  <2>2. Claims' = Claims
    <3>1. Claims' = InjectPVCs(pvcStore', cluster, W, ordinal)
      BY <1>3, <2>1 DEF Claims
    <3>2. CASE pvcStore' = pvcStore
      BY <3>1, <3>2 DEF Claims
    <3>3. CASE pvcStore' = Claims
      BY <3>1, <3>3, InjectTwice DEF Claims
    <3> QED
      BY <1>3, <3>2, <3>3
  <2> QED
    BY <1>3, <2>1, <2>2 DEF BlameInv, LedgerCycle
<1>4. CASE GiveUp \/ StartPreemption
  <2>1. /\ UNCHANGED <<cluster, batch, wi, ordinal, wr, scheduledPods>> /\ Working
        /\ pvcStore' = Claims /\ Accepting(Cycle, Current) = {} /\ snapshot = scheduledPods
    BY <1>4 DEF GiveUp, StartPreemption, Attempting, Working, SnapshotInSync
  <2>2. Cycle = LedgerCycle
    BY <2>1 DEF Cycle, LedgerCycle
  <2> QED
    BY <1>3, <2>1, <2>2 DEF BlameInv
<1>5. ASSUME UNCHANGED <<cluster, batch, wi, ordinal, wr, scheduledPods, pvcStore>>,
             Working, pc' # "place" => pc # "place"
      PROVE  BlameInv'
  <2>1. /\ LedgerCycle' = LedgerCycle /\ Current' = Current
        /\ ordinal' = 0 => wr'.reasons = FilterReasons(LedgerCycle', Current')
    BY <1>3, <1>5
  <2> QED
    BY <1>5, <2>1 DEF BlameInv
<1>6. CASE RemoveVictim
  BY <1>5, <1>6 DEF RemoveVictim, Working
<1>7. CASE NextNode \/ AbandonPreemption \/ Reprieve
  BY <1>5, <1>7 DEF NextNode, AbandonPreemption, Reprieve, Working
<1>8. CASE PlaceReplica \/ PreemptReplica
  <2>1. ordinal' = ordinal + 1
    BY <1>8 DEF PlaceReplica, PreemptReplica, Commit
  <2>2. ordinal' # 0
    BY <2>1 DEF TypeOK
  <2> QED
    BY <1>1, <2>2
<1>9. CASE RejectWorkload \/ ReportWorkload \/ Finish
  BY <1>1, <1>9 DEF RejectWorkload, ReportWorkload, Finish, Working
<1>10. CASE UNCHANGED vars
  BY <1>1, <1>5, <1>10 DEF vars, Working
<1> QED
  BY <1>2, <1>4, <1>6, <1>7, <1>8, <1>9, <1>10 DEF Next

\* When the row names taints and nothing else.
LEMMA OnlyTaints ==
  ASSUME NEW k, NEW r, r.fit \in Nat, ShortReason(k, r) = Untolerated
  PROVE  r.fit = 0 /\ r.reasons = {"TaintToleration"}
<1>1. Specific(r) = {}
  <2>1. <<"filter", "TaintToleration">> \notin Specific(r)
    BY DEF Specific, ShortPlugin
  <2>2. Specific(r) # Untolerated
    BY <2>1 DEF Untolerated
  <2>3. ~Fits(k, r)
    BY DEF ShortReason, Untolerated
  <2> QED
    BY <2>2, <2>3 DEF ShortReason
<1>2. r.reasons \ {"TaintToleration"} = {}
  BY <1>1 DEF Specific
<1>3. ~Fits(k, r)
  BY DEF ShortReason, Untolerated
<1>4. {<<"capacity exhausted">>} # Untolerated /\ {<<"unschedulable">>} # Untolerated
  <2> DEFINE taint == <<"filter", "TaintToleration">>
             short == <<"capacity exhausted">>
             unsaid == <<"unschedulable">>
  <2>1. taint[1] = "filter" /\ short[1] = "capacity exhausted" /\ unsaid[1] = "unschedulable"
    OBVIOUS
  <2>2. taint # short /\ taint # unsaid
    <3> HIDE DEF taint, short, unsaid
    <3> QED
      BY <2>1
  <2>3. Untolerated = {taint}
    BY DEF Untolerated
  <2> HIDE DEF taint, short, unsaid
  <2>4. {short} # {taint} /\ {unsaid} # {taint}
    BY <2>2
  <2> QED
    BY <2>3, <2>4 DEF short, unsaid
<1>5. ~(r.fit > 0)
  BY <1>1, <1>3, <1>4 DEF ShortReason
<1>6. r.reasons # {}
  BY <1>1, <1>3, <1>4, <1>5 DEF ShortReason
<1> QED
  BY <1>2, <1>5, <1>6

\* When no node accepts and only taints are recorded, some node has one, and every
\* other node that was asked is short of resources.
LEMMA TaintsSaid ==
  ASSUME KubeProfile, NEW c \in Clusters, NEW pvcs, NEW pods, NEW pod,
         Accepting(View(c, pvcs, pods), pod) = {},
         FilterReasons(View(c, pvcs, pods), pod) = {"TaintToleration"}
  PROVE  LET said == {Filter(View(c, pvcs, pods), pod, n).plugin :
                        n \in PreFilter(View(c, pvcs, pods), pod).nodes}
         IN  "TaintToleration" \in said /\ said \subseteq {"TaintToleration", "NodeResourcesFit"}
<1> DEFINE view == View(c, pvcs, pods)
           pre == PreFilter(view, pod)
           said == {Filter(view, pod, n).plugin : n \in pre.nodes}
<1>1. pre = KubePreFilter(view, pod) /\ view.cluster = c
  BY DEF KubeProfile, View
<1>2. /\ pre.ok => pre.narrowedBy \subseteq {"NodeAffinity"} /\ pre.nodes \subseteq Node
      /\ ~pre.ok => pre.plugin \in {"VolumeRestrictions", "VolumeBinding"}
  <2>1. DOMAIN c.alloc = Node
    BY ClustersAssumption DEF IsCluster
  <2> QED
    BY <1>1, <2>1 DEF KubePreFilter
<1> HIDE DEF view
<1>3. FilterReasons(view, pod) = {"TaintToleration"} /\ Accepting(view, pod) = {}
  BY DEF view
<1>4. pre.ok
  BY <1>2, <1>3 DEF FilterReasons
<1>5. PluginReasons(view, pod) # {} /\ PluginReasons(view, pod) = {"TaintToleration"}
  <2>1. PluginReasons(view, pod) # {}
    BY <1>2, <1>3, <1>4 DEF FilterReasons
  <2>2. Plugin \cap PluginReasons(view, pod) = {"TaintToleration"}
    BY <1>3, <1>4, <2>1 DEF FilterReasons
  <2>3. PluginReasons(view, pod) \subseteq Plugin
    BY DEF PluginReasons
  <2> QED
    BY <2>1, <2>2, <2>3
<1>6. Node \cap pre.nodes = pre.nodes
  BY <1>2, <1>4
<1>7. "TaintToleration" \in said
  BY <1>5, <1>6 DEF PluginReasons
<1>8. ASSUME NEW n \in pre.nodes
      PROVE  Filter(view, pod, n).plugin \in {"TaintToleration", "NodeResourcesFit"}
  <2>1. Filter(view, pod, n).code # "Success"
    BY <1>3, <1>4, <1>6, <1>8 DEF Accepting
  <2>2. Filter(view, pod, n).plugin \in Plugin
    <3> DEFINE checks == Checks(view, pod, n)
    <3>1. KubeFilter(view, pod, n).code # "Success" /\ Filter(view, pod, n) = KubeFilter(view, pod, n)
      BY <2>1 DEF KubeProfile
    <3>2. \E i \in 1 .. 7 : KubeFilter(view, pod, n).plugin = checks[i].plugin
      BY <3>1, FilterSays
    <3>3. \A i \in 1 .. 7 : checks[i].plugin \in KubePlugin
      BY DEF Checks, KubePlugin
    <3> HIDE DEF checks
    <3> QED
      BY <3>1, <3>2, <3>3 DEF KubeProfile
  <2> QED
    BY <1>5, <1>6, <1>8, <2>1, <2>2 DEF PluginReasons
<1>9. "TaintToleration" \in said /\ said \subseteq {"TaintToleration", "NodeResourcesFit"}
  BY <1>7, <1>8
<1> QED
  BY <1>9 DEF view

\* In the default profile a row that blames taints alone is right: some node has one
\* the replica does not tolerate, and any other node lacks what it asks for.
THEOREM TaintsBlamedRightly ==
  ASSUME KubeProfile
  PROVE  Spec => []TaintsBlamedAlone
<1>1. Init => BlameInv
  BY DEF Init, BlameInv, Working
<1>2. TypeOK /\ SnapshotInSync /\ CreditInv /\ BlameInv => TaintsBlamedAlone
  <2> SUFFICES ASSUME TypeOK, SnapshotInSync, CreditInv, BlameInv, pc = "report",
                      ShortReason(wi, wr) = Untolerated
               PROVE  LET said == {Filter(Cycle, Probe, n).plugin : n \in PreFilter(Cycle, Probe).nodes}
                      IN  "TaintToleration" \in said /\ said \subseteq {"TaintToleration", "NodeResourcesFit"}
    BY DEF TaintsBlamedAlone
  <2>1. wr.fit = ordinal /\ wr.fit \in Nat /\ Working
    BY DEF CreditInv, Working, TypeOK, WorkloadResult
  <2>2. ordinal = 0 /\ wr.reasons = {"TaintToleration"}
    BY <2>1, OnlyTaints
  <2>3. Current = Probe /\ Cycle = LedgerCycle
    BY <2>2 DEF Current, Probe, SnapshotInSync, Cycle, LedgerCycle
  <2>4. Accepting(Cycle, Probe) = {} /\ FilterReasons(Cycle, Probe) = {"TaintToleration"}
    BY <2>1, <2>2, <2>3 DEF BlameInv
  <2>5. Cycle = View(cluster, Claims, snapshot) /\ cluster \in Clusters
    BY DEF Cycle, TypeOK
  <2> QED
    BY <2>4, <2>5, TaintsSaid
<1> QED
  BY <1>1, <1>2, BlameNext, TypeCorrect, SnapshotRestored, CreditInit, VerdictNext, CreditNext, PTL
  DEF Spec
-----------------------------------------------------------------------------
(* Who was placed stays.                                                   *)

\* The claims a pod looks up are all it sees of the store.
LEMMA SameClaims ==
  ASSUME KubeProfile, NEW c, NEW pods, NEW one, NEW other, NEW pod, NEW n \in Node,
         {q \in one : q.name \in pod.claims} = {q \in other : q.name \in pod.claims}
  PROVE  FitsOnNode(View(c, one, pods), pod, n) <=> FitsOnNode(View(c, other, pods), pod, n)
<1> DEFINE v == View(c, one, pods)  w == View(c, other, pods)
<1>1. /\ v.cluster = w.cluster /\ v.pods = w.pods
      /\ PVCsOf(v, pod) = PVCsOf(w, pod)
  BY DEF View, PVCsOf
<1> HIDE DEF v, w
<1>2. On(v, n) = On(w, n) /\ Seen(v) = Seen(w)
  BY <1>1 DEF On, Seen
<1>3. Suits(v, pod, n) <=> Suits(w, pod, n)
  <2>1. KubePreFilter(v, pod) = KubePreFilter(w, pod)
    BY <1>1 DEF KubePreFilter, Immediate
  <2>2. Bindable(v, pod, n) <=> Bindable(w, pod, n)
    BY <1>1 DEF Bindable
  <2> QED
    BY <1>1, <2>1, <2>2 DEF Suits, Admitted
<1>4. Clashes(v, pod, n) <=> Clashes(w, pod, n)
  BY <1>1, <1>2 DEF Clashes, PortTaken, TooBusy, Free, Lonely, Repelled
<1>5. FitsOnNode(v, pod, n) <=> FitsOnNode(w, pod, n)
  BY <1>3, <1>4, FitsIf
<1> QED
  BY <1>5 DEF v, w

\* The filters do not look at where, or under which id, a pod is recorded.
LEMMA SamePod ==
  ASSUME KubeProfile, NEW view, NEW pod, NEW placed, NEW n \in Node,
         placed.spec = pod.spec, placed.claims = pod.claims
  PROVE  FitsOnNode(view, placed, n) <=> FitsOnNode(view, pod, n)
<1>1. PVCsOf(view, placed) = PVCsOf(view, pod)
  BY DEF PVCsOf
<1>2. Suits(view, placed, n) <=> Suits(view, pod, n)
  <2>1. KubePreFilter(view, placed) = KubePreFilter(view, pod)
    BY <1>1 DEF KubePreFilter
  <2>2. Bindable(view, placed, n) <=> Bindable(view, pod, n)
    BY <1>1 DEF Bindable
  <2> QED
    BY <2>1, <2>2 DEF Suits, Admitted
<1>3. Clashes(view, placed, n) <=> Clashes(view, pod, n)
  BY DEF Clashes, PortTaken, TooBusy, Asks, Lonely, Repelled
<1> QED
  BY <1>2, <1>3, FitsIf

\* No pod template asks for company: a pod that does can be left alone.
NobodyNeedy == \A t \in Template : t.needs = Empty

\* Among fewer pods a pod that fits still fits.
LEMMA FewerStillFit ==
  ASSUME KubeProfile, NobodyNeedy, NEW c \in Clusters, NEW pvcs,
         NEW many \in SUBSET Pod, IsFiniteSet(many), NEW few \in SUBSET many,
         NEW pod \in Pod, NEW n \in Node, FitsOnNode(View(c, pvcs, many), pod, n)
  PROVE  FitsOnNode(View(c, pvcs, few), pod, n)
<1>1. c.alloc \in [Node -> [Resource -> Nat]]
  BY ClustersAssumption DEF IsCluster
<1>2. Suits(View(c, pvcs, many), pod, n) /\ ~Clashes(View(c, pvcs, many), pod, n)
  BY FitsIf
<1>3. Suits(View(c, pvcs, few), pod, n)
  BY <1>2, SuitsWhoever
<1>4. /\ ~PortTaken(View(c, pvcs, few), pod, n)
      /\ ~TooBusy(View(c, pvcs, few), pod, n)
      /\ ~Repelled(View(c, pvcs, few), pod, n)
  BY <1>1, <1>2, FewerClashes DEF Clashes
<1>5. ~Lonely(View(c, pvcs, few), pod, n)
  <2>1. pod.spec.needs = Empty
    BY DEF Pod, NobodyNeedy
  <2> QED
    BY <2>1 DEF Lonely
<1> QED
  BY <1>3, <1>4, <1>5, FitsIf DEF Clashes

\* Whoever takes a place finds room beside those who are there, and they beside him.
LEMMA BothFit ==
  ASSUME KubeProfile, NobodyNeedy, NEW c \in Clusters, NEW pvcs,
         NEW pods \in SUBSET Pod, IsFiniteSet(pods), NEW p \in pods, p.node \in Node,
         NEW q \in Pod, q \notin pods, q.node \in Node,
         FitsOnNode(View(c, pvcs, pods \ {p}), p, p.node),
         FitsOnNode(View(c, pvcs, pods), q, q.node)
  PROVE  FitsOnNode(View(c, pvcs, (pods \cup {q}) \ {p}), p, p.node)
<1> DEFINE others == pods \ {p}
           n == p.node
           before == View(c, pvcs, others)
           after == View(c, pvcs, others \cup {q})
           taken == View(c, pvcs, pods)
<1>1. /\ (pods \cup {q}) \ {p} = others \cup {q} /\ pods = others \cup {p}
      /\ p \notin others /\ q \notin others
      /\ others \in SUBSET Pod /\ IsFiniteSet(others)
  BY FS_Subset
<1>2. c.alloc \in [Node -> [Resource -> Nat]]
  BY ClustersAssumption DEF IsCluster
<1>3. Suits(before, p, n) /\ ~Clashes(before, p, n) /\ ~Clashes(taken, q, q.node)
  BY FitsIf
<1>4. /\ before.cluster = c /\ after.cluster = c /\ taken.cluster = c
      /\ \A m : /\ On(before, m) = At(others, m) /\ On(taken, m) = At(pods, m)
                /\ On(after, m) = At(others \cup {q}, m)
  BY DEF View, On, At
<1>5. p \in Seen(taken) \/ c.cancelled
  BY <1>2, <1>4 DEF Seen, View
<1>6. Seen(after) \subseteq Seen(before) \cup {q} /\ (q \in Seen(after) => ~c.cancelled)
  BY <1>4 DEF Seen, View
<1>7. Suits(after, p, n)
  BY <1>3, SuitsWhoever
<1> HIDE DEF before, after, taken, others
<1>8. ~PortTaken(after, p, n)
  <2>1. \A o \in At(others, n) : ~(p.spec.port # 0 /\ o.spec.port = p.spec.port)
    BY <1>3, <1>4 DEF Clashes, PortTaken
  <2>2. q.node = n => ~(q.spec.port # 0 /\ p.spec.port = q.spec.port)
    BY <1>3, <1>4 DEF Clashes, PortTaken, At
  <2> QED
    BY <1>4, <2>1, <2>2 DEF PortTaken, At
<1>9. ~Repelled(after, p, n)
  <2>1. \A o \in Seen(before) \cap At(others, n) :
          ~(o.spec.label \in p.spec.avoids \/ p.spec.label \in o.spec.avoids)
    BY <1>3, <1>4 DEF Clashes, Repelled
  <2>2. q.node = n /\ ~c.cancelled =>
          ~(p.spec.label \in q.spec.avoids \/ q.spec.label \in p.spec.avoids)
    BY <1>3, <1>4, <1>5 DEF Clashes, Repelled, At
  <2> QED
    BY <1>4, <1>6, <2>1, <2>2 DEF Repelled, At
<1>10. ~Lonely(after, p, n)
  <2>1. p.spec.needs = Empty
    BY DEF Pod, NobodyNeedy
  <2> QED
    BY <2>1 DEF Lonely
<1>11. ~TooBusy(after, p, n)
  <2> SUFFICES ASSUME NEW r \in Asks(p)
               PROVE  ~(p.spec.req[r] > c.alloc[n][r] - UsedBy(At(others \cup {q}, n), r))
    BY <1>4 DEF TooBusy, Free
  <2>1. /\ r \in Resource /\ p.spec.req[r] \in Nat /\ c.alloc[n][r] \in Nat
        /\ Demand(p.spec, r) = p.spec.req[r]
    BY <1>2, TemplateAssumption DEF Asks, Pod, Demand
  <2>2. At(others, n) \in SUBSET Pod /\ IsFiniteSet(At(others, n))
    BY <1>1, AtFinite
  <2>3. UsedBy(At(others, n), r) \in Nat
    BY <2>2, UsedNat
  <2>4. ~(p.spec.req[r] > c.alloc[n][r] - UsedBy(At(others, n), r))
    BY <1>3, <1>4 DEF Clashes, TooBusy, Free
  <2>5. CASE q.node # n
    <3>1. At(others \cup {q}, n) = At(others, n)
      BY <2>5 DEF At
    <3> QED
      BY <2>4, <3>1
  <2>6. CASE q.node = n
    <3>1. /\ At(others \cup {q}, n) = At(others, n) \cup {q}
          /\ At(pods, n) = At(others, n) \cup {p}
          /\ q \notin At(others, n) /\ p \notin At(others, n)
      BY <1>1, <2>6 DEF At
    <3>2. /\ UsedBy(At(others \cup {q}, n), r) = UsedBy(At(others, n), r) + Demand(q.spec, r)
          /\ UsedBy(At(pods, n), r) = UsedBy(At(others, n), r) + Demand(p.spec, r)
      BY <2>2, <3>1, UsedAdd
    <3>3. Demand(q.spec, r) \in Nat
      BY DemandNat
    <3>4. CASE Demand(q.spec, r) = 0
      BY <2>1, <2>3, <2>4, <3>2, <3>4
    <3>5. CASE Demand(q.spec, r) # 0
      <4>1. r \in Asks(q) /\ q.spec.req[r] = Demand(q.spec, r)
        BY <3>3, <3>5, TemplateAssumption DEF Asks, Demand, Pod
      <4>2. ~(q.spec.req[r] > c.alloc[n][r] - UsedBy(At(pods, n), r))
        BY <1>3, <1>4, <2>6, <4>1 DEF Clashes, TooBusy, Free
      <4> QED
        BY <2>1, <2>3, <3>2, <3>3, <4>1, <4>2
    <3> QED
      BY <3>4, <3>5
  <2> QED
    BY <2>5, <2>6
<1>12. FitsOnNode(after, p, n)
  BY <1>7, <1>8, <1>9, <1>10, <1>11, FitsIf DEF Clashes
<1> QED
  BY <1>1, <1>12 DEF after

\* Who was placed is a replica of its workload, who was not a pod of the cluster.
ReplicaInv ==
  /\ \A p \in simulated :
       /\ p.id[1] \in 1 .. Len(batch) /\ p.node \in Node
       /\ p.id[2] \in Tried(batch[p.id[1]])
       /\ p.claims = batch[p.id[1]].spec.claims \cup ClaimsOf(batch[p.id[1]], p.id[2])
  /\ \A p \in scheduledPods \ simulated : p.id[1] = 0

Standing == \A p \in simulated : FitsOnNode(Trial(scheduledPods \ {p}), p, p.node)

\* Claims of a replica that was not placed yet are no claims of one that was.
LEMMA NewClaims ==
  ASSUME KubeProfile, ClaimsApart, TypeOK, CreditInv, ReplicaInv, wi <= Len(batch),
         NEW i \in Tried(W), \A p \in simulated : p.id # <<wi, i>>,
         NEW p \in simulated, NEW pods
  PROVE  FitsOnNode(View(cluster, InjectPVCs(pvcStore, cluster, W, i), pods), p, p.node)
           <=> FitsOnNode(View(cluster, pvcStore, pods), p, p.node)
<1> DEFINE store == InjectPVCs(pvcStore, cluster, W, i)
<1>1. wi \in 1 .. Len(batch) /\ batch \in Batches /\ W = batch[wi] /\ p \in Pod
  BY DEF TypeOK, W
<1>2. p.id = <<p.id[1], p.id[2]>>
  BY <1>1 DEF Pod
<1>3. /\ p.id[1] \in 1 .. Len(batch) /\ p.node \in Node
      /\ p.id[2] \in Tried(batch[p.id[1]])
      /\ p.claims = batch[p.id[1]].spec.claims \cup ClaimsOf(batch[p.id[1]], p.id[2])
  BY DEF ReplicaInv
<1>4. <<wi, i>> # <<p.id[1], p.id[2]>>
  BY <1>2
<1>5. ClaimsOf(W, i) \cap p.claims = {}
  BY <1>1, <1>3, <1>4 DEF ClaimsApart
<1>6. \A q \in SynthesizedPVCs(cluster, W, i) : q.name \in ClaimsOf(W, i)
  BY DEF SynthesizedPVCs, ClaimsOf
<1>7. {q \in store : q.name \in p.claims} = {q \in pvcStore : q.name \in p.claims}
  BY <1>5, <1>6 DEF InjectPVCs
<1> HIDE DEF store
<1>8. FitsOnNode(View(cluster, store, pods), p, p.node)
        <=> FitsOnNode(View(cluster, pvcStore, pods), p, p.node)
  BY <1>3, <1>7, SameClaims
<1> QED
  BY <1>8 DEF store

\* Nobody was placed under the id of the probe's replica or of the one at hand.
LEMMA NotPlacedYet ==
  ASSUME TypeOK, CreditInv,
         \/ pc = "probe" /\ wi <= Len(batch)
         \/ Attempting
         \/ pc = "minimize"
  PROVE  LET i == IF pc = "probe" THEN 0 ELSE ordinal
         IN  /\ wi <= Len(batch) /\ i \in Tried(W)
             /\ \A p \in simulated : p.id # <<wi, i>>
<1>1. wi \in 1 .. Len(batch) /\ batch \in Batches /\ W = batch[wi] /\ W.replicas \in Nat
  BY CurrentWorkload DEF TypeOK, Attempting, W, IsWorkload
<1>2. CASE pc = "probe"
  <2>1. 0 \in Tried(W)
    BY <1>1 DEF Tried
  <2>2. \A p \in simulated : p.id[1] # wi
    BY <1>2 DEF CreditInv, Working
  <2> QED
    BY <1>1, <1>2, <2>1, <2>2
<1>3. CASE pc # "probe"
  <2>1. ordinal \in Nat /\ ordinal < W.replicas
    BY <1>3 DEF TypeOK, Attempting
  <2>2. ordinal \in Tried(W)
    BY <1>1, <2>1 DEF Tried
  <2>3. \A p \in simulated : p.id[1] = wi => p.id[2] < ordinal
    BY DEF CreditInv
  <2>4. \A p \in simulated : p.id[1] = wi => p.id[2] # ordinal
    BY <2>1, <2>3
  <2> QED
    BY <1>1, <1>3, <2>2, <2>4
<1> QED
  BY <1>2, <1>3

\* Either the claims of one attempt or probe come, or a replica that fits does.
LEMMA StandingSteps ==
  ASSUME TypeOK, SnapshotInSync, CreditInv, SearchSound, [Next]_vars
  PROVE  /\ UNCHANGED <<cluster, batch>>
         /\ \/ /\ UNCHANGED <<scheduledPods, simulated>>
               /\ \/ pvcStore' = pvcStore
                  \/ \E i \in Tried(W) :
                       /\ wi <= Len(batch) /\ \A p \in simulated : p.id # <<wi, i>>
                       /\ pvcStore' = InjectPVCs(pvcStore, cluster, W, i)
            \/ \E n \in Node, victims \in SUBSET (scheduledPods \ simulated), viaPreemption \in BOOLEAN :
                 /\ Commit(Current, n, victims, viaPreemption)
                 /\ Attempting \/ pc = "minimize"
                 /\ pvcStore' = Claims
                 /\ pvcStore' = pvcStore \/ Attempting
                 /\ FitsOnNode(View(cluster, pvcStore', scheduledPods \ victims), Current, n)
<1>1. CASE ProbeWorkload \/ RejectWorkload
  <2>1. /\ pc = "probe" /\ wi <= Len(batch)
        /\ pvcStore' = InjectPVCs(pvcStore, cluster, W, 0)
        /\ UNCHANGED <<cluster, batch, scheduledPods, simulated>>
    BY <1>1 DEF ProbeWorkload, RejectWorkload, ProbeCycle, View, inputs, ledger
  <2> QED
    BY <2>1, NotPlacedYet
<1>2. CASE GiveUp \/ StartPreemption
  <2>1. /\ Attempting /\ pvcStore' = InjectPVCs(pvcStore, cluster, W, ordinal)
        /\ UNCHANGED <<cluster, batch, scheduledPods, simulated>>
    BY <1>2 DEF GiveUp, StartPreemption, Claims, inputs, ledger
  <2>2. pc = "place"
    BY <2>1 DEF Attempting
  <2> QED
    BY <2>1, <2>2, NotPlacedYet
<1>3. CASE PlaceReplica
  <2>1. PICK n \in Node : First(n, Accepting(Cycle, Current)) /\ Commit(Current, n, {}, FALSE)
    BY <1>3 DEF PlaceReplica
  <2>2. /\ Attempting /\ pvcStore' = Claims /\ UNCHANGED <<cluster, batch>>
        /\ snapshot = scheduledPods
    BY <1>3 DEF PlaceReplica, Attempting, SnapshotInSync, inputs
  <2>3. FitsOnNode(View(cluster, pvcStore', scheduledPods \ {}), Current, n)
    BY <2>1, <2>2 DEF First, FitsOnNode, Cycle
  <2> QED
    BY <2>1, <2>2, <2>3
<1>4. CASE PreemptReplica
  <2>1. PICK n \in todo : /\ First(n, todo) /\ Commit(Current, n, removed, TRUE)
                          /\ n \in Node /\ FitsWithout(removed, n)
    BY <1>4, Victorious
  <2>2. /\ pc = "minimize" /\ pvcStore' = pvcStore /\ UNCHANGED <<cluster, batch>>
        /\ pvcStore = Claims /\ removed \in SUBSET (scheduledPods \ simulated)
    BY <1>4 DEF PreemptReplica, SearchSound, Searching, TypeOK, inputs
  <2>3. FitsOnNode(View(cluster, pvcStore', scheduledPods \ removed), Current, n)
    BY <2>1, <2>2 DEF FitsWithout, Trial
  <2> QED
    BY <2>1, <2>2, <2>3
<1>5. CASE RemoveVictim \/ NextNode \/ AbandonPreemption \/ Reprieve \/ ReportWorkload
            \/ Finish \/ UNCHANGED vars
  BY <1>5 DEF RemoveVictim, NextNode, AbandonPreemption, Reprieve, ReportWorkload, Finish,
              vars, inputs, ledger
<1> QED
  BY <1>1, <1>2, <1>3, <1>4, <1>5 DEF Next

\* What the filters promised to a replica when it was placed outlasts every step.
LEMMA StandingNext ==
  ASSUME KubeProfile, NobodyNeedy, ClaimsApart, TypeOK, SnapshotInSync, CreditInv, SearchSound,
         IsFiniteSet(scheduledPods), ReplicaInv, Standing, [Next]_vars
  PROVE  ReplicaInv' /\ Standing'
<1>1. UNCHANGED <<cluster, batch>> /\ cluster \in Clusters
  BY StandingSteps DEF TypeOK
<1>2. CASE /\ UNCHANGED <<scheduledPods, simulated>>
           /\ \/ pvcStore' = pvcStore
              \/ \E i \in Tried(W) :
                   /\ wi <= Len(batch) /\ \A p \in simulated : p.id # <<wi, i>>
                   /\ pvcStore' = InjectPVCs(pvcStore, cluster, W, i)
  <2>1. ReplicaInv'
    BY <1>1, <1>2 DEF ReplicaInv
  <2>2. ASSUME NEW p \in simulated
        PROVE  FitsOnNode(View(cluster, pvcStore', scheduledPods \ {p}), p, p.node)
    <3>1. FitsOnNode(View(cluster, pvcStore, scheduledPods \ {p}), p, p.node)
      BY DEF Standing, Trial
    <3>2. CASE pvcStore' = pvcStore
      BY <3>1, <3>2
    <3>3. CASE pvcStore' # pvcStore
      <4>1. PICK i \in Tried(W) : /\ wi <= Len(batch) /\ \A q \in simulated : q.id # <<wi, i>>
                                  /\ pvcStore' = InjectPVCs(pvcStore, cluster, W, i)
        BY <1>2, <3>3
      <4>2. FitsOnNode(View(cluster, InjectPVCs(pvcStore, cluster, W, i), scheduledPods \ {p}), p, p.node)
        BY <3>1, <4>1, NewClaims
      <4> QED
        BY <4>1, <4>2
    <3> QED
      BY <3>2, <3>3
  <2>3. Standing'
    BY <1>1, <1>2, <2>2 DEF Standing, Trial
  <2> QED
    BY <2>1, <2>3
<1>3. ASSUME NEW n \in Node, NEW victims \in SUBSET (scheduledPods \ simulated),
             NEW viaPreemption \in BOOLEAN,
             Commit(Current, n, victims, viaPreemption),
             Attempting \/ pc = "minimize",
             pvcStore' = Claims, pvcStore' = pvcStore \/ Attempting,
             FitsOnNode(View(cluster, pvcStore', scheduledPods \ victims), Current, n)
      PROVE  ReplicaInv' /\ Standing'
  <2> DEFINE placed == [Current EXCEPT !.node = n]
             rest == scheduledPods \ victims
  <2>1. /\ scheduledPods' = rest \cup {placed} /\ simulated' = simulated \cup {placed}
        /\ rest \in SUBSET Pod /\ IsFiniteSet(rest) /\ simulated \subseteq rest
    BY <1>3, FS_Subset DEF Commit, TypeOK
  <2>2. /\ wi <= Len(batch) /\ ordinal \in Tried(W) /\ pc # "probe"
        /\ \A p \in simulated : p.id # <<wi, ordinal>>
    BY <1>3, NotPlacedYet DEF Attempting
  <2>3. /\ placed.id = <<wi, ordinal>> /\ placed.node = n /\ placed.spec = Current.spec
        /\ placed.claims = Current.claims /\ Current.claims = W.spec.claims \cup ClaimsOf(W, ordinal)
    BY DEF Current, Replica
  <2>4. placed \in Pod
    <3>1. Current \in Pod
      BY <1>3, AttemptType, CurrentType DEF Searching
    <3> QED
      BY <3>1 DEF Pod
  <2>5. wi \in 1 .. Len(batch) /\ W = batch[wi]
    BY <2>2 DEF TypeOK, W
  <2> HIDE DEF placed
  <2>6. placed \notin rest
    <3>1. placed \notin simulated
      BY <2>2, <2>3
    <3>2. placed.id[1] # 0
      BY <2>3, <2>5
    <3>3. placed \notin scheduledPods \ simulated
      BY <3>2 DEF ReplicaInv
    <3> QED
      BY <3>1, <3>3
  <2> HIDE DEF rest
  <2>7. ReplicaInv'
    BY <1>1, <2>1, <2>2, <2>3, <2>5, rest \subseteq scheduledPods DEF ReplicaInv, rest
  <2>8. FitsOnNode(View(cluster, pvcStore', rest), placed, n)
    BY <1>3, <2>3, SamePod DEF rest
  <2>9. ASSUME NEW p \in simulated
        PROVE  FitsOnNode(View(cluster, pvcStore', scheduledPods' \ {p}), p, p.node)
    <3>1. p.node \in Node /\ p \in Pod /\ p \in rest
      BY <2>1 DEF ReplicaInv
    <3>2. FitsOnNode(View(cluster, pvcStore, scheduledPods \ {p}), p, p.node)
      BY DEF Standing, Trial
    <3>3. FitsOnNode(View(cluster, pvcStore', scheduledPods \ {p}), p, p.node)
      <4>1. CASE pvcStore' = pvcStore
        BY <3>2, <4>1
      <4>2. CASE pvcStore' = Claims
        BY <2>2, <3>2, <4>2, NewClaims DEF Claims
      <4> QED
        BY <1>3, <4>1, <4>2
    <3>4. FitsOnNode(View(cluster, pvcStore', rest \ {p}), p, p.node)
      <4>1. scheduledPods \ {p} \in SUBSET Pod /\ IsFiniteSet(scheduledPods \ {p})
        BY FS_Subset DEF TypeOK
      <4>2. rest \ {p} \in SUBSET (scheduledPods \ {p})
        BY DEF rest
      <4> QED
        BY <1>1, <3>1, <3>3, <4>1, <4>2, FewerStillFit
    <3>5. FitsOnNode(View(cluster, pvcStore', (rest \cup {placed}) \ {p}), p, p.node)
      BY <1>1, <2>1, <2>3, <2>4, <2>6, <2>8, <3>1, <3>4, BothFit
    <3> QED
      BY <2>1, <3>5
  <2>10. FitsOnNode(View(cluster, pvcStore', scheduledPods' \ {placed}), placed, placed.node)
    <3>1. scheduledPods' \ {placed} = rest
      BY <2>1, <2>6
    <3> QED
      BY <2>3, <2>8, <3>1
  <2>11. Standing'
    BY <1>1, <2>1, <2>9, <2>10 DEF Standing, Trial
  <2> QED
    BY <2>7, <2>11
<1> QED
  BY <1>2, <1>3, StandingSteps

LEMMA StandingInit == Init => ReplicaInv /\ Standing
<1> SUFFICES ASSUME Init PROVE ReplicaInv
  BY DEF Init, Standing
<1>1. simulated = {} /\ scheduledPods = ListScheduledPods(cluster) /\ cluster \in Clusters
  BY DEF Init
<1> QED
  BY <1>1, InitialFinite DEF ReplicaInv

\* With the filters of the default profile, if nobody needs company and no claims
\* are shared, a replica keeps passing every filter on its node among the pods that
\* are placed, and without those that are evicted, after it (tryPlace, runWorkload).
THEOREM PlacedReplicasStand ==
  ASSUME KubeProfile, NobodyNeedy, ClaimsApart
  PROVE  Spec => []PlacedReplicasStillFit
<1> DEFINE Inv == /\ TypeOK /\ SnapshotInSync /\ VerdictInv /\ CreditInv /\ ReplicasStand
                  /\ SearchSound /\ IsFiniteSet(scheduledPods) /\ ReplicaInv /\ Standing
<1>1. Init => Inv
  <2>1. Init => IsFiniteSet(scheduledPods)
    BY InitialFinite DEF Init
  <2>2. Init => SnapshotInSync /\ SearchSound
    BY DEF Init, SnapshotInSync, SearchSound, Searching
  <2> QED
    BY <2>1, <2>2, TypeInit, CreditInit, StandingInit
<1>2. Inv /\ [Next]_vars => Inv'
  BY TypeNext, SyncNext, VerdictNext, CreditNext, SearchNext, FiniteNext, StandingNext
<1>3. Inv => PlacedReplicasStillFit
  BY DEF Standing, PlacedReplicasStillFit
<1> QED
  BY <1>1, <1>2, <1>3, PTL DEF Spec
-----------------------------------------------------------------------------
(* What the filters were assumed to be, they are.                          *)

\* With the filters of the default profile the simulator implements first fit,
\* evicts minimal sets of victims, overcommits no node, and reports no shortfall
\* of what it has just handed out (Run, tryPreemption, minimizeVictims).
THEOREM DefaultProfile ==
  ASSUME KubeProfile
  PROVE  Spec => /\ ImplementsFirstFit
                 /\ MinimalEviction /\ []VictimsNeeded
                 /\ []NoOvercommit /\ []CapacityHonest
<1>1. Convex /\ RespectsCapacity
  BY KubeConvex, KubeRespectsCapacity
<1>2. Spec => ImplementsFirstFit
  BY <1>1, Implementation
<1>3. Spec => MinimalEviction
  BY <1>1, EvictionsMinimal
<1>4. Spec => []VictimsNeeded
  BY <1>1, EveryVictimNeeded
<1>5. Spec => []NoOvercommit
  BY <1>1, NodesNotOvercommitted
<1>6. Spec => []CapacityHonest
  BY <1>1, ShortfallsHonest
<1> QED
  BY <1>2, <1>3, <1>4, <1>5, <1>6

\* The same of the command, whose clusters and claims change as it runs (run).
THEOREM CommandRespectsCapacity ==
  ASSUME KubeProfile
  PROVE  CommandSpec => []NoOvercommit /\ []CapacityHonest
<1>1. RespectsCapacity
  BY KubeRespectsCapacity
<1>2. LiveSpec => []NoOvercommit
  BY <1>1, LiveNotOvercommitted
<1>3. LiveSpec => []CapacityHonest
  BY <1>1, LiveShortfallsHonest
<1> QED
  BY <1>2, <1>3, CommandRunsLive
===============================================================================
