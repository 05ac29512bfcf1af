------------------------------ MODULE Placement ------------------------------
(***************************************************************************)
(* One replica, one scheduling cycle: how pkg/input turns a workload into  *)
(* replicas and claims, how pkg/simulate resolves their priority, and what *)
(* running the filters says about a replica on the nodes of a cluster.     *)
(*                                                                         *)
(* The scheduler framework is a library.  It enters as two operators: what *)
(* RunPreFilterPlugins and RunFilterPlugins answer for a pod, given what   *)
(* they can see (the cluster, the PVC store, the installed snapshot).      *)
(*                                                                         *)
(* Nodes are numbered by their rank in nodeOrder.  A pod is known by its   *)
(* id: <<0, j>> is the j-th pod the cluster listed, <<k, i>> is replica i  *)
(* of workload k.                                                          *)
(***************************************************************************)
EXTENDS Capacity, Sequences, TLC

CONSTANTS
  N,                \* how many nodes the cluster has
  Template,         \* the pod templates (Workload.base)
  Plugin,           \* names of the scheduler plugins, "" for an unnamed one
  Clusters,         \* the clusters the program may be pointed at
  Batches,          \* the batches of workloads it may be given
  None,             \* a nil *int32
  PreFilter(_, _),  \* view, pod |-> [ok, plugin, nodes, narrowedBy]
  Filter(_, _, _)   \* view, pod, node |-> [code, plugin]

Name   == STRING \cup {Empty}
Node   == 1 .. N
NoNode == 0
Elsewhere == N + 1            \* a node New did not list (it came later, or left)
Phase  == {"Running", "Succeeded", "Failed", Empty}
PVC    == [name : STRING, class : Name, volume : Name]
Pod    == [id : Nat \X Nat, node : Node \cup {NoNode, Elsewhere}, prio : Int,
           spec : Template, claims : SUBSET STRING, phase : Phase]

\* fmt.Sprintf("%s-%s-%d", vct.Name, w.Name, ordinal)
ClaimName(template, name, ordinal) ==
  template \o "-" \o name \o "-" \o ToString(ordinal)

IsCluster(c) ==
  /\ c.pods \subseteq Pod /\ IsFiniteSet(c.pods)
  /\ \A p \in c.pods : p.id[1] = 0
  /\ c.pvcs \subseteq PVC
  /\ c.alloc \in [Node -> [Resource -> Nat]]
  /\ \A class \in DOMAIN c.classes : c.classes[class] \in Int
  /\ c.globalDefault \in DOMAIN c.classes \cup {Empty}
  /\ c.storageClass \in Name

IsWorkload(w) ==
  /\ w.replicas \in Nat
  /\ w.priority \in Int \cup {None}
  /\ w.spec \in Template
  /\ \A t \in DOMAIN w.vcts :
       /\ w.vcts[t] \in Name
       /\ \A i \in 0 .. w.replicas : ClaimName(t, w.name, i) \in STRING

ASSUME NodesAssumption == N \in Nat
ASSUME NoneAssumption == None \notin Int
ASSUME TemplateAssumption ==
  \A t \in Template : /\ t.claims \subseteq STRING /\ DOMAIN t.req \subseteq Resource
                      /\ \A r \in DOMAIN t.req : t.req[r] \in Nat
ASSUME ClustersAssumption == \A c \in Clusters : IsCluster(c)
ASSUME BatchesAssumption ==
  \A b \in Batches : /\ Len(b) \in Nat
                     /\ \A k \in 1 .. Len(b) : IsWorkload(b[k])
-----------------------------------------------------------------------------
(* Priorities.                                                             *)

DefaultPriority(c) == IF c.globalDefault = Empty THEN 0 ELSE c.classes[c.globalDefault]

systemClusterCritical == 2000000000
systemNodeCritical    == 2000001000

SystemPriority == [class \in {"system-cluster-critical", "system-node-critical"} |->
  IF class = "system-cluster-critical" THEN systemClusterCritical ELSE systemNodeCritical]

\* What a priorityClassName stands for; the built-in classes come first.
PriorityClasses(c) ==
  [class \in {Empty} \cup DOMAIN SystemPriority \cup DOMAIN c.classes |->
     IF class = Empty THEN DefaultPriority(c)
     ELSE IF class \in DOMAIN SystemPriority THEN SystemPriority[class]
     ELSE c.classes[class]]

\* A pod that names a PriorityClass the cluster does not have is invalid.
Resolvable(c, w) == w.priority # None \/ w.class \in DOMAIN PriorityClasses(c)

ResolvePriority(c, w) ==
  IF w.priority # None THEN w.priority ELSE PriorityClasses(c)[w.class]
-----------------------------------------------------------------------------
(* Replica i of w, the k-th workload, and the claims it brings along.      *)

ClaimsOf(w, i) == {ClaimName(t, w.name, i) : t \in DOMAIN w.vcts}

Replica(c, w, k, i) ==
  [id |-> <<k, i>>, node |-> NoNode, prio |-> ResolvePriority(c, w),
   spec |-> w.spec, claims |-> w.spec.claims \cup ClaimsOf(w, i), phase |-> Empty]

\* What --resource and --replicas make: pods that request something and nothing else.
PodRequesting(req) ==
  [req |-> req, selects |-> Node, pinned |-> FALSE, tolerates |-> FALSE, port |-> 0,
   label |-> Empty, needs |-> Empty, avoids |-> {}, claims |-> {}]

FromFlags(req, replicas) ==
  [name |-> "can-schedule-probe", replicas |-> replicas, priority |-> None,
   class |-> Empty, spec |-> PodRequesting(req), vcts |-> << >>]

\* A claim that omits its class inherits the cluster's default class, if any.
SynthesizedPVCs(c, w, i) ==
  {[name |-> ClaimName(t, w.name, i), volume |-> Empty,
    class |-> IF w.vcts[t] = Empty THEN c.storageClass ELSE w.vcts[t]] :
   t \in DOMAIN w.vcts}

\* Store.Add replaces whatever the store holds under the same key.
InjectPVCs(store, c, w, i) ==
  {q \in store : q.name \notin ClaimsOf(w, i)} \cup SynthesizedPVCs(c, w, i)

\* The ordinals whose claims are injected: the probe's, and those of the loop.
Tried(w) == {i \in 0 .. w.replicas : i = 0 \/ i < w.replicas}

\* A hypothesis on the batches: the claims that a replica brings along are nobody
\* else's, neither another replica brings one of that name nor does a template ask
\* for one.
ClaimsApart ==
  \A b \in Batches : \A k, j \in 1 .. Len(b) :
    \A i \in Tried(b[k]), o \in Tried(b[j]) :
      <<k, i>> # <<j, o>> =>
        ClaimsOf(b[k], i) \cap (b[j].spec.claims \cup ClaimsOf(b[j], o)) = {}
-----------------------------------------------------------------------------
(* One scheduling cycle: PreFilter once, Filter on the nodes it left.      *)

View(c, pvcs, pods) == [cluster |-> c, pvcs |-> pvcs, pods |-> pods]

Accepting(view, pod) ==
  LET pre == PreFilter(view, pod)
  IN  {n \in Node : /\ pre.ok /\ n \in pre.nodes
                    /\ Filter(view, pod, n).code = "Success"}

\* The nodes that said no in a way that removing pods might change.
Rejecting(view, pod) ==
  LET pre == PreFilter(view, pod)
  IN  {n \in Node : /\ pre.ok /\ n \in pre.nodes
                    /\ Filter(view, pod, n).code = "Unschedulable"}

\* Mutant: the trial stops after PreFilter.
PreFilterAdmits(view, pod, n) ==
  PreFilter(view, pod).ok /\ n \in PreFilter(view, pod).nodes

FitsOnNode(view, pod, n) == n \in Accepting(view, pod)

PluginReasons(view, pod) ==
  LET nodes == Node \cap PreFilter(view, pod).nodes
  IN  {g \in Plugin \ {"NodeResourcesFit"} :
         \E n \in nodes : /\ Filter(view, pod, n).code # "Success"
                          /\ Filter(view, pod, n).plugin = g}

\* Why nodes said no, shortfalls of resources left aside.  (Every name the
\* framework gives is one of Plugin.)
FilterReasons(view, pod) ==
  LET pre    == PreFilter(view, pod)
      filter == PluginReasons(view, pod)
  IN  Plugin \cap (IF ~pre.ok THEN {pre.plugin}
                   ELSE IF Accepting(view, pod) = {} /\ filter = {} THEN pre.narrowedBy
                   ELSE filter)

First(n, nodes) == n \in nodes /\ \A m \in nodes : n <= m

\* A hypothesis on the filters: a pod that fits on n among few of the pods, and
\* still fits when many are back on n, also fits with only some of them back.
ConvexOn(c, pvcs, pod, n, pods) ==
  \A many \in SUBSET pods : \A some \in SUBSET many : \A few \in SUBSET some :
    /\ \A p \in many \ few : p.node = n
    /\ FitsOnNode(View(c, pvcs, few), pod, n)
    /\ FitsOnNode(View(c, pvcs, many), pod, n)
    => FitsOnNode(View(c, pvcs, some), pod, n)
-----------------------------------------------------------------------------
(* Preemption: who may be evicted, in which order.                         *)

PreemptionMeaningful(c, pod) == pod.prio > DefaultPriority(c)

\* Mutants: the check of the simulated map forgotten; pods of equal priority too.
CandidatesOfAnyOrigin(pods, placed, pod, n) ==
  {p \in pods : p.node = n /\ p.prio < pod.prio}

CandidatesOfEqualRank(pods, placed, pod, n) ==
  {p \in pods : p \notin placed /\ p.node = n /\ p.prio <= pod.prio}

\* Pods of the cluster on node n that pod outranks; never a replica of this run.
Candidates(pods, placed, pod, n) ==
  {p \in pods : p \notin placed /\ p.node = n /\ p.prio < pod.prio}

\* SliceStable by priority: pods of equal priority stay in listing order.
Before(p, q) == \/ p.prio < q.prio
                \/ p.prio = q.prio /\ p.id[2] < q.id[2]

Lowest(v, pods)  == v \in pods /\ \A u \in pods \ {v} : Before(v, u)
Highest(v, pods) == v \in pods /\ \A u \in pods \ {v} : Before(u, v)
===============================================================================
