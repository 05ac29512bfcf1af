----------------------------- MODULE MCSimulator -----------------------------
(***************************************************************************)
(* Small worlds for the simulator: clusters, templates and batches, with   *)
(* the scheduler's answers taken from KubeFilters.                         *)
(***************************************************************************)
EXTENDS Documented, Report

Plain == PodRequesting([cpu |-> 1])
Big   == [Plain EXCEPT !.req = [cpu |-> 2]]

Running(j, n, prio, spec) ==
  [id |-> <<0, j>>, node |-> n, prio |-> prio, spec |-> spec,
   claims |-> spec.claims, phase |-> "Running"]

\* Nodes offer the given sizes of cpu and nothing else.
Cluster(pods, sizes) ==
  [pods |-> pods,
   alloc |-> [n \in Node |-> [r \in Resource |-> IF r = "cpu" THEN sizes[n] ELSE 0]],
   classes |-> [high |-> 2, low |-> -1], globalDefault |-> "", storageClass |-> "",
   pvcs |-> {}, tainted |-> {}, lateClasses |-> {}, provisioned |-> {}, volumes |-> {}, cancelled |-> FALSE]

Workload(name, replicas, class, spec) ==
  [name |-> name, replicas |-> replicas, priority |-> None, class |-> class,
   spec |-> spec, vcts |-> << >>]
-----------------------------------------------------------------------------
(* Preemption: nodes of two cpus, at most two pods on node 1 and one on    *)
(* node 2, of three priorities; two workloads.                             *)

PreemptionTemplates == {Plain, Big}

SlotPods(j, n) == {{}} \cup {{Running(j, n, prio, spec)} :
                     prio \in {-1, 1, 2}, spec \in PreemptionTemplates}

PreemptionClusters ==
  {Cluster(a \cup b \cup c, <<2, 2>>) :
     a \in SlotPods(1, 1), b \in SlotPods(2, 1), c \in SlotPods(3, 2)}

PreemptionBatches ==
  {<<Workload("a", 2, class, Plain), Workload("b", replicas, "high", spec)>> :
     class \in {"", "high"}, replicas \in {0, 1, 2}, spec \in PreemptionTemplates}
-----------------------------------------------------------------------------
(* Filters: every filter of KubeFilters, in clusters made for one of them. *)

Web     == [Plain EXCEPT !.port = 80]
Loner   == [Plain EXCEPT !.label = "l", !.avoids = {"l"}]
OnTwo   == [Plain EXCEPT !.selects = {2}]
Pinned  == [Plain EXCEPT !.selects = {1}, !.pinned = TRUE, !.tolerates = TRUE]
Nowhere == [Plain EXCEPT !.selects = {}, !.pinned = TRUE]
Gpu     == [Plain EXCEPT !.req = [cpu |-> 1, gpu |-> 1]]
Friend  == [Plain EXCEPT !.needs = "x"]
Host    == [Plain EXCEPT !.label = "x"]
Free0   == [Plain EXCEPT !.req = [cpu |-> 0]]
Shared  == [Plain EXCEPT !.claims = {"shared"}]
Lost    == [Plain EXCEPT !.claims = {"lost"}]

FilterTemplates ==
  {Plain, Big, Web, Loner, OnTwo, Pinned, Nowhere, Gpu, Free0, Shared, Lost}

Bare == Cluster({}, <<2, 2>>)

Volume(name, class, nodes, claimRef) ==
  [name |-> name, class |-> class, nodes |-> nodes, claimRef |-> claimRef]

FilterClusters ==
  { [Bare EXCEPT !.tainted = {1}, !.storageClass = "auto",
                 !.lateClasses = {"auto"}, !.provisioned = {"auto"}],
    Cluster({Running(1, 1, 0, Web), Running(2, 2, 1, Loner)}, <<2, 3>>),
    Cluster({Running(1, 1, 0, Big), Running(2, 2, 1, Big)}, <<2, 1>>),
    Cluster({Running(1, Elsewhere, 0, Big), Running(2, 1, 1, Plain)}, <<2, 1>>),
    [Cluster({Running(1, 1, 2, Plain), Running(2, 1, -1, Loner),
              Running(3, 2, 1, Web), Running(4, 2, 1, Plain)}, <<2, 2>>)
       EXCEPT !.globalDefault = "high"],
    [Cluster({[Running(1, 1, 0, Big) EXCEPT !.phase = "Failed"],
              [Running(2, 2, 0, Big) EXCEPT !.phase = "Succeeded"],
              [Running(3, NoNode, 0, Big) EXCEPT !.phase = ""]}, <<1, 1>>)
       EXCEPT !.pvcs = {[name |-> "shared", class |-> "local", volume |-> "v2"],
                        [name |-> "data-a-1", class |-> "local", volume |-> "v3"]},
              !.lateClasses = {"local"},
              !.volumes = {Volume("v1", "local", {1}, ""),
                           Volume("v2", "local", {2}, "shared"),
                           Volume("v3", "local", {2}, "data-a-1")}] }

StatefulSet(name, replicas, class, storageClass) ==
  [Workload(name, replicas, class, Plain) EXCEPT !.vcts = [data |-> storageClass]]

FilterWorkloads(name) ==
  {Workload(name, 2, class, spec) : class \in {"", "high"}, spec \in FilterTemplates}
  \cup {StatefulSet(name, 2, "low", class) : class \in {"", "local"}}

FilterBatches ==
  { <<v, w>> : v \in FilterWorkloads("a"), w \in
      {Workload("b", 2, "system-node-critical", Web),
       Workload("b", 2, "system-cluster-critical", Loner),
       [Workload("b", 1, "", Big) EXCEPT !.priority = 1],
       Workload("b", 1, "missing", Plain)} }
-----------------------------------------------------------------------------
(* Worlds in which a documented sentence fails: one cluster, one batch.    *)

OneOf(spec)         == {<<Workload("w", 1, "high", spec)>>}
DocumentedTemplates == {Plain, Big, Web, Friend, Host}

\* A pod of negative priority is lower than the default.
NoOpClusters == {Cluster({Running(1, 1, -1, Big)}, <<2, 0>>)}
NoOpBatches  == {<<Workload("w", 1, "", Plain)>>}

\* Two replicas that open the same port, and room for one.
PortClusters == {Cluster({}, <<2, 0>>)}
PortBatches  == {<<Workload("w", 2, "", Web)>>}

\* The only free volume is reserved for the claim of replica 1.
ReservedClusters ==
  {[Bare EXCEPT !.lateClasses = {"local"},
                !.volumes = {Volume("v1", "local", {1}, "data-db-1")}]}
OrdinalBatches == {<<StatefulSet("db", 2, "", "local")>>}

\* The lowest pod on the node is the one the replica wants beside it.
FriendClusters ==
  {Cluster({Running(1, 1, 0, Host), Running(2, 1, 1, Plain)}, <<2, 0>>)}
FriendBatches  == OneOf(Friend)

\* One volume for two replicas.
OneVolumeClusters ==
  {[Bare EXCEPT !.lateClasses = {"local"},
                !.volumes = {Volume("v1", "local", {1}, "")}]}
-----------------------------------------------------------------------------
(* What the theorems assume: that filters are convex, which those of       *)
(* KubeFilters are, and that no two replicas bring the same claim.         *)

ASSUME FiltersConvex ==
  \A c \in Clusters, spec \in Template, n \in Node :
    ConvexOn(c, c.pvcs, Running(0, NoNode, 0, spec), n, c.pods)

ASSUME NoClaimShared == ClaimsApart
===============================================================================
