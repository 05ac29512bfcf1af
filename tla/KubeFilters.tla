----------------------------- MODULE KubeFilters -----------------------------
(***************************************************************************)
(* What the default profile of kube-scheduler answers, for the features of *)
(* a pod that the simulator's own logic depends on.  The scheduler is a    *)
(* library (k8s.io/kubernetes v1.36); it is modelled from how the          *)
(* simulator uses it: one pod, one node, one verdict with the name of the  *)
(* plugin that gave it and a code that says whether preemption could help. *)
(*                                                                         *)
(* A pod template says what it requests (req), which nodes its             *)
(* node affinity admits (selects) and, if it names them by metadata.name,  *)
(* that it does (pinned), whether it tolerates the taint some nodes bear,  *)
(* which host port it opens (0: none), its label, the labels it wants on   *)
(* its node (needs, empty: none) or does not (avoids), and the claims it uses.*)
(***************************************************************************)
EXTENDS Capacity, Sequences, FiniteSetsExt

On(view, n)    == {p \in view.pods : p.node = n}
PVCsOf(view, pod) == {q \in view.pvcs : q.name \in pod.claims}

\* A claim waits for its first consumer if its class says so; one without a
\* class does not.
Immediate(view, claim) ==
  claim.volume = Empty /\ claim.class \notin view.cluster.lateClasses

KubePreFilter(view, pod) ==
  LET known  == {q.name : q \in PVCsOf(view, pod)}
      all    == DOMAIN view.cluster.alloc
      no(plugin) == [ok |-> FALSE, plugin |-> plugin, nodes |-> {}, narrowedBy |-> {}]
  IN  IF ~ pod.claims \subseteq known THEN no("VolumeRestrictions")
      ELSE IF \E q \in PVCsOf(view, pod) : Immediate(view, q) THEN no("VolumeBinding")
      ELSE IF pod.spec.pinned
           THEN [ok |-> TRUE, plugin |-> Empty, nodes |-> pod.spec.selects \cap all,
                 narrowedBy |-> {"NodeAffinity"}]
      ELSE [ok |-> TRUE, plugin |-> Empty, nodes |-> all, narrowedBy |-> {}]
-----------------------------------------------------------------------------
PortTaken(view, pod, n) ==
  pod.spec.port # 0 /\ \E p \in On(view, n) : p.spec.port = pod.spec.port

Free(view, n, r) == view.cluster.alloc[n][r] - UsedBy(On(view, n), r)

\* Only what the pod requests is compared, so a node that is already
\* overcommitted accepts a pod that asks for nothing.
Asks(pod) == {r \in DOMAIN pod.spec.req : pod.spec.req[r] > 0}

TooBusy(view, pod, n)  == \E r \in Asks(pod) : pod.spec.req[r] > Free(view, n, r)
TooSmall(view, pod, n) == \E r \in Asks(pod) : pod.spec.req[r] > view.cluster.alloc[n][r]

\* A bound claim goes where its volume is; a late-binding one needs a volume
\* of its class on the node, unless its class provisions volumes.
Matches(volume, claim, n) ==
  /\ n \in volume.nodes
  /\ IF claim.volume # Empty THEN volume.name = claim.volume
     ELSE volume.class = claim.class /\ volume.claimRef \in {Empty, claim.name}

Bindable(view, pod, n) ==
  LET static == {q \in PVCsOf(view, pod) :
                   q.volume # Empty \/ q.class \notin view.cluster.provisioned}
  IN  \E f \in Injection(static, view.cluster.volumes) :
        \A q \in static : Matches(f[q], q, n)

\* InterPodAffinity looks at the pods of the nodes it knows, on several goroutines
\* that stop without a word once the context of the call is done.
Seen(view) ==
  IF view.cluster.cancelled THEN {}
  ELSE {p \in view.pods : p.node \in DOMAIN view.cluster.alloc}

Labels(pods) == {p.spec.label : p \in pods}

\* The first pod of a group that wants its own kind beside it may go anywhere.
Lonely(view, pod, n) ==
  /\ pod.spec.needs # Empty
  /\ pod.spec.needs \notin Labels(Seen(view) \cap On(view, n))
  /\ ~ (pod.spec.needs \notin Labels(Seen(view)) /\ pod.spec.label = pod.spec.needs)

Repelled(view, pod, n) ==
  \E p \in Seen(view) \cap On(view, n) : p.spec.label \in pod.spec.avoids
                      \/ pod.spec.label \in p.spec.avoids
-----------------------------------------------------------------------------
\* The filter plugins in the order of the default profile.
Checks(view, pod, n) == <<
  [says |-> n \in view.cluster.tainted /\ ~pod.spec.tolerates,
   code |-> "Unresolvable",  plugin |-> "TaintToleration"],
  [says |-> n \notin pod.spec.selects,
   code |-> "Unresolvable",  plugin |-> "NodeAffinity"],
  [says |-> PortTaken(view, pod, n),
   code |-> "Unschedulable", plugin |-> "NodePorts"],
  [says |-> TooBusy(view, pod, n),
   code |-> IF TooSmall(view, pod, n) THEN "Unresolvable" ELSE "Unschedulable",
   plugin |-> "NodeResourcesFit"],
  [says |-> ~Bindable(view, pod, n),
   code |-> "Unresolvable",  plugin |-> "VolumeBinding"],
  [says |-> Lonely(view, pod, n),
   code |-> "Unresolvable",  plugin |-> "InterPodAffinity"],
  [says |-> Repelled(view, pod, n),
   code |-> "Unschedulable", plugin |-> "InterPodAffinity"] >>

KubeFilter(view, pod, n) ==
  LET checks == Checks(view, pod, n)
      saying == {i \in DOMAIN checks : checks[i].says}
  IN  IF saying = {} THEN [code |-> "Success", plugin |-> Empty]
      ELSE [code |-> checks[Min(saying)].code, plugin |-> checks[Min(saying)].plugin]

KubePlugin == {Empty, "TaintToleration", "NodeAffinity", "NodePorts",
               "NodeResourcesFit", "VolumeRestrictions", "VolumeBinding",
               "InterPodAffinity"}
===============================================================================
