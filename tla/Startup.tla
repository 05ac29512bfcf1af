------------------------------- MODULE Startup -------------------------------
(***************************************************************************)
(* simulate.New beside a cluster that goes on living.  Nodes, pods,        *)
(* PriorityClasses and StorageClasses are listed by one request each, the  *)
(* informers the scheduler's plugins asked for fill their caches at their  *)
(* own pace, and New waits for all of them.  Any request may be refused;   *)
(* an informer that is refused tries again for ever.  An interrupt cancels *)
(* the context all of this depends on.                                     *)
(***************************************************************************)
EXTENDS Naturals

CONSTANTS
  NodeName, PodName,
  Informer,    \* the types whose informers plugins or New ask the factory for
  None,        \* a pod that is on no node, or has ended
  MaxChanges   \* bound on what happens in the cluster while New runs

VARIABLES
  nodes,       \* the nodes the cluster has
  where,       \* where[p] is the node p runs on
  changes,     \* how often the cluster has changed
  served,      \* the informers whose lists the server answers
  pc,          \* the call New is in
  cancelled,   \* ctx.Done() is closed
  started,     \* the informers the factory has started
  synced,      \* those whose caches have their first list
  nodeList,    \* what listNodes returned
  podList,     \* what listScheduledPods returned: the nodes of those pods
  settled      \* who has been where since the nodes were listed

world == <<nodes, where, changes>>
lists == <<nodeList, podList>>
caches == <<started, synced>>
vars  == <<world, served, pc, cancelled, caches, lists, settled>>

ASSUME NoneIsNoNode == None \notin NodeName
ASSUME ChangesAreCounted == MaxChanges \in Nat

Returned == pc \in {"ready", "failed"}

\* listScheduledPods skips the pods without a node and those that have ended.
Scheduled == [p \in {q \in PodName : where[q] # None} |-> where[p]]

Init ==
  /\ nodes \in SUBSET NodeName
  /\ where \in [PodName -> nodes \cup {None}]
  /\ changes = 0
  /\ served \in SUBSET Informer
  /\ pc = "framework" /\ cancelled = FALSE /\ started = {} /\ synced = {}
  /\ nodeList = {} /\ podList = [p \in {} |-> None]
  /\ settled = {}
-----------------------------------------------------------------------------
(* The cluster.                                                            *)

Changed ==
  /\ ~Returned /\ changes < MaxChanges
  /\ changes' = changes + 1
  /\ settled' = {s \in settled : where'[s.pod] = s.node /\ s.node \in nodes'}
  /\ UNCHANGED <<served, pc, cancelled, caches, lists>>

NodeJoins  == nodes' \in {nodes \cup {n} : n \in NodeName \ nodes} /\ where' = where /\ Changed

\* The pods of a node that left are deleted later, like any other pod.
NodeLeaves == nodes' \in {nodes \ {n} : n \in nodes} /\ where' = where /\ Changed

PodStarts ==
  /\ \E p \in PodName, n \in nodes : where[p] = None /\ where' = [where EXCEPT ![p] = n]
  /\ nodes' = nodes /\ Changed

PodEnds ==
  /\ \E p \in PodName : where[p] # None /\ where' = [where EXCEPT ![p] = None]
  /\ nodes' = nodes /\ Changed
-----------------------------------------------------------------------------
(* New.                                                                    *)

\* Mutant: the pods are listed before the nodes.
PodsFirst ==
  [framework |-> "pods", pods |-> "nodes", nodes |-> "start", start |-> "sync",
   sync |-> "classes", classes |-> "storage", storage |-> "ready"]

\* The call that comes after each.
After ==
  [framework |-> "nodes", nodes |-> "pods", pods |-> "start", start |-> "sync",
   sync |-> "classes", classes |-> "storage", storage |-> "ready"]

Call(call) ==
  /\ pc = call /\ pc' = After[call]
  /\ UNCHANGED <<world, served, cancelled>>

\* No request is sent, nor its answer waited for, once the context is done.
Request(call) == ~cancelled /\ Call(call)

BuildFramework == Call("framework") /\ UNCHANGED <<caches, lists, settled>>

ListNodes ==
  /\ Request("nodes")
  /\ nodeList' = nodes
  /\ settled' = {[pod |-> p, node |-> where[p]] : p \in {q \in PodName : where[q] \in nodes}}
  /\ UNCHANGED <<caches, podList>>

\* Mutant: the pods without a node are not skipped.
ListEveryPod ==
  /\ Request("pods")
  /\ podList' = where
  /\ UNCHANGED <<caches, nodeList, settled>>

ListScheduledPods ==
  /\ Request("pods")
  /\ podList' = Scheduled
  /\ UNCHANGED <<caches, nodeList, settled>>

\* All that was asked for is started: the plugins asked when the framework was built,
\* and New asks for the claims once more.
StartInformers ==
  /\ Call("start")
  /\ started' = Informer
  /\ UNCHANGED <<synced, lists, settled>>

\* An informer has its first list.
InformerSyncs(i) ==
  /\ i \in (started \cap served) \ synced /\ ~cancelled /\ ~Returned
  /\ synced' = synced \cup {i}
  /\ UNCHANGED <<world, served, pc, cancelled, started, lists, settled>>

\* Mutant: a wait that was cut short counts as one that is over.
WaitUnchecked ==
  /\ started \subseteq synced \/ cancelled
  /\ Call("sync")
  /\ UNCHANGED <<caches, lists, settled>>

\* The wait is for the informers that were started.
WaitForCacheSync ==
  /\ started \subseteq synced /\ Call("sync")
  /\ UNCHANGED <<caches, lists, settled>>

ListPriorityClasses == Request("classes") /\ UNCHANGED <<caches, lists, settled>>

DefaultStorageClassName == Request("storage") /\ UNCHANGED <<caches, lists, settled>>

\* Mutant: the wait does not watch the context.
FailUnheard ==
  /\ pc \in {"framework", "nodes", "pods", "classes", "storage"}
  /\ pc' = "failed"
  /\ UNCHANGED <<world, served, cancelled, caches, lists, settled>>

\* The framework cannot be built, a list is refused, or the context is done before
\* a list, or the first list of an informer, has arrived.
Fail ==
  /\ \/ pc \in {"framework", "nodes", "pods", "classes", "storage"}
     \/ pc = "sync" /\ cancelled /\ ~(started \subseteq synced)
  /\ pc' = "failed"
  /\ UNCHANGED <<world, served, cancelled, caches, lists, settled>>

Interrupt ==
  /\ ~cancelled /\ ~Returned
  /\ cancelled' = TRUE
  /\ UNCHANGED <<world, served, pc, caches, lists, settled>>
-----------------------------------------------------------------------------
Cluster == NodeJoins \/ NodeLeaves \/ PodStarts \/ PodEnds

New ==
  \/ BuildFramework \/ ListNodes \/ ListScheduledPods \/ StartInformers
  \/ WaitForCacheSync \/ ListPriorityClasses \/ DefaultStorageClassName \/ Fail

Next == Cluster \/ New \/ Interrupt \/ \E i \in Informer : InformerSyncs(i)

Spec == Init /\ [][Next]_vars

\* A request is answered, with a list or an error, and an informer the server
\* serves has its list in the end; nobody is bound to interrupt.
FairSpec ==
  /\ Spec /\ WF_vars(New)
  /\ \A i \in Informer : WF_vars(InformerSyncs(i))
-----------------------------------------------------------------------------
\* Every variable stays in its type, and New's results are there when it returns.
TypeOK ==
  /\ nodes \in SUBSET NodeName
  /\ where \in [PodName -> NodeName \cup {None}]
  /\ changes \in 0 .. MaxChanges
  /\ served \in SUBSET Informer
  /\ pc \in DOMAIN After \cup {"ready", "failed"}
  /\ cancelled \in BOOLEAN
  /\ started \in SUBSET Informer /\ synced \in SUBSET (started \cap served)
  /\ nodeList \in SUBSET NodeName
  /\ podList \in UNION {[P -> NodeName] : P \in SUBSET PodName}
  /\ settled \in SUBSET [pod : PodName, node : NodeName]

\* No plugin will ever read a cache that has not had its first list, whoever asked
\* for its informer and whenever an interrupt comes: New passes the wait only with
\* all of them filled.
CachesFilled == pc \in {"classes", "storage", "ready"} => synced = Informer

\* No node looks emptier than it is for a reason of order: a pod that was on its
\* node when the nodes were listed, and has not left since, is in the snapshot on
\* that node.  (This is why nodes are listed before pods.)
ResidentsCounted ==
  pc \in {"start", "sync", "classes", "storage", "ready"} =>
    \A s \in settled : /\ s.node \in nodeList
                       /\ s.pod \in DOMAIN podList
                       /\ podList[s.pod] = s.node

\* New returns if the server lets every informer list, and it returns on an
\* interrupt even if some informer is refused for ever.
ReturnsUnlessStarved == cancelled \/ served = Informer ~> Returned
===============================================================================
