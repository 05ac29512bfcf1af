--------------------------- MODULE LiveInformers ---------------------------
(***************************************************************************)
(* Run beside the informers.  New lists nodes, pods and PriorityClasses    *)
(* once, but the volume objects the filters read come from informers that  *)
(* New starts and nothing stops while Run works: whatever changes at the   *)
(* API server arrives between two steps of the simulator, or between two   *)
(* filter runs of one step, in the store where the simulator keeps the     *)
(* claims it made up.  An interrupt cancels the context that the filters   *)
(* are given and that keeps the informers going; Run never looks at it.    *)
(*                                                                         *)
(* In a cluster c the objects the informers serve are c.pvcs (as they are  *)
(* at the API server), c.volumes, c.lateClasses and c.provisioned;         *)
(* c.cancelled says that the context is done.                              *)
(***************************************************************************)
EXTENDS Simulator

\* c has the nodes, pods, classes and defaults New listed.
SameLists(c) ==
  /\ c.pods = cluster.pods /\ c.alloc = cluster.alloc /\ c.tainted = cluster.tainted
  /\ c.classes = cluster.classes /\ c.globalDefault = cluster.globalDefault
  /\ c.storageClass = cluster.storageClass

SameObjects(c) ==
  /\ c.pvcs = cluster.pvcs /\ c.volumes = cluster.volumes
  /\ c.lateClasses = cluster.lateClasses /\ c.provisioned = cluster.provisioned

\* What the informers may have heard of next, while they run.  (An interrupt in the
\* midst of tryPlace comes too late for PreFilter, so none is among them.)
Variants ==
  {c \in Clusters : SameLists(c) /\ ~c.cancelled /\ ~cluster.cancelled}

\* The store once the changes that lead to c's claims are delivered: the watch
\* sends what was added, modified or deleted, by name, and nothing else.
Delivered(store, c) ==
  LET changed == {q.name : q \in (c.pvcs \ cluster.pvcs) \cup (cluster.pvcs \ c.pvcs)}
  IN  {q \in store : q.name \notin changed} \cup {q \in c.pvcs : q.name \in changed}

\* Mutant: the filters are shown the pods New listed, not the ledger.
MeanwhileAsListed(c) == View(c, Delivered(Claims, c), ListScheduledPods(c))

\* What the filters see when the changes come after the injection of the claims.
Meanwhile(c) == View(c, Delivered(Claims, c), snapshot)
-----------------------------------------------------------------------------
\* Events between two steps of the simulator.
InformerEvent ==
  /\ \E c \in Variants : cluster' = c /\ pvcStore' = Delivered(pvcStore, c)
  /\ UNCHANGED <<batch, opts, allocated, ledger, snapshot, pc, progress, outcome, search>>

\* A watch that broke off is resumed with a new list, which replaces the store.
Relist ==
  /\ ~cluster.cancelled
  /\ pvcStore' = cluster.pvcs
  /\ UNCHANGED <<inputs, ledger, snapshot, pc, progress, outcome, search>>

Interrupt ==
  /\ ~cluster.cancelled
  /\ \E c \in Clusters : SameLists(c) /\ SameObjects(c) /\ c.cancelled /\ cluster' = c
  /\ UNCHANGED <<batch, opts, allocated, ledger, pvcStore, snapshot, pc, progress,
                 outcome, search>>
-----------------------------------------------------------------------------
(* Events between the filter runs of one tryPlace: each node is judged by  *)
(* what the informers have heard of when its turn comes.                   *)

\* Mutant: a replica that lost its claims is counted although it is not placed.
PlaceAmidEventsUnrecorded ==
  /\ Attempting
  /\ \E c \in Variants :
       /\ cluster' = c /\ pvcStore' = Delivered(Claims, c)
       /\ \E n \in Node : /\ n \in Accepting(Meanwhile(c), Current)
                          /\ wr' = [wr EXCEPT !.fit = @ + 1]
                          /\ ordinal' = ordinal + 1
  /\ UNCHANGED <<batch, opts, allocated, ledger, snapshot, pc, wi, outcome, search>>

PlaceAmidEvents ==
  /\ Attempting
  /\ \E c \in Variants :
       /\ cluster' = c /\ pvcStore' = Delivered(Claims, c)
       /\ \E n \in Node : /\ n \in Accepting(Meanwhile(c), Current)
                          /\ Commit(Current, n, {}, FALSE)
  /\ UNCHANGED <<batch, opts, allocated, wi, outcome, search>>

\* Each node rejected the replica at its own moment.
RejectedOneByOne ==
  \A n \in Node : \E c \in Variants : n \notin Accepting(Meanwhile(c), Current)

GiveUpAmidEvents ==
  /\ Attempting /\ RejectedOneByOne
  /\ \E c \in Variants : cluster' = c /\ pvcStore' = Delivered(Claims, c)
  /\ pc' = "report"
  /\ UNCHANGED <<batch, opts, allocated, ledger, snapshot, progress, outcome, search>>

SearchAmidEvents ==
  /\ Attempting /\ RejectedOneByOne
  /\ opts.considerPreemption
  /\ PreemptionMeaningful(cluster, Current)
  /\ \E c \in Variants : cluster' = c /\ pvcStore' = Delivered(Claims, c)
  /\ todo' \in SUBSET UNION {Rejecting(Meanwhile(c), Current) : c \in Variants}
  /\ removed' = {} /\ pending' = {}
  /\ pc' = "remove"
  /\ UNCHANGED <<batch, opts, allocated, ledger, snapshot, progress, outcome>>
-----------------------------------------------------------------------------
Outside == InformerEvent \/ Relist \/ Interrupt

\* The steps of Run, with or without events in their midst.
Program == Next \/ PlaceAmidEvents \/ GiveUpAmidEvents \/ SearchAmidEvents

LiveInit == Init /\ ~cluster.cancelled
LiveNext == Program \/ (pc \notin {"done", "error"} /\ Outside)
LiveSpec == LiveInit /\ [][LiveNext]_vars
===============================================================================
