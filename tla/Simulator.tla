------------------------------ MODULE Simulator ------------------------------
(***************************************************************************)
(* The what-if simulator of pkg/simulate: New takes a picture of a         *)
(* cluster, Run evaluates a batch of workloads against it one after the    *)
(* other, each replica consuming what the ones before it left.             *)
(*                                                                         *)
(* The steps follow the calls the program makes: a probe per workload, one *)
(* step per replica placed or given up, and, inside a preemption, one step *)
(* per pod that is taken out of, or put back into, the temporary snapshot. *)
(***************************************************************************)
EXTENDS Placement

VARIABLES
  cluster,        \* what the API server answered to New
  batch,          \* the workloads given to Run
  opts,           \* Options
  scheduledPods,  \* Simulator.scheduledPods: the ledger
  simulated,      \* Simulator.simulated: the pods this run has placed
  pvcStore,       \* the PVC informer's store
  snapshot,       \* the pods in the snapshot the lister serves
  allocated,      \* Run's allocated, computed once
  pc,             \* where Run is
  wi,             \* index of the current workload
  ordinal,        \* the loop variable i of runWorkload
  wr,             \* the WorkloadResult under construction
  results,        \* Result.Workloads
  schedulable,    \* Result.Schedulable
  todo,           \* nodes tryPreemption has still to try
  removed,        \* pods taken out of the temporary snapshot
  pending         \* victims minimizeVictims has still to reconsider

inputs   == <<cluster, batch, opts, allocated>>
ledger   == <<scheduledPods, simulated>>
progress == <<wi, ordinal, wr>>
outcome  == <<results, schedulable>>
search   == <<todo, removed, pending>>
vars     == <<inputs, ledger, pvcStore, snapshot, pc, progress, outcome, search>>
-----------------------------------------------------------------------------
(* What New reads from the cluster.                                        *)

\* A pod with no node, or one that has ended, uses no capacity.
ListScheduledPods(c) ==
  {p \in c.pods : p.node # NoNode /\ p.phase \notin {"Succeeded", "Failed"}}

\* The current workload and replica, the store once its claims are in it, and
\* what the filters see when the replica is tried.
W       == batch[wi]
Current == Replica(cluster, W, wi, ordinal)
ClaimsOfReplica0 == InjectPVCs(pvcStore, cluster, W, 0)  \* mutant of Claims
Claims  == InjectPVCs(pvcStore, cluster, W, ordinal)
Cycle   == View(cluster, Claims, snapshot)

\* The same for the probe, replica 0, and for a trial in a temporary snapshot.
Probe       == Replica(cluster, W, wi, 0)
\* Mutant of ProbeCycle: the probe sees the cluster as it was at the start.
StaleProbeCycle == View(cluster, InjectPVCs(pvcStore, cluster, W, 0), ListScheduledPods(cluster))
ProbeCycle  == View(cluster, InjectPVCs(pvcStore, cluster, W, 0), snapshot)
Trial(pods) == View(cluster, pvcStore, pods)
-----------------------------------------------------------------------------
WorkloadResult ==
  [feasible : 0 .. N, reasons : SUBSET Plugin,
   resources : UNION {[D -> ResourceFit] : D \in SUBSET Resource},
   fit : Nat, usedPreemption : BOOLEAN]

NewResult == [feasible |-> 0, reasons |-> {}, resources |-> [r \in {} |-> "OK"],
              fit |-> 0, usedPreemption |-> FALSE]

\* WorkloadResult.Schedulable
Fits(k, r) == r.fit = batch[k].replicas

Init ==
  /\ cluster \in Clusters
  /\ batch \in Batches
  /\ opts \in [considerPreemption : BOOLEAN]
  /\ scheduledPods = ListScheduledPods(cluster)
  /\ simulated = {}
  /\ pvcStore = cluster.pvcs
  /\ snapshot = scheduledPods
  /\ allocated = AllocatedByResource(scheduledPods)
  /\ pc = "probe" /\ wi = 1 /\ ordinal = 0 /\ wr = NewResult
  /\ results = << >> /\ schedulable = TRUE
  /\ todo = {} /\ removed = {} /\ pending = {}

\* The first half of runWorkload: feasibility and capacity of one replica.
ProbeWorkload ==
  /\ pc = "probe" /\ wi <= Len(batch) /\ Resolvable(cluster, W)
  /\ pvcStore' = ProbeCycle.pvcs
  /\ wr' = [NewResult EXCEPT
              !.feasible  = Cardinality(Accepting(ProbeCycle, Probe)),
              !.reasons   = FilterReasons(ProbeCycle, Probe),
              !.resources = ResourceStatuses(cluster.alloc, allocated,
                              RequestedByWorkload(W.spec, W.replicas))]
  /\ ordinal' = 0
  /\ pc' = "place"
  /\ UNCHANGED <<inputs, ledger, snapshot, wi, outcome, search>>

\* Run returns (nil, err): what was already evaluated is lost as well.
RejectWorkload ==
  /\ pc = "probe" /\ wi <= Len(batch) /\ ~Resolvable(cluster, W)
  /\ pvcStore' = ProbeCycle.pvcs
  /\ results' = << >>
  /\ pc' = "error"
  /\ UNCHANGED <<inputs, ledger, snapshot, progress, schedulable, search>>
-----------------------------------------------------------------------------
AttemptingOnceMore == pc = "place" /\ ordinal <= W.replicas  \* mutant
Attempting == pc = "place" /\ ordinal < W.replicas

\* Mutant: the snapshot is refreshed before the replica is appended.
CommitAfterRefresh(pod, n, victims, viaPreemption) ==
  LET placed == [pod EXCEPT !.node = n]
  IN  /\ scheduledPods' = (scheduledPods \ victims) \cup {placed}
      /\ simulated' = simulated \cup {placed}
      /\ snapshot' = scheduledPods \ victims
      /\ wr' = [wr EXCEPT !.fit = @ + 1,
                          !.usedPreemption = @ \/ viaPreemption]
      /\ ordinal' = ordinal + 1
      /\ pc' = "place"

\* The tail of an iteration that found a node.
Commit(pod, n, victims, viaPreemption) ==
  LET placed == [pod EXCEPT !.node = n]
  IN  /\ scheduledPods' = (scheduledPods \ victims) \cup {placed}
      /\ simulated' = simulated \cup {placed}
      /\ snapshot' = scheduledPods'
      /\ wr' = [wr EXCEPT !.fit = @ + 1,
                          !.usedPreemption = @ \/ viaPreemption]
      /\ ordinal' = ordinal + 1
      /\ pc' = "place"

\* tryPlace found the first node in name order that passes every filter.
PlaceReplica ==
  /\ Attempting
  /\ pvcStore' = Claims
  /\ \E n \in Node : /\ First(n, Accepting(Cycle, Current))
                     /\ Commit(Current, n, {}, FALSE)
  /\ UNCHANGED <<inputs, wi, outcome, search>>

\* No node passes, and preemption is off, pointless or not even reached.
GiveUp ==
  /\ Attempting
  /\ pvcStore' = Claims
  /\ Accepting(Cycle, Current) = {}
  /\ \/ ~PreFilter(Cycle, Current).ok
     \/ ~opts.considerPreemption
     \/ ~PreemptionMeaningful(cluster, Current)
  /\ pc' = "report"
  /\ UNCHANGED <<inputs, ledger, snapshot, progress, outcome, search>>

StartPreemption ==
  /\ Attempting
  /\ pvcStore' = Claims
  /\ Accepting(Cycle, Current) = {}
  /\ PreFilter(Cycle, Current).ok
  /\ opts.considerPreemption
  /\ PreemptionMeaningful(cluster, Current)
  /\ todo' = Rejecting(Cycle, Current)
  /\ removed' = {} /\ pending' = {}
  /\ pc' = "remove"
  /\ UNCHANGED <<inputs, ledger, snapshot, progress, outcome>>
-----------------------------------------------------------------------------
(* preemptionVictimsOnNode and minimizeVictims, one snapshot at a time.    *)

RemoveVictim ==
  /\ pc = "remove"
  /\ \E n \in todo, v \in scheduledPods :
       /\ First(n, todo)
       /\ Lowest(v, Candidates(scheduledPods, simulated, Current, n) \ removed)
       /\ removed' = removed \cup {v}
       /\ snapshot' = scheduledPods \ removed'
       /\ IF FitsOnNode(Trial(snapshot'), Current, n)
          THEN pc' = "minimize" /\ pending' = removed'
          ELSE UNCHANGED <<pc, pending>>
  /\ UNCHANGED <<inputs, ledger, pvcStore, progress, outcome, todo>>

\* Mutants of NextNode: the first failure ends the search; a node without
\* candidates is not skipped; what was removed from one node stays removed.
NoNextNode ==
  /\ pc = "remove"
  /\ \E n \in todo :
       /\ First(n, todo)
       /\ Candidates(scheduledPods, simulated, Current, n) \subseteq removed
  /\ todo' = {} /\ removed' = {}
  /\ UNCHANGED <<inputs, ledger, pvcStore, snapshot, pc, progress, outcome, pending>>

NextNodeIfTried ==
  /\ pc = "remove" /\ removed # {}
  /\ \E n \in todo :
       /\ First(n, todo)
       /\ Candidates(scheduledPods, simulated, Current, n) \subseteq removed
       /\ todo' = todo \ {n}
  /\ removed' = {}
  /\ UNCHANGED <<inputs, ledger, pvcStore, snapshot, pc, progress, outcome, pending>>

NextNodeKeepingRemoved ==
  /\ pc = "remove"
  /\ \E n \in todo :
       /\ First(n, todo)
       /\ Candidates(scheduledPods, simulated, Current, n) \subseteq removed
       /\ todo' = todo \ {n}
  /\ UNCHANGED <<inputs, ledger, pvcStore, snapshot, pc, progress, outcome, pending, removed>>

\* Even without all its candidates the node rejects the pod (or it has none).
\* The snapshot keeps the last trial until the next one replaces it.
NextNode ==
  /\ pc = "remove"
  /\ \E n \in todo :
       /\ First(n, todo)
       /\ Candidates(scheduledPods, simulated, Current, n) \subseteq removed
       /\ todo' = todo \ {n}
  /\ removed' = {}
  /\ UNCHANGED <<inputs, ledger, pvcStore, snapshot, pc, progress, outcome, pending>>

\* Mutants: the replica is tried again; the deferred refreshSnapshot is missing.
AbandonAndRetry ==
  /\ pc = "remove" /\ todo = {}
  /\ snapshot' = scheduledPods
  /\ pc' = "place"
  /\ UNCHANGED <<inputs, ledger, pvcStore, progress, outcome, search>>

AbandonWithoutRefresh ==
  /\ pc = "remove" /\ todo = {}
  /\ pc' = "report"
  /\ UNCHANGED <<inputs, ledger, pvcStore, snapshot, progress, outcome, search>>

\* No node helps: the deferred refreshSnapshot, then runWorkload's break.
AbandonPreemption ==
  /\ pc = "remove" /\ todo = {}
  /\ snapshot' = scheduledPods
  /\ pc' = "report"
  /\ UNCHANGED <<inputs, ledger, pvcStore, progress, outcome, search>>

\* Mutant: nobody is put back.
ReprieveNobody ==
  /\ pc = "minimize"
  /\ \E n \in todo, v \in pending :
       /\ First(n, todo)
       /\ Highest(v, pending)
       /\ pending' = pending \ {v}
       /\ snapshot' = scheduledPods \ (removed \ {v})
  /\ UNCHANGED <<inputs, ledger, pvcStore, pc, progress, outcome, todo, removed>>

\* A victim stays evicted only if the pod does not fit with it back in place.
Reprieve ==
  /\ pc = "minimize"
  /\ \E n \in todo, v \in pending :
       /\ First(n, todo)
       /\ Highest(v, pending)
       /\ pending' = pending \ {v}
       /\ snapshot' = scheduledPods \ (removed \ {v})
       /\ removed' = IF FitsOnNode(Trial(snapshot'), Current, n)
                     THEN removed \ {v} ELSE removed
  /\ UNCHANGED <<inputs, ledger, pvcStore, pc, progress, outcome, todo>>

PreemptReplica ==
  /\ pc = "minimize" /\ pending = {}
  /\ \E n \in todo : /\ First(n, todo)
                     /\ Commit(Current, n, removed, TRUE)
  /\ todo' = {} /\ removed' = {}
  /\ UNCHANGED <<inputs, pvcStore, wi, outcome, pending>>
-----------------------------------------------------------------------------
\* Mutant: the last workload decides the verdict.
ReportLastVerdict ==
  /\ pc = "report" \/ (pc = "place" /\ ordinal >= W.replicas)
  /\ results' = Append(results, wr)
  /\ schedulable' = Fits(wi, wr)
  /\ wi' = wi + 1
  /\ pc' = "probe"
  /\ UNCHANGED <<inputs, ledger, pvcStore, snapshot, ordinal, wr, search>>

\* runWorkload returns: the loop is over, or it broke off.
ReportWorkload ==
  /\ pc = "report" \/ (pc = "place" /\ ordinal >= W.replicas)
  /\ results' = Append(results, wr)
  /\ schedulable' = (schedulable /\ Fits(wi, wr))
  /\ wi' = wi + 1
  /\ pc' = "probe"
  /\ UNCHANGED <<inputs, ledger, pvcStore, snapshot, ordinal, wr, search>>

Finish ==
  /\ pc = "probe" /\ wi > Len(batch)
  /\ pc' = "done"
  /\ UNCHANGED <<inputs, ledger, pvcStore, snapshot, progress, outcome, search>>

Next ==
  \/ ProbeWorkload \/ RejectWorkload
  \/ PlaceReplica \/ GiveUp
  \/ StartPreemption \/ RemoveVictim \/ NextNode \/ AbandonPreemption
  \/ Reprieve \/ PreemptReplica
  \/ ReportWorkload \/ Finish

Spec == Init /\ [][Next]_vars
-----------------------------------------------------------------------------
(* Correctness.                                                            *)

Initial    == ListScheduledPods(cluster)
Evicted    == Initial \ scheduledPods
Reported   == 1 .. Len(results)
ReplicasOf(k) == {p \in simulated : p.id[1] = k}

\* Every variable stays in its type; the loops stay inside their bounds, only
\* pods the run did not place are ever taken out of a snapshot, and only while
\* a preemption search is on.
TypeOK ==
  /\ cluster \in Clusters /\ batch \in Batches
  /\ opts \in [considerPreemption : BOOLEAN]
  /\ scheduledPods \subseteq Pod
  /\ simulated \subseteq scheduledPods
  /\ snapshot \subseteq scheduledPods
  /\ pvcStore \subseteq PVC
  /\ DOMAIN allocated = Resource
  /\ pc \in {"probe", "place", "remove", "minimize", "report", "done", "error"}
  /\ wi \in 1 .. Len(batch) + 1
  /\ pc \in {"place", "remove", "minimize", "report"} =>
       wi <= Len(batch) /\ Resolvable(cluster, W) /\ ordinal <= W.replicas
  /\ pc \in {"remove", "minimize"} => ordinal < W.replicas
  /\ ordinal \in Nat
  /\ wr \in WorkloadResult
  /\ results \in Seq(WorkloadResult)
  /\ schedulable \in BOOLEAN
  /\ todo \subseteq Node
  /\ pending \subseteq removed /\ removed \subseteq scheduledPods \ simulated
  /\ pending # {} => pc = "minimize"
  /\ removed # {} => pc \in {"remove", "minimize"} /\ todo # {}

\* Outside a preemption search the lister serves the ledger, so the trial
\* snapshots of one search are never what a later replica or workload is
\* evaluated against (setSnapshotWithout, the deferred refreshSnapshot).
SnapshotInSync == pc \notin {"remove", "minimize"} => snapshot = scheduledPods

\* A reported ReplicasFit is good for the rest of the run: exactly that many
\* replicas of the workload still hold their place in the ledger, whatever
\* later workloads evicted.
ReplicasStand ==
  \A k \in Reported : /\ Cardinality(ReplicasOf(k)) = results[k].fit
                      /\ ReplicasOf(k) \subseteq scheduledPods

\* The probe and the greedy loop agree on a workload's first replica: feasible
\* nodes mean it is placed without evicting anyone, none that it is not.
FeasibilityAgrees ==
  pc = "probe" => \A k \in Reported :
    batch[k].replicas >= 1 =>
      /\ results[k].feasible > 0 => results[k].fit >= 1
      /\ results[k].feasible = 0 /\ results[k].fit >= 1 => results[k].usedPreemption

\* Whoever was evicted is outranked by a replica that now runs on its node, and
\* nobody is unless preemption is considered and, if there is a report, a
\* workload says it was used.
EvictedOnlyForHigher ==
  /\ \A p \in Evicted : \E q \in simulated : q.node = p.node /\ q.prio > p.prio
  /\ Evicted # {} => opts.considerPreemption
  /\ Evicted # {} /\ pc # "error" =>
       wr.usedPreemption \/ \E k \in Reported : results[k].usedPreemption

\* No node is filled beyond what it offers, unless the cluster already had it
\* so and then no further: replicas and evictions are all accounted for.
NoOvercommit ==
  \A n \in Node, r \in Resource :
    LET used(pods) == UsedBy({p \in pods : p.node = n}, r)
    IN  \/ used(scheduledPods) <= cluster.alloc[n][r]
        \/ used(scheduledPods) <= used(Initial)

\* A replica keeps passing every filter on its node among the pods that are
\* placed or evicted after it.
PlacedReplicasStillFit ==
  pc = "probe" => \A p \in simulated :
    FitsOnNode(Trial(scheduledPods \ {p}), p, p.node)

\* The claims that were injected for what is reported so far: those of the replicas
\* that were placed, of the one that was not, and of the probe of no replica.
MadeUpFor(w, last) == UNION {ClaimsOf(w, i) : i \in {o \in Tried(w) : o <= last}}
MadeUp == UNION {MadeUpFor(batch[k], results[k].fit) : k \in Reported}

\* The claim store is accounted for between workloads: what the cluster listed is
\* there unless a claim of its name was made up, no claim made up is missing, be its
\* replica placed or not, and what bears such a name is not bound and has a class if
\* there is a default.
ClaimsAccounted ==
  pc = "probe" =>
    /\ \A q \in pvcStore \cup cluster.pvcs :
         q.name \notin MadeUp => q \in pvcStore \cap cluster.pvcs
    /\ \A name \in MadeUp : \E q \in pvcStore : q.name = name
    /\ \A q \in pvcStore : q.name \in MadeUp =>
         q.volume = Empty /\ (q.class = Empty => cluster.storageClass = Empty)

\* The two halves of a report agree: a workload that fits with nobody evicted,
\* in a cluster that was not overcommitted and all of whose pods run on nodes that
\* were listed, was never told that a resource it asks for is short or absent.
CapacityHonest ==
  \A k \in Reported :
    ( /\ Fits(k, results[k])
      /\ \A j \in 1 .. k : ~results[j].usedPreemption
      /\ \A p \in Initial : p.node # Elsewhere
      /\ \A n \in Node, r \in Resource :
           UsedBy({p \in Initial : p.node = n}, r) <= cluster.alloc[n][r] )
    => \A r \in DOMAIN results[k].resources :
         batch[k].replicas * batch[k].spec.req[r] > 0 => results[k].resources[r] = "OK"

\* The verdict the exit code is made of: schedulable if and only if every
\* workload of the batch was evaluated and fits in full.
VerdictExact ==
  pc = "done" => /\ Len(results) = Len(batch)
                 /\ schedulable <=> \A k \in Reported : Fits(k, results[k])

\* A step evicts only to place a replica no node accepts as things are; all
\* victims are on the node it gets, and it would not fit with any one of them
\* back ("the minimal victim set that makes the pod fit").
MinimalEviction ==
  [][LET victims == scheduledPods \ scheduledPods'
     IN  victims # {} =>
           \E p \in simulated' \ simulated :
             LET pod == [p EXCEPT !.node = NoNode]
             IN  /\ Accepting(Trial(scheduledPods), pod) = {}
                 /\ FitsOnNode(Trial(scheduledPods \ victims), pod, p.node)
                 /\ \A v \in victims :
                      /\ v.node = p.node
                      /\ ~FitsOnNode(Trial(scheduledPods \ (victims \ {v})), pod, p.node)
    ]_vars

\* What Run has left to do, most significant first: workloads, phases of the one at
\* hand, replicas, phases of a search, its nodes, and its pods to remove or restore.
Left ==
  LET looping == pc \in {"place", "remove", "minimize"}
  IN  << Len(batch) + 1 - wi,
         IF pc = "probe" THEN 3 ELSE IF looping THEN 2 ELSE IF pc = "report" THEN 1 ELSE 0,
         IF looping THEN W.replicas - ordinal ELSE 0,
         IF pc = "place" THEN 2 ELSE IF pc = "remove" THEN 1 ELSE 0,
         Cardinality(todo),
         IF pc = "remove" THEN Cardinality(scheduledPods \ removed) ELSE Cardinality(pending) >>

\* Every step leaves less to do, so that no run goes on for ever: no loop of
\* runWorkload, tryPreemption or minimizeVictims comes back to where it was.
AlwaysCloser ==
  [][\E i \in DOMAIN Left :
       /\ Left[i]' \in Nat /\ Left[i]' < Left[i]
       /\ \A j \in 1 .. i - 1 : Left[j]' = Left[j]]_vars
-----------------------------------------------------------------------------
(* What a preemption search knows at each of its steps.                    *)

Searching == pc \in {"remove", "minimize"}
Resisting == Rejecting(Trial(scheduledPods), Current)
Victims(n) == Candidates(scheduledPods, simulated, Current, n)
FitsWithout(pods, n) == FitsOnNode(Trial(scheduledPods \ pods), Current, n)

\* Evicting everything that may be evicted from n lets the replica in.
Helps(n) == n \in Resisting /\ Victims(n) # {} /\ FitsWithout(Victims(n), n)

\* A search is on only if asked for, and takes only pods of the cluster that the
\* replica outranks, all from the node at hand.  Who may be evicted depends on what
\* New listed and on the ledger, never on what the filters answer.
VictimsEligible ==
  /\ Searching => opts.considerPreemption
  /\ \A n \in todo : Searching /\ First(n, todo) => removed \subseteq Victims(n)

\* A search is for a replica that no node accepts and that may preempt; it takes
\* the nodes in order, and gives one up only if evicting all it may evict there
\* does not help.  Of the node at hand it removes only what it may evict, and it
\* minimises only a set whose removal lets the replica in.
SearchSound ==
  /\ Searching =>
       /\ opts.considerPreemption /\ PreemptionMeaningful(cluster, Current)
       /\ pvcStore = Claims
       /\ Accepting(Trial(scheduledPods), Current) = {}
       /\ todo \subseteq Resisting
       /\ \A m \in Resisting \ todo : ~Helps(m) /\ \A n \in todo : m < n
  /\ \A n \in todo : Searching /\ First(n, todo) =>
       /\ removed \subseteq Victims(n)
       /\ FitsWithout(removed, n) <=> pc = "minimize"

\* Every victim that was reconsidered and not put back is needed.
VictimsNeeded ==
  \A n \in todo : pc = "minimize" /\ First(n, todo) =>
    \A v \in removed \ pending : ~FitsWithout(removed \ {v}, n)
-----------------------------------------------------------------------------
(* The simulator implements first fit: outside a search the snapshot is the *)
(* ledger, and a search shows only in the replica it places or gives up.   *)

Phases == IF pc = "probe" THEN "next"
          ELSE IF pc \in {"place", "remove", "minimize"} THEN "open"
          ELSE IF pc = "report" THEN "closed" ELSE pc

Verdicts == [j \in Reported |-> [fit |-> results[j].fit, preempted |-> results[j].usedPreemption]]

Promise == INSTANCE FirstFit WITH
  ledger    <- scheduledPods,
  placed    <- simulated,
  store     <- pvcStore,
  phase     <- Phases,
  k         <- wi,
  i         <- ordinal,
  preempted <- wr.usedPreemption,
  verdicts  <- Verdicts

\* Every run of the simulator is a run of FirstFit: a replica goes to the first
\* node that takes it, room is made on the first node where evicting helps and
\* by an irreducible set of victims, and a workload stops short only when
\* neither is possible.
ImplementsFirstFit == Promise!Spec
===============================================================================
