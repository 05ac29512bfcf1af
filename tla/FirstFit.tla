------------------------------- MODULE FirstFit -------------------------------
(***************************************************************************)
(* What a simulation promises, without its machinery: a ledger of pods, no *)
(* snapshots, no search.  Replicas are taken in order.  Each one goes to   *)
(* the first node that accepts it as the ledger stands; if none does, room *)
(* may be made on the first node where evicting helps, by a set of pods    *)
(* the replica outranks of which each one is needed; if that is impossible *)
(* too, the workload is closed at the replicas it has.                     *)
(***************************************************************************)
EXTENDS Placement

VARIABLES
  cluster, batch, opts,   \* the inputs
  ledger,                 \* the pods that hold capacity
  placed,                 \* those of them this run placed
  store,                  \* the claims the filters know of
  phase,                  \* "next", "open", "closed", "done" or "error"
  k, i,                   \* the workload, the replica
  preempted,              \* whether the workload has evicted anything
  verdicts                \* per closed workload, replicas placed and preempted

vars == <<cluster, batch, opts, ledger, placed, store, phase, k, i, preempted, verdicts>>
world == <<cluster, batch, opts>>

Pending    == Replica(cluster, batch[k], k, i)
Injected   == InjectPVCs(store, cluster, batch[k], i)
Nodes(pods) == Accepting(View(cluster, Injected, pods), Pending)
Evictable(n) == Candidates(ledger, placed, Pending, n)

MayPreempt == opts.considerPreemption /\ PreemptionMeaningful(cluster, Pending)
Resisting  == Rejecting(View(cluster, Injected, ledger), Pending)

\* Evicting everything that may be evicted from n lets the replica in.
Helps(n) == n \in Resisting /\ Evictable(n) # {} /\ n \in Nodes(ledger \ Evictable(n))

Init ==
  /\ cluster \in Clusters /\ batch \in Batches
  /\ opts \in [considerPreemption : BOOLEAN]
  /\ ledger = {p \in cluster.pods : p.node # NoNode /\ p.phase \notin {"Succeeded", "Failed"}}
  /\ placed = {} /\ store = cluster.pvcs
  /\ phase = "next" /\ k = 1 /\ i = 0 /\ preempted = FALSE /\ verdicts = << >>

Open ==
  /\ phase = "next" /\ k <= Len(batch) /\ Resolvable(cluster, batch[k])
  /\ phase' = "open" /\ i' = 0 /\ preempted' = FALSE
  /\ store' = InjectPVCs(store, cluster, batch[k], 0)
  /\ UNCHANGED <<world, ledger, placed, k, verdicts>>

Fail ==
  /\ phase = "next" /\ k <= Len(batch) /\ ~Resolvable(cluster, batch[k])
  /\ phase' = "error" /\ verdicts' = << >>
  /\ store' = InjectPVCs(store, cluster, batch[k], 0)
  /\ UNCHANGED <<world, ledger, placed, k, i, preempted>>

Attempt == phase = "open" /\ i < batch[k].replicas

Inject ==
  /\ Attempt
  /\ store' = Injected
  /\ UNCHANGED <<world, ledger, placed, phase, k, i, preempted, verdicts>>

Land(n, victims) ==
  /\ ledger' = (ledger \ victims) \cup {[Pending EXCEPT !.node = n]}
  /\ placed' = placed \cup {[Pending EXCEPT !.node = n]}
  /\ store' = Injected
  /\ i' = i + 1
  /\ UNCHANGED <<world, phase, k, verdicts>>

Place ==
  /\ Attempt
  /\ \E n \in Node : First(n, Nodes(ledger)) /\ Land(n, {})
  /\ UNCHANGED preempted

Preempt ==
  /\ Attempt /\ MayPreempt /\ Nodes(ledger) = {}
  /\ \E n \in Resisting : \E victims \in (SUBSET Evictable(n)) \ {{}} :
       /\ \A m \in Resisting : m < n => ~Helps(m)
       /\ n \in Nodes(ledger \ victims)
       /\ \A v \in victims : n \notin Nodes(ledger \ (victims \ {v}))
       /\ Land(n, victims)
  /\ preempted' = TRUE

Stop ==
  /\ Attempt /\ Nodes(ledger) = {}
  /\ MayPreempt => \A n \in Node : ~Helps(n)
  /\ phase' = "closed" /\ store' = Injected
  /\ UNCHANGED <<world, ledger, placed, k, i, preempted, verdicts>>

Close ==
  /\ phase = "closed" \/ (phase = "open" /\ i >= batch[k].replicas)
  /\ verdicts' = Append(verdicts, [fit |-> i, preempted |-> preempted])
  /\ phase' = "next" /\ k' = k + 1
  /\ UNCHANGED <<world, ledger, placed, store, i, preempted>>

End ==
  /\ phase = "next" /\ k > Len(batch)
  /\ phase' = "done"
  /\ UNCHANGED <<world, ledger, placed, store, k, i, preempted, verdicts>>

Next == Open \/ Fail \/ Inject \/ Place \/ Preempt \/ Stop \/ Close \/ End

Spec == Init /\ [][Next]_vars
===============================================================================
