------------------------------ MODULE Documented ------------------------------
(***************************************************************************)
(* What comments and the README say of the simulator and the code does not *)
(* keep.  Each formula states such a sentence; TLC finds the run of the    *)
(* code that contradicts it.                                               *)
(***************************************************************************)
EXTENDS Simulator, KubeFilters

\* simulator.go:447-449, README:135-136: preemption "is a no-op for pods at or
\* below the default priority, since there is nothing lower-priority to evict".  So when
\* a replica was given up for that reason alone, preemption being asked for, no node
\* that rejected it has lower pods without which it fits.
NothingLowerToEvict ==
  /\ pc = "report" /\ opts.considerPreemption
  /\ PreFilter(Cycle, Current).ok /\ ~PreemptionMeaningful(cluster, Current)
  => \A n \in Rejecting(Cycle, Current) :
       LET lower == Candidates(scheduledPods, simulated, Current, n)
       IN  lower # {} => ~FitsOnNode(Trial(scheduledPods \ lower), Current, n)

\* README:124-127: the output reports, when a workload does not fit, "the filter
\* plugins that rejected" it.
RejectionsReported == pc = "report" => FilterReasons(Cycle, Current) \subseteq wr.reasons

\* simulator.go:230-231: "if this replica cannot be placed, no later replica of
\* this workload can either".
BreakIsFinal ==
  pc = "report" => \A i \in ordinal .. W.replicas - 1 :
    LET view == View(cluster, InjectPVCs(pvcStore, cluster, W, i), scheduledPods)
    IN  Accepting(view, Replica(cluster, W, wi, i)) = {}

\* preemption.go:39-41: the victims are "the minimal set of lower-priority pods
\* [...] whose removal lets pod pass all filters there, or nil if no such set
\* exists".
NilOnlyIfNoSetExists ==
  pc = "remove" => \A n \in todo :
    LET candidates == Candidates(scheduledPods, simulated, Current, n)
    IN  First(n, todo) /\ candidates \subseteq removed =>
          \A victims \in SUBSET candidates :
            ~FitsOnNode(Trial(scheduledPods \ victims), Current, n)

\* README:36-40: "volume filters evaluate accurately", "decrementing capacity as
\* each replica lands": the claims of the replicas a run has placed can be bound
\* together, each to a volume of its own.
VolumesSuffice ==
  LET static == {q \in pvcStore : /\ q.volume = ""
                                  /\ q.class \notin cluster.provisioned
                                  /\ \E p \in simulated : q.name \in p.claims}
  IN  \E f \in Injection(static, cluster.volumes) :
        \A q \in static : \A p \in simulated :
          q.name \in p.claims => Matches(f[q], q, p.node)
===============================================================================
