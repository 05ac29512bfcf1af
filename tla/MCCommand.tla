------------------------------ MODULE MCCommand ------------------------------
(***************************************************************************)
(* Small worlds for the command, the simulator and the informers.          *)
(***************************************************************************)
EXTENDS MCSimulator, Command

Invoked ==
  {[files |-> f, resources |-> r, replicas |-> n] :
     f \in BOOLEAN, r \in BOOLEAN, n \in {None, 0, 2}}

CommandTemplates == {Plain, Big, Loner}

\* Around the given pods: with and without the volume of node 2, with the given
\* claims or none, the context done or not.
Around(pods, sizes, claims) ==
  { [Cluster(pods, sizes) EXCEPT
       !.lateClasses = {"local"}, !.volumes = volumes, !.pvcs = pvcs, !.cancelled = done] :
    volumes \in {{Volume("v1", "local", {1}, "")},
                 {Volume("v1", "local", {1}, ""), Volume("v2", "local", {2}, "")}},
    pvcs \in {{}, claims}, done \in BOOLEAN }

\* A claim whose name the batch also makes up.
Bound == {[name |-> "data-db-0", class |-> "local", volume |-> "v2"]}

CommandClusters ==
  Around({Running(1, 1, 0, Plain), Running(2, 2, 1, Loner)}, <<1, 2>>, Bound)
    \cup Around({Running(1, 1, 0, Plain), Running(2, 1, 2, Loner)}, <<2, 1>>, Bound)

Database(replicas) == StatefulSet("db", replicas, "high", "local")

\* What flags make, nothing asked for, a batch of two, and one workload.
CommandBatches ==
  {<<FromFlags([cpu |-> 1], replicas)>> : replicas \in {1, 2}}
    \cup {<<Workload("b", replicas, "high", Plain)>> : replicas \in {0, 1, 2, 4}}
    \cup {<<Database(replicas), Workload("b", 1, "high", spec)>> :
            replicas \in {1, 2}, spec \in {Plain, Loner}}
    \cup {<<Workload("a", 1, "missing", Plain), Database(1)>>}
-----------------------------------------------------------------------------
(* Liveness: searches that find victims, exhaust their candidates, or have *)
(* none, and a volume that comes and goes.                                 *)

AllInvoked == {[files |-> TRUE, resources |-> FALSE, replicas |-> None]}

RestlessClusters ==
  { [Cluster({Running(1, 1, 2, Big), Running(2, 2, 0, Plain)}, <<2, 1>>) EXCEPT
       !.lateClasses = {"local"}, !.volumes = volumes, !.cancelled = done] :
    volumes \in {{}, {Volume("v1", "local", {1}, "")}}, done \in BOOLEAN }

RestlessBatches ==
  {<<Database(1), Workload("b", 1, "high", Big)>>,
   <<Workload("a", 2, "high", Plain), Workload("b", 1, "missing", Plain)>>}
-----------------------------------------------------------------------------
\* One pod that wants no other of its kind beside it, and one node.
BlindClusters ==
  {[Cluster({Running(1, 1, 0, Loner)}, <<2, 0>>) EXCEPT !.cancelled = done] : done \in BOOLEAN}

BlindBatches == {<<Workload("w", 1, "", Loner)>>}
===============================================================================
