------------------------------- MODULE Capacity -------------------------------
(***************************************************************************)
(* The capacity report of pkg/simulate: what the whole cluster offers,     *)
(* what its pods already use, and how the demand of one workload compares. *)
(*                                                                         *)
(* A quantity is a natural number of the smallest unit anyone asks for     *)
(* (resource.Quantity is exact, so no width is modelled).  The resources a *)
(* pod template requests are the domain of its field req.                  *)
(***************************************************************************)
EXTENDS Integers, FiniteSets, Functions

CONSTANT Resource

Empty == ""  \* a string field that is not set

ResourceFit == {"OK", "Insufficient", "Absent"}

\* What one pod asks of resource r (PodRequests yields no entry for a
\* resource the pod does not name).
Demand(spec, r) == IF r \in DOMAIN spec.req THEN spec.req[r] ELSE 0

RequestedByWorkload(spec, replicas) ==
  [r \in DOMAIN spec.req |-> replicas * spec.req[r]]

AllocatableOf(alloc, r) == SumFunction([n \in DOMAIN alloc |-> alloc[n][r]])

UsedBy(pods, r) == SumFunction([p \in pods |-> Demand(p.spec, r)])

AllocatedByResource(pods) == [r \in Resource |-> UsedBy(pods, r)]

\* Mutant: a demand that exactly fills the free capacity is called short.
ClassifyResourceStrictly(allocatable, allocated, requested) ==
  IF allocatable = 0 THEN "Absent"
  ELSE IF allocatable - allocated <= requested THEN "Insufficient"
  ELSE "OK"

\* Mutant: what is all taken is called absent.
ClassifyResourceByFree(allocatable, allocated, requested) ==
  IF allocatable <= allocated THEN "Absent"
  ELSE IF allocatable - allocated < requested THEN "Insufficient"
  ELSE "OK"

\* Demand is compared with the free capacity even where nothing is free, and a
\* resource no node offers is absent whatever is asked of it.
ClassifyResource(allocatable, allocated, requested) ==
  IF allocatable = 0 THEN "Absent"
  ELSE IF allocatable - allocated < requested THEN "Insufficient"
  ELSE "OK"

ResourceStatuses(alloc, allocated, requested) ==
  [r \in DOMAIN requested |->
     ClassifyResource(AllocatableOf(alloc, r), allocated[r], requested[r])]
===============================================================================
