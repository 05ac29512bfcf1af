-------------------------------- MODULE Report --------------------------------
(***************************************************************************)
(* The report pkg/output makes of a Result: which resources get a column,  *)
(* what each row says of its workload, and the line that closes the        *)
(* report.  Phrases stand for their texts; the order of columns and of     *)
(* reasons, widths and borders are left out.                               *)
(***************************************************************************)
EXTENDS Simulator

ShortPlugin(plugin) ==
  IF plugin \in {"VolumeBinding", "VolumeZone", "VolumeRestrictions", "NodeVolumeLimits"}
  THEN "volume constraints" ELSE plugin

\* Mutant: taints are named beside other filters.
SpecificWithTaints(r) ==
  {<<"missing", d>> : d \in {e \in DOMAIN r.resources : r.resources[e] = "Absent"}}
    \cup {<<"insufficient", d>> : d \in {e \in DOMAIN r.resources : r.resources[e] = "Insufficient"}}
    \cup {<<"filter", ShortPlugin(g)>> : g \in r.reasons}

\* Shortfalls and rejections, but for taints, that explain the row.
Specific(r) ==
  {<<"missing", d>> : d \in {e \in DOMAIN r.resources : r.resources[e] = "Absent"}}
    \cup {<<"insufficient", d>> : d \in {e \in DOMAIN r.resources : r.resources[e] = "Insufficient"}}
    \cup {<<"filter", ShortPlugin(g)>> : g \in r.reasons \ {"TaintToleration"}}

Untolerated == {<<"filter", "TaintToleration">>}

\* The REASON of workload k with result r; "-" is the empty set.
ShortReason(k, r) ==
  IF Fits(k, r) THEN {}
  ELSE IF Specific(r) # {} THEN Specific(r)
  ELSE IF r.fit > 0 THEN {<<"capacity exhausted">>}
  ELSE IF r.reasons # {} THEN Untolerated
  ELSE {<<"unschedulable">>}

ResourceColor(fit) ==
  IF fit = "Absent" THEN "red" ELSE IF fit = "Insufficient" THEN "amber" ELSE "green"

FitColor(k, r) ==
  IF Fits(k, r) THEN "green" ELSE IF r.fit = 0 THEN "red" ELSE "amber"

\* a / b to the nearest integer, a tie to the even one.
Rounded(a, b) ==
  LET q == a \div b  r == a % b
  IN  IF 2 * r > b \/ (2 * r = b /\ q % 2 = 1) THEN q + 1 ELSE q

\* Twice the percentage that is written: 0 is "0%", 1 is "<1%", and -1 is none.
WithPercent(value, allocatable) ==
  IF allocatable = 0 THEN -1 ELSE IF value = 0 THEN 0
  ELSE IF 100 * value < allocatable THEN 1 ELSE 2 * Rounded(100 * value, allocatable)

\* One column for every resource that some workload asks for.
ClusterResources == UNION {DOMAIN results[k].resources : k \in 1 .. Len(results)}

\* What workload k asks of d, as a share of what the nodes offer; "-" if it does not.
Cell(k, d) == LET r == results[k] IN
  IF d \notin DOMAIN r.resources THEN [color |-> "none", share |-> -1]
  ELSE [color |-> ResourceColor(r.resources[d]),
        share |-> WithPercent(RequestedByWorkload(batch[k].spec, batch[k].replicas)[d],
                              AllocatableOf(cluster.alloc, d))]

Row(k) == LET r == results[k] IN
  [feasible |-> r.feasible, fit |-> r.fit, replicas |-> batch[k].replicas,
   color    |-> FitColor(k, r), reason |-> ShortReason(k, r),
   cells    |-> [d \in ClusterResources |-> Cell(k, d)]]

\* Mutant: nothing placed is tested for first, so nothing asked for is not enough.
VerdictZeroFirst(k, r) ==
  IF r.fit = 0 THEN "NOT SCHEDULABLE" ELSE IF Fits(k, r) THEN "SCHEDULABLE" ELSE "PARTIAL"

Verdict(k, r) ==
  IF Fits(k, r) THEN "SCHEDULABLE" ELSE IF r.fit = 0 THEN "NOT SCHEDULABLE" ELSE "PARTIAL"

Overall == IF schedulable THEN "SCHEDULABLE" ELSE "NOT SCHEDULABLE"

VerdictLine(k, r) == [about |-> "Result", says |-> Verdict(k, r),
                      preempting |-> Fits(k, r) /\ r.usedPreemption]

RenderVerdict ==
  IF Len(results) = 1 THEN VerdictLine(1, results[1])
  ELSE [about |-> "Overall", says |-> Overall, preempting |-> FALSE]

Rendered == [columns |-> ClusterResources,
             rows    |-> [k \in 1 .. Len(results) |-> Row(k)],
             closing |-> RenderVerdict]
-----------------------------------------------------------------------------
\* Taints are blamed only if they are the sole signal: some node has one that the
\* replica does not tolerate, and any other node it may go to lacks what it asks for.
TaintsBlamedAlone ==
  pc = "report" /\ ShortReason(wi, wr) = Untolerated =>
    LET said == {Filter(Cycle, Probe, n).plugin : n \in PreFilter(Cycle, Probe).nodes}
    IN  "TaintToleration" \in said /\ said \subseteq {"TaintToleration", "NodeResourcesFit"}

\* A cell does not contradict itself, though the simulator chose its colour and the
\* report computes its share: it is red if and only if there is nothing to have a
\* share of, what is green is no more than all there is, and what says nothing is
\* asked for asks for nothing.
CellsAgree ==
  \A k \in 1 .. Len(results) : \A d \in DOMAIN results[k].resources :
    LET cell == Cell(k, d) IN
    /\ cell.color = "red" <=> cell.share = -1
    /\ cell.color = "green" => cell.share <= 200
    /\ cell.share = 0 => batch[k].replicas * batch[k].spec.req[d] = 0
===============================================================================
