# A TLA+ model of kubectl-can-schedule

`kubectl can-schedule` answers "would these workloads fit?" without touching the
cluster. It takes a picture of the nodes and pods, builds the filter plugins of
kube-scheduler in process, and places the replicas of each workload one by one
into an in-memory ledger, optionally making room by simulated preemption. The
answer is a report and an exit code.

This directory holds a model of that program, the runs that model-check it, and
theorems about it. Source lines are those of the repository; `PROJECT.json` maps
every definition to the lines it stands for.

## Inventory

| Component | State it keeps | Operations | Interacts with | Modelled by |
|---|---|---|---|---|
| `simulate` simulator (`simulator.go`) | `scheduledPods` (the ledger), `simulated`, the PVC informer's store, priority classes, the default StorageClass; per run `allocated`, the results, the verdict | `Run`, `runWorkload`, `feasibility`, `tryPlace`, `evict`, `refreshSnapshot`, `injectPVCs`, `resolvePriority` | framework (calls), lister (sets), informers (share the PVC store), input (`Replica`) | `Placement`, `Simulator`, `FirstFit`, `LiveInformers` |
| `simulate` preemption (`preemption.go`) | a set of removed pods per trial | `tryPreemption`, `preemptionVictimsOnNode`, `minimizeVictims`, `setSnapshotWithout`, `fitsOnNode` | lister (trial snapshots), framework | `Simulator`, `FirstFit` |
| `simulate` capacity report | none | `requestedByWorkload`, `allocatedByResource`, `allocatableOf`, `resourceStatuses`, `classifyResource` | `runWorkload` | `Capacity` |
| `simulate.New` | none afterwards | lists nodes, pods, PriorityClasses, StorageClasses; starts and awaits informers | API server, informers, the context | `Startup` |
| `snapshot.Swappable` | the current snapshot, behind a lock | `Set`, `NodeInfos`, `StorageInfos` | simulator writes, plugins read | variable `snapshot` and `View` |
| `scheduling` | none | builds the framework with the default profile | kube-scheduler library | `KubeFilters` (external behaviour), a step of `Startup` |
| `input` | the parsed workloads | `ParseFiles`, `ParseResourceFlags`, name validation, `Replica` | cli, simulator | `Input`; `Replica` in `Placement` |
| `output` | none | capacity and workload tables, REASON column, verdict line, figures | reads `Result` | `Report` |
| `cli`, `cmd` | flags, exit code | `run`, `Execute` | everything; signals | `Command` |

What is hard in this code:

- **Trial snapshots.** A preemption search installs a snapshot per pod it removes
  or puts back, in the one lister every filter reads. Correctness of everything
  that comes later depends on the deferred restoration.
- **Cumulative batches.** Replicas of earlier workloads are pods for later ones;
  they must never be victims, and every reported fit must outlive the batch.
- **Two ways to say the same.** The probe and the greedy loop, the capacity table
  and the placement, are computed separately and shown side by side.
- **Filters that are not monotone.** Pod affinity makes a removal hurt; claims
  make replicas of one workload differ. The loop and the search assume neither.
- **Live informers.** The PVC store the simulator writes to is the informer's own
  and keeps receiving events, between two filter runs of one placement as well.
- **A context nobody asks about.** An interrupt ends the process, fails `New`, or
  only makes filters see less, depending on when it comes.
- **A picture taken in parts.** Nodes, pods, classes and volumes come from separate
  requests to a cluster that changes, some of which may never be answered.
- **The same verdict four times.** Exit code, closing line, REASON and figures are
  each derived by a case analysis of their own.

Per component, what makes it correct: the simulator's verdict is the first-fit
verdict (`ImplementsFirstFit`), stands to the end of the batch (`ReplicasStand`,
`PlacedReplicasStillFit`, `NoOvercommit`), and agrees with the probe and the
capacity report (`FeasibilityAgrees`, `CapacityHonest`, `VerdictExact`), and its claim
store is accounted for (`ClaimsAccounted`);
preemption evicts only pods that are outranked and only as many as needed
(`EvictedOnlyForHigher`, `MinimalEviction`), looks everywhere it should
(`SearchSound`, `VictimsNeeded`), leaves no trial behind
(`SnapshotInSync`), never comes back to where it was (`AlwaysCloser`) and ends
(`RunEnds`). `New` uses no cache before it is filled
and loses nobody who stays (`CachesFilled`, `ResidentsCounted`). The input is taken
whole or refused with every fault of the flags named (`ManifestsFaithful`,
`FlagsFaithful`). The exit code is 0 exactly if the ledger holds every replica, a
verdict is never confused with an error, the report says the same, and an
interrupt ends the command (`ExitTruthful`, `ReportAgrees`, `InterruptEnds`).

## Modules

    Capacity - Placement - Simulator - LiveInformers - Command = LiveInformers + Report
                    |          |
                FirstFit    Report         Startup    Input

    MCSimulator = Documented (Simulator + KubeFilters) + Report    MCInput = Input
    MCCommand   = MCSimulator + Command

    SimulatorProofs - PreemptionProofs - RefinementProofs --------------,
                              |                                         FilterProofs
                        CommandProofs - CapacityProofs -----------------'
    StartupProofs, InputProofs

`Startup` and `Input` are the stages before `Run` by themselves: their results are
the initial states of `Simulator`, and `Command` has them as stages that succeed
or fail.

- **Capacity** — the capacity report as pure operators. Quantities are natural
  numbers (resource.Quantity is exact). `Demand` stands for `PodRequests`.
- **Placement** — one replica and one scheduling cycle, pure: priority
  resolution, `Replica` and its claims, `InjectPVCs` (add or replace in the
  store), which nodes accept (`Accepting`) or reject in a way preemption may
  change (`Rejecting`), the workload that flags make (`FromFlags`, one bare pod that asks for
  resources), the filter reasons, the candidates for eviction and their
  order. The framework enters as two constant operators, `PreFilter` and
  `Filter`, over a *view*: the cluster, the PVC store, the pods of the snapshot.
- **Simulator** — the state machine of `Run`. Variables are the fields of
  `Simulator` and the locals of `Run`, `runWorkload` and `tryPreemption` (`pc` is
  where the single goroutine is). Actions, in the order of the code:

  | Action | Code |
  |---|---|
  | `ProbeWorkload` / `RejectWorkload` | `runWorkload` up to line 217: inject the claims of replica 0, feasibility, capacity; or the error of an unknown PriorityClass, which discards all results |
  | `PlaceReplica` | an iteration in which `tryPlace` finds the first accepting node |
  | `GiveUp` | an iteration that breaks without a preemption search |
  | `StartPreemption` | `tryPlace` found no node and calls `tryPreemption` |
  | `RemoveVictim` | one turn of the loop of `preemptionVictimsOnNode` |
  | `NextNode` | that function returns nil: on to the next node |
  | `Reprieve` | one turn of the loop of `minimizeVictims` |
  | `PreemptReplica` | the rest of the iteration: evict, append, refresh |
  | `AbandonPreemption` | no node helps: deferred refresh, break |
  | `ReportWorkload` / `Finish` | the loop of `Run` |

- **FirstFit** — the abstract specification: a ledger and no snapshots; a replica
  goes to the first node that accepts it, or to the first node where evicting
  helps, in exchange for an irreducible set of victims, or the workload is closed.
  `Simulator` implements it under the mapping `Promise` (`ImplementsFirstFit`).
- **LiveInformers** — `Simulator` beside what goes on around it. In a cluster `c`
  the fields `pvcs`, `volumes`, `lateClasses`, `provisioned` are what the informers
  serve; the rest is what `New` listed and never changes.

  | Action | What it stands for |
  |---|---|
  | `InformerEvent` | the watch delivers what changed; by name, so a claim the simulator made up stays unless one of its name changes at the server (`Delivered`) |
  | `Relist` | a watch that broke is resumed with a new list, which replaces the store |
  | `Interrupt` | the context is done |
  | `PlaceAmidEvents`, `GiveUpAmidEvents`, `SearchAmidEvents` | iterations of the loop in which each node is judged by what the informers have heard of when its turn comes |

- **Startup** — `New`, call by call, beside a cluster in which nodes join and leave
  and pods start and end. `pc` is the call, `After` the order of the calls, `started`
  and `synced` are the informers the factory has started and that have their first
  list, `served` those the server answers. A request may fail; an informer that is
  refused tries again for ever. `settled` is history: who has stayed where since the
  nodes were listed.
- **Report** — the report as operators of the results of `Simulator`: columns,
  cells with their colour and percentage, `ShortReason`, `Verdict`,
  `RenderVerdict`, `Rendered`.
- **Command** — the stages of `run` (flags, config, input, client, new, run, render)
  around `LiveInformers` and `Report`; `Execute`'s exit codes; what an interrupt does
  at each stage (`Kill` before `signal.NotifyContext`, `Cancel` after). A write
  may fail, after none or part of the report.
- **Input** — `ParseFiles`, file by file and document by document, with stdin that is
  read up, and `ParseResourceFlags`, pair by pair, with the errors it collects. A
  document is blank, garbled or an object; a pair is garbled or a name and a value.
- **KubeFilters** — external: what the default profile answers, as far as the
  simulator's logic depends on it: taints, node affinity (with PreFilter
  narrowing for `metadata.name`), host ports, resources, volume binding
  (immediate and late classes, static and provisioned volumes), pod affinity and
  anti-affinity per node; with the code (resolvable or not) and the plugin name.
  The order is that of the profile, and the first check that says no speaks for the
  node. InterPodAffinity gathers existing pods with a
  parallel loop that stops, without an error, at a context that is done (`Seen`).
  Left out: topology spread, DRA, volume zones and limits, the number of pods per
  node, topology other than the node.
- **Documented** — sentences of comments and README that the code does not keep.
- **MCSimulator**, **MCCommand**, **MCInput** — the worlds. Definitions
  whose comment says *mutant* are variants of the definition that follows them; no specification uses them.

Abstractions: names and labels are strings taken whole, except claim names, which
are concatenated as the code does (replicas of different workloads may share
one). Namespaces appear in `Input` only; the simulator's pods share one.
`scheduledPods` is a set: the order of the Go slice
matters only to the stable sort of candidates, and the id of a pod carries it.
`Store.Add` never fails (it does only for objects without metadata).

## Runs

The inputs (cluster, batch, options, invocation, files) are chosen in `Init`, so one
run explores every world of its constants. `CHECK_DEADLOCK FALSE` everywhere: the
program ends.

| Run | What it asks | Bounds |
|---|---|---|
| `preemption` | `TypeOK`, `SnapshotInSync`, `ReplicasStand`, `EvictedOnlyForHigher`, `NoOvercommit`, `MinimalEviction`, `SearchSound`, `VictimsNeeded`, `AlwaysCloser`, `ImplementsFirstFit` | 2 nodes of 2 cpu; up to 2 + 1 running pods, of 1 or 2 cpu and priority -1, 1 or 2 (so also overcommitted nodes); a workload of 2 replicas at priority 0 or 2, then one of 0 to 2 replicas at priority 2, of 1 or 2 cpu |
| `filters` | `FeasibilityAgrees`, `PlacedReplicasStillFit`, `CapacityHonest`, `ClaimsAccounted`, `VerdictExact`, `TaintsBlamedAlone`, `CellsAgree`, `ImplementsFirstFit` | 11 templates, none with required pod affinity (see `NobodyNeedy` below), and two StatefulSets, in 6 clusters made for them (taint and provisioned volumes; ports and labels; overcommitted; a pod on a node that was not listed; global default above 0; ended and unscheduled pods with static volumes and a bound claim of a name the batch makes up), followed by one of 4 workloads, one of them with an unknown PriorityClass |
| `command` | `SnapshotInSync`, `ReplicasStand`, `EvictedOnlyForHigher`, `NoOvercommit`, `VictimsEligible`, `ExitTruthful`, `ReportAgrees` | 12 kinds of invocation; 2 arrangements of 2 running pods of different priority, one repelling others; batches of one workload of 0 to 4 replicas, of a StatefulSet and a replica with or without anti-affinity, with an unknown PriorityClass, and of 1 or 2 replicas as flags make them; the volume of node 2 and a claim of a name the batch also makes up come and go any number of times |
| `termination` | `RunEnds`, `InterruptEnds` | one arrangement of two nodes (nobody to evict on the first, too little on the second), 2 batches, a volume that comes and goes, an interrupt, with and without preemption |
| `startup` | `TypeOK`, `CachesFilled`, `ResidentsCounted`, `ReturnsUnlessStarved` | 2 nodes, 2 pods, 2 informers, 3 changes of the cluster, every set of served informers |
| `input` | `ManifestsFaithful`, `FlagsFaithful` | 3 lists of two files and stdin (read twice in one), each of the first file and stdin one of 16 contents of up to 2 documents; all sequences of up to 3 of 7 kinds of pair |
| `no_op`, `ports`, `ordinals`, `friends`, `volumes`, `blind` | one sentence each, violated | one world each |

Why these bounds are enough to be interesting: two nodes give a first and a next
node; three pods on them give a node with two victims of different or equal
priority, one of which is reprieved, and a second node that is tried after the
first was given up; two workloads give an earlier replica a later one might evict;
two replicas give a probe that differs from what the second replica meets. Three
changes are a pod that moves between two lists, and one more; a second informer is
one that syncs before or after the first, or never. Three flags are a repeated name and
one that is malformed before, between or after.
`MaxChanges` is the only other bound: nothing in the program limits it.

`AlwaysCloser` is about `Left`, what `Run` has left to do as a tuple: workloads, phases
of the one at hand, replicas, phases of a search, nodes, pods. Every step leaves a
smaller tuple, compared from the left. `ManifestsFaithful` speaks of the positions
of objects in the files given (`Objects`): of each file its documents in order, of
stdin nothing after the first time it is named (`Unread`).

Fairness:

- `CommandFairSpec` is weak fairness of `Going`: the steps of `Run` (with or without
  events in their midst), its return, `Render`, and `NewFails` once the context is
  done, which is what `ReturnsUnlessStarved` shows of `New`. `Run` is one goroutine
  without blocking calls (filters are local computation), so it goes on as long as
  it can. Each step belongs to a stage of its own, so one condition for all is as
  strong as one for each. Events and interrupts have no fairness, reading input has
  none (stdin may stay open), nor has `NewReturns`. That `Render` is fair assumes that
  who reads the report does so, or goes away: a write to a pipe that stays full and
  open would not return, whatever the program does.
- `FairSpec` of `Startup`: a request of `New` is answered in the end, with a list
  or an error, and each informer that is served has its first list. An informer
  that is not served has no fairness, since client-go retries for ever: without an
  interrupt `New` then waits for ever, which is why the property has its premise.

### What the violated sentences show

- `NothingLowerToEvict` — preemption is skipped at or below the default priority
  "since there is nothing lower-priority to evict"; negative priorities and a
  global default above 0 make that wrong. Preemption is asked for in the run, and the
  replica that is given up without a search would fit if the lower pod were evicted.
- `RejectionsReported` — the reasons `tryPlace` returns are dropped, so the plugin
  that stopped a later replica is not reported.
- `BreakIsFinal` — the loop stops at the first replica that fails, but the claims
  of a later StatefulSet replica may be satisfiable.
- `NilOnlyIfNoSetExists` — with pod affinity, removing lowest first can miss the
  set that works.
- `VolumesSuffice` — one static volume is offered to every replica.
- `ZeroMeansFits` — with a workload from a file, an interrupt during `Run` hides the other pods from
  InterPodAffinity, and the exit code is 0 all the same.

## Proofs

Eight modules. Every safety property and every action property that a passing run
checks is stated by a theorem. Those on the simulator are for any number of nodes,
any clusters, templates and batches; where no hypothesis is named, also for any
`PreFilter` and `Filter`. Each theorem has an inductive strengthening and the three
facts initiation, preservation (one step per action) and implication.

| Theorem | States | Argument |
|---|---|---|
| `TypeCorrect` (`SimulatorProofs`) | `Spec => []TypeOK` | `TypeOK` is inductive because it also says that a workload under evaluation exists and has a resolvable priority (so `Replica` is a pod), that removed pods are never replicas of the run, and that nothing is removed outside a search |
| `SnapshotRestored` | `Spec => []SnapshotInSync` | inductive by itself |
| `VerdictCorrect` | `Spec => []VerdictExact` | `VerdictInv`: one result per workload behind the loop variable, and the verdict so far is their conjunction |
| `CreditStands` | `Spec => []ReplicasStand` | `CreditInv`: the replicas in the ledger are those with an id below the loop variables, so what `Commit` appends is new and the count grows by one; victims are never replicas (`TypeOK`) |
| `ProbeHonest` | `Spec => []FeasibilityAgrees` | `ProbeInv`: at ordinal 0 the probe's count is what the loop will find, because injecting the same claims twice changes nothing (`InjectTwice`) |
| `StoreAccounted` | `Spec => []ClaimsAccounted` | `ClaimsInv`: the same within a workload, with the claims of the replicas tried so far (`MadeSoFar`): a probe, a placement and a search inject those of one ordinal more, or the same again (`InjectAccounts`) |
| `SearchIsSound` (`PreemptionProofs`) | `Spec => []SearchSound` | inductive with the types and `SnapshotInSync` |
| `EvictionsJustified` | `Spec => []EvictedOnlyForHigher` | victims are candidates (`SearchSound`), and evictions are on record in the result at hand or in one reported (`EvictionInv`) |
| `EveryVictimNeeded` | `Convex`: `Spec => []VictimsNeeded` | putting back a later victim keeps the earlier ones needed |
| `EvictionsMinimal` | `Convex`: `Spec => MinimalEviction` | only `PreemptReplica` evicts, and it evicts exactly `removed` |
| `RunGetsCloser` | `Spec => AlwaysCloser` | the ledger stays finite, so the sizes in `Left` are numbers; each action names the entry it makes smaller and leaves those before it alone |
| `Implementation` (`RefinementProofs`) | `Convex`: `Spec => ImplementsFirstFit` | `IInv` = the invariants above; every action maps to an action of `FirstFit` or to a stutter (the removals, the reprieves, the next node) |
| `LiveTypeCorrect`, `LiveSnapshotRestored`, `LiveVerdictCorrect`, `LiveCreditStands`, `LiveVictimsEligible`, `LiveEvictionsJustified` (`CommandProofs`) | the same of `LiveSpec`, with `VictimsEligible` | the inductive invariants above do not mention what the informers serve: their steps of `Simulator` are reused as lemmas, and events leave the ledger and the results alone. What depends on a filter giving the same answer twice (`FeasibilityAgrees`, `SearchSound`, minimality) is not preserved and not claimed |
| `CommandRunsLive` | `CommandSpec => LiveSpec` | each step of the command is one of `LiveNext` or leaves the simulator alone |
| `CommandKeepsLedger` | `CommandSpec => []` of `SnapshotInSync`, `ReplicasStand`, `EvictedOnlyForHigher`, `VictimsEligible` | the theorems on `LiveSpec`, carried over by `CommandRunsLive` |
| `ExitIsTruthful` | `CommandSpec => []ExitTruthful` | `ExitInv`: codes 0 and 1 come only from `Render` with a whole report, after `Run` is done; there `LiveVerdictCorrect` and `LiveCreditStands` turn the verdict into the ledger's count |
| `ReportAndExitAgree` | `CommandSpec => []ReportAgrees` | the same invariant, and case analysis of the report's operators under the verdict |
| `NodesNotOvercommitted`, `LiveNotOvercommitted` (`CapacityProofs`) | `RespectsCapacity`: `[]NoOvercommit`, of `Spec` and of `LiveSpec` | `RoomInv`: a node at which the search minimizes has room for the replica without those removed, so a replica always lands where there is room (`Lands`); what a node uses then grows by the demand of the replica and shrinks by that of the victims |
| `ShortfallsHonest`, `LiveShortfallsHonest` | `RespectsCapacity`: `[]CapacityHonest`, of both | `BooksInv`: the statuses compare the workload with what the pods used when `Run` began. If all replicas of a workload are in the ledger, nobody was evicted and no node is overcommitted, the pods of the start and the replicas together use no more than all nodes offer, so the demand is at most what was free |
| `CellsConsistent`, `ReportedCellsConsistent` | `[]CellsAgree`, of `Spec` and of `CommandSpec` | `BooksInv`, and arithmetic of the rounded quotient |
| `KubeRespectsCapacity`, `KubeConvex` (`FilterProofs`) | `KubeProfile`: `RespectsCapacity`; `Convex` | a node is accepted exactly if nothing that looks at no pods, nothing that pods on it cause, and no lonely affinity speaks against it (`FitsIf`); the second only gets worse with more pods, the third only better |
| `DefaultProfile` | `KubeProfile`: `Spec =>` `ImplementsFirstFit`, `MinimalEviction`, `[]VictimsNeeded`, `[]NoOvercommit`, `[]CapacityHonest` | the theorems above, their hypotheses discharged |
| `CommandRespectsCapacity` | `KubeProfile`: `CommandSpec => []NoOvercommit /\ []CapacityHonest` | the same, by `CommandRunsLive` |
| `TaintsBlamedRightly` | `KubeProfile`: `Spec => []TaintsBlamedAlone` | `BlameInv`: while no replica of the workload is placed, the reasons on record are those of the cycle at hand, which accepts no node once the loop has stopped. What the report suppresses is the resource filter and nothing else |
| `PlacedReplicasStand` | `KubeProfile`, `NobodyNeedy`, `ClaimsApart`: `Spec => []PlacedReplicasStillFit` | `Standing` is inductive with `ReplicaInv`: an eviction leaves fewer pods (`FewerStillFit`), a replica that comes avoids those there and is not one they avoid or take a port or capacity from, and claims injected later are not theirs (`NewClaims`) |
| `StartupTypeCorrect`, `NoEmptyCache`, `NoResidentLost` (`StartupProofs`) | `Spec => []TypeOK`, `[]CachesFilled`, `[]ResidentsCounted` | `FilledInv`: after the wait what was started is synced, and all was started; `SettledInv`: who is settled is on that node now, until the pods are listed, and in the list from then on |
| `FlagsAreFaithful` (`InputProofs`) | `Spec => []FlagsFaithful` | `PairsInv`: of the pairs parsed so far, the errors are those refused and the requests the first well-made one of each name |
| `ManifestsAreFaithful` | `Spec => []ManifestsFaithful` | `ManifestsInv`: no file before the one at hand has a fault, no document behind in it is wrong, `stdin` is what those before it left, and the workloads so far are those of the objects at the positions passed (`Decoded`), in their order |

They use the assumptions of `Placement` and `Input` on constants (clusters, batches,
templates and files are well formed: the pods of a cluster are finitely many and
are no replicas, requests are natural numbers, contents are sequences), which TLC
evaluates in every run. `PreFilter` and `Filter` need none: node sets are cut to
the nodes, reasons to the plugins.

Hypotheses, none of them an assumption of the model:

- `Convex`: a pod that fits on a node with few of its pods, and with many, fits with
  any set in between. The greedy reprieve of `minimizeVictims` needs it: a pod is
  reconsidered once, and that it was needed then must still be true at the end.
- `RespectsCapacity`: a pod that fits finds its requests free on the node. It is all
  that the theorems on capacity ask of the filters; that the simulator loses no pod,
  counts none twice and places only what the filters accepted is what they show.
- `KubeProfile`: `PreFilter`, `Filter` and `Plugin` are those of `KubeFilters`, which is
  how every run of the simulator gives these constants their values. From it both
  hypotheses above follow. TLC also evaluates the first on the worlds of each run
  (`FiltersConvex`).
- `NobodyNeedy`: no template has a required pod affinity. A replica placed beside the pod
  it wants stops fitting when that pod is evicted, so `PlacedReplicasStillFit` is
  not a theorem without it.
- `ClaimsApart`: no replica brings along a claim of a name that another replica brings or a
  template asks for. Claim names are made from names of templates, workloads and
  ordinals, so they may coincide, and then an injected claim replaces one that a
  placed replica relies on. TLC evaluates it in every run (`NoClaimShared`): none of
  the worlds has such a batch.

The sum of requests is a fold. What is proved of sums (a part is no more than the
whole, a sum over nodes is a sum over pods, `FiniteInduction` and what follows in
`CapacityProofs`) is proved by induction on finite sets, stated with the set of the
sets that have a property in place of an operator.

Only model-checked: `RunEnds`, `InterruptEnds` and `ReturnsUnlessStarved`, which are
liveness under fairness. `AlwaysCloser` is the part of the first that can be proved:
the order on tuples is well-founded, so `Run` by itself cannot go on for ever; that it does not
stop half-way is for TLC.

## Not modelled

- The lock of `snapshot.Swappable`. `Set` is called by the one goroutine of `Run`
  between filter runs; the plugins that read from several goroutines have joined
  them when a filter run returns. So no read ever meets a write, and a model of the
  lock would show nothing of this program.
- What a YAML document decodes to, quantities as text, and the text of errors:
  libraries, whose results are the records of `Input`.
- Loading the kubeconfig and building the client (`Command` has them succeed or
  fail); colours of a terminal; cobra.
- The profile and the managers for CSI and DRA that `scheduling` hands to the
  scheduler's library.
- In the report: the order of columns and reasons, table layout, escape sequences,
  the digits of quantities. Sums of `resource.Quantity` do not overflow.
- Which resource names the scheduler accounts for (`ValidateResourceName` is what
  the code checks), and that workloads of different kinds may have pods of one
  name: the simulator's pods are told apart by workload and ordinal, as they are in
  the code by UID.
- Filters listed under `KubeFilters` as left out.

## Plan

1. (done) `Capacity`, `Placement`, `Simulator`, `FirstFit`, `KubeFilters`, their
   runs, the divergences met; all its safety properties that do not sum requests
   proved, and that it implements `FirstFit`.
2. (done) `Startup`, `LiveInformers`, `Report`, `Command`, `Input`, with their runs and
   theorems about them.
3. (done) Theorems about sums of requests, the report's cells and reasons, the
   manifests and the variant of `Run`; the hypotheses on filters proved of
   `KubeFilters`.
4. An abstract command (verdict, exit code) that `Command` implements; a variant of
   `New` and of the input's loops, as `Left` is of `Run`; which replicas of needy
   templates keep their place.
5. More of `KubeFilters`: topology spread, the number of pods per node.
