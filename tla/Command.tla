------------------------------- MODULE Command -------------------------------
(***************************************************************************)
(* The command of pkg/cli around the simulator: flags, kubeconfig, input,  *)
(* client, New, Run and the report, one after the other, and what becomes  *)
(* of them on an error or an interrupt.  Before signal.NotifyContext an    *)
(* interrupt ends the process; from then on it only cancels the context.   *)
(* (Startup has New in detail and Input how workloads are built; here they *)
(* succeed or fail.)                                                       *)
(***************************************************************************)
EXTENDS LiveInformers, Report

CONSTANT Invocations  \* the command lines, each [files, resources, replicas]

VARIABLES
  args,     \* whether -f and --resource are given, and --replicas or None
  stage,    \* what run is at
  written,  \* what has reached the output
  exit      \* the exit code of the process, once it has one

command == <<args, stage, written, exit>>
all     == <<vars, command>>

ASSUME InvocationsAssumption ==
  Invocations \subseteq [files : BOOLEAN, resources : BOOLEAN, replicas : Int \cup {None}]

NoCode == -1
Killed  == 130

CommandInit ==
  /\ LiveInit
  /\ args \in Invocations
  /\ stage = "flags" /\ written = "nothing" /\ exit = NoCode
-----------------------------------------------------------------------------
Goes(from, to) ==
  /\ stage = from /\ stage' = to
  /\ UNCHANGED <<vars, args, written, exit>>

\* run returns; Execute makes an exit code of what it returned.
Exits(code) == stage' = "exited" /\ exit' = code /\ UNCHANGED <<vars, args>>

\* Exactly one source of input, and a replica count of its own only without files.
Valid == args.files # args.resources /\ (args.files => args.replicas = None)

ValidateFlags == Valid /\ Goes("flags", "config")

LoadConfig == Goes("config", "input")

\* The batch is what the files hold, or one workload made from the flags.
Replicas == IF args.replicas = None THEN 1 ELSE args.replicas

BuildWorkloads ==
  /\ \/ args.files
     \/ /\ Replicas >= 1 /\ Len(batch) = 1
        /\ batch[1] = FromFlags(batch[1].spec.req, Replicas)
  /\ Goes("input", "client")

NewClient == Goes("client", "new")

\* New does not get through with a context that is done.
NewReturns == ~cluster.cancelled /\ Goes("new", "run")

NewFails ==
  /\ stage = "new" /\ Exits(2) /\ UNCHANGED written

\* Bad flags; no kubeconfig, bad input, no client.
Fails ==
  /\ \/ stage = "flags" /\ ~Valid
     \/ stage \in {"config", "input", "client"}
  /\ Exits(2) /\ UNCHANGED written
-----------------------------------------------------------------------------
(* Run, beside the informers.                                              *)

RunStep == stage = "run" /\ Program /\ UNCHANGED command

OutsideStep ==
  /\ stage = "run" /\ pc \notin {"done", "error"}
  /\ InformerEvent \/ Relist
  /\ UNCHANGED command

RunReturns == pc = "done" /\ Goes("run", "render")

RunFails == stage = "run" /\ pc = "error" /\ Exits(2) /\ UNCHANGED written
-----------------------------------------------------------------------------
(* The report, in one write, and the exit code.                            *)

\* Mutant: the error of Render is dropped.
RenderUnchecked ==
  /\ stage = "render"
  /\ written' \in {"report", "part"}
  /\ Exits(IF schedulable THEN 0 ELSE 1)

Render ==
  /\ stage = "render"
  /\ \/ written' = "report" /\ Exits(IF schedulable THEN 0 ELSE 1)
     \/ written' \in {"nothing", "part"} /\ Exits(2)
-----------------------------------------------------------------------------
(* Interrupts.                                                             *)

\* Mutant: signal.NotifyContext comes before the input is read.
CaughtEarly == stage \in {"input", "client", "new", "run", "render"}

\* While run is past signal.NotifyContext.
Caught == stage \in {"new", "run", "render"}

\* (Nothing reads the context any more once Run has returned.)
Cancel ==
  /\ Caught /\ pc \notin {"done", "error"}
  /\ Interrupt /\ UNCHANGED command

Kill ==
  /\ stage # "exited" /\ ~Caught
  /\ Exits(Killed) /\ UNCHANGED written
-----------------------------------------------------------------------------
CommandNext ==
  \/ ValidateFlags \/ LoadConfig \/ BuildWorkloads \/ NewClient \/ NewReturns
  \/ NewFails \/ Fails
  \/ RunStep \/ OutsideStep \/ RunReturns \/ RunFails
  \/ Render
  \/ Cancel \/ Kill

CommandSpec == CommandInit /\ [][CommandNext]_all

\* Run goes on by itself, its result is rendered, and New returns once the context
\* is done (Startup!ReturnsUnlessStarved).  Input may keep the command waiting.
Going == RunStep \/ RunReturns \/ RunFails \/ Render \/ (cluster.cancelled /\ NewFails)

CommandFairSpec == CommandSpec /\ WF_all(Going)
-----------------------------------------------------------------------------
(* Correctness.                                                            *)

Placed(k) == Cardinality(ReplicasOf(k) \cap scheduledPods)

\* "The exit code is the machine-readable signal": 0 and 1 come with the full report
\* of the whole batch, 0 if and only if the ledger holds each replica of each
\* workload; nothing else comes with it.
ExitTruthful ==
  stage = "exited" =>
    /\ exit \in {0, 1} <=> written = "report"
    /\ written = "report" =>
         (exit = 0 <=> \A k \in 1 .. Len(batch) : Placed(k) = batch[k].replicas)

\* What a reader sees agrees with what a script sees: the code is 0 if and only if
\* the line that closes the report says so, no row gives a reason, and each shows as
\* many replicas as were asked for, in green.
ReportAgrees ==
  exit \in {0, 1} =>
    /\ exit = 0 <=> Rendered.closing.says = "SCHEDULABLE"
    /\ exit = 0 <=> \A k \in 1 .. Len(batch) : Rendered.rows[k].reason = {}
    /\ \A k \in 1 .. Len(batch) : LET row == Rendered.rows[k] IN
         row.reason = {} <=> row.fit = row.replicas /\ row.color = "green"

\* Run returns, through searches that find nothing and claims that come and go.
RunEnds == stage = "run" ~> stage # "run"

\* An interrupt that does not end the process at once ends it in the end.
InterruptEnds == cluster.cancelled ~> stage = "exited"
-----------------------------------------------------------------------------
(* What the README says and the command does not keep.                     *)

\* README:146: exit code 0 means "Every replica of every workload fits": each placed
\* replica passes the filters, given a context that is not done, among the others.
ZeroMeansFits ==
  exit = 0 => \A p \in simulated :
    FitsOnNode(View([cluster EXCEPT !.cancelled = FALSE], pvcStore, scheduledPods \ {p}),
               p, p.node)
===============================================================================
