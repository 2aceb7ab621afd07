--------------------------- MODULE SelectionCheck ---------------------------
(***************************************************************************)
(* CheckPackagesSelectionTask (modules/payloads/payload/dnf/validation):   *)
(* the task the software spoke runs to check a selection against the DNF   *)
(* manager, one run after another over the same manager.                   *)
(*                                                                         *)
(* A run clears the manager's previous selection, collects the include and *)
(* exclude specs of the selection, adds the kernel, then calls the four    *)
(* resolver operations, each in its own _reported_errors block.  What the  *)
(* resolver answers to each operation is chosen by the model when the task *)
(* is made (answers), so that the contract can name all four.              *)
(*                                                                         *)
(* get_installation_specs and get_kernel_package (dnf/utils) and the DNF   *)
(* manager are outside this source tree and modelled from the spec         *)
(* (4.4 steps 2-3, 6): the environment of the selection, or the default    *)
(* one when it has none, its groups and packages are included, excluded    *)
(* packages are excluded; the kernel is added unless it is excluded or not *)
(* available; applied specs accumulate in the manager until cleared.       *)
(***************************************************************************)
EXTENDS Naturals, Sequences, SequencesExt

CONSTANTS
    Selections,         \* PackagesSelectionData values the spoke can check
    DefaultEnvironment, \* dnf_manager.default_environment
    NoEnv,              \* the empty environment id
    Kernel,             \* the kernel package
    KernelAvailable,    \* is the kernel package in the repositories?
    Answers             \* the resolver's possible answers to the four operations

VARIABLES
    pc,          \* where the current run is
    op,          \* index of the next resolver operation
    selection,   \* CheckPackagesSelectionTask._selection
    include,     \* _include_list
    exclude,     \* _exclude_list
    report,      \* the ValidationReport being filled
    goal,        \* specs the DNF manager holds: [include, exclude] sets
    answers      \* answers[k]: the resolver's outcome of operation k

vars == <<pc, op, selection, include, exclude, report, goal, answers>>

\* the status of the run in the terms of the contract
status == CASE pc = "idle" -> "idle"
            [] pc \in {"returned", "raised"} -> pc
            [] OTHER -> "running"

\* the report as the caller sees it: only a returned run hands one out
returnedReport == IF pc = "returned" THEN report
                  ELSE [error_messages |-> <<>>, warning_messages |-> <<>>]

Contract == INSTANCE SelectionCheckContract
    WITH status <- status, report <- returnedReport, outcomes <- answers

Ops == Contract!Operations

ASSUME Answers \subseteq [1..Len(Ops) -> Contract!Outcomes]

-----------------------------------------------------------------------------
(* spec-modelled helpers of dnf/utils *)

EnvSpec(e) == <<"env", e>>
PkgSpec(p) == <<"pkg", p>>

\* get_installation_specs(selection, default_environment)
InstallationSpecs(s) ==
    LET env == IF s.environment # NoEnv THEN s.environment ELSE DefaultEnvironment
    IN  [include |-> (IF env # NoEnv THEN <<EnvSpec(env)>> ELSE <<>>)
                     \o SetToSeq({<<"group", g>> : g \in s.groups})
                     \o SetToSeq({PkgSpec(p) : p \in s.packages}),
         exclude |-> SetToSeq({PkgSpec(p) : p \in s.excluded_packages})]

\* get_kernel_package(dnf_manager, exclude_list)
KernelPackage(excl) ==
    IF KernelAvailable /\ ~Contains(excl, PkgSpec(Kernel))
    THEN <<PkgSpec(Kernel)>> ELSE <<>>

-----------------------------------------------------------------------------
(* CheckPackagesSelectionTask *)

\* __init__: a new task over the selection the spoke holds now
Start(s) ==
    /\ pc \in {"idle", "returned", "raised"}
    /\ pc' = "clear"
    /\ selection' = s
    /\ include' = <<>>
    /\ exclude' = <<>>
    /\ report' = Contract!EmptyReport
    /\ op' = 1
    /\ answers' \in Answers
    /\ UNCHANGED goal

\* Bug variant: the previous selection is not cleared.
ClearSelectionSkipped ==
    /\ pc = "clear"
    /\ pc' = "selected"
    /\ UNCHANGED <<op, selection, include, exclude, report, goal, answers>>

\* _clear_selection
ClearSelection ==
    /\ pc = "clear"
    /\ goal' = [include |-> {}, exclude |-> {}]
    /\ pc' = "selected"
    /\ UNCHANGED <<op, selection, include, exclude, report, answers>>

\* _collect_selected_specs
CollectSelectedSpecs ==
    /\ pc = "selected"
    /\ LET specs == InstallationSpecs(selection)
       IN  /\ include' = include \o specs.include
           /\ exclude' = exclude \o specs.exclude
    /\ pc' = "required"
    /\ UNCHANGED <<op, selection, report, goal, answers>>

\* Bug variant: the kernel is chosen before the exclusions are collected.
CollectRequiredSpecsEarly ==
    /\ pc = "required"
    /\ include' = include \o KernelPackage(<<>>)
    /\ pc' = "resolve"
    /\ UNCHANGED <<op, selection, exclude, report, goal, answers>>

\* _collect_required_specs
CollectRequiredSpecs ==
    /\ pc = "required"
    /\ include' = include \o KernelPackage(exclude)
    /\ pc' = "resolve"
    /\ UNCHANGED <<op, selection, exclude, report, goal, answers>>

\* What a resolver operation leaves in the manager: apply_specs adds its
\* specs to the goal (also when it reports missing or broken ones).
GoalAfter(k, o) ==
    IF Ops[k] = "apply_specs" /\ o # "OtherError"
    THEN [include |-> goal.include \cup ToSet(include),
          exclude |-> goal.exclude \cup ToSet(exclude)]
    ELSE goal

\* Bug variant: the exception object is reported instead of its message.
ReportedErrorsRaw(r, k, o) ==
    CASE o = "MissingSpecsError" -> [r EXCEPT !.warning_messages = Append(@, o)]
      [] o \in {"BrokenSpecsError", "InvalidSelectionError"} ->
           [r EXCEPT !.error_messages = Append(@, o)]
      [] OTHER -> r

\* _reported_errors around one resolver operation of _resolve_selection
ReportedErrors(r, k, o) ==
    CASE o = "MissingSpecsError" ->
           [r EXCEPT !.warning_messages = Append(@, Contract!Message(k, o))]
      [] o \in {"BrokenSpecsError", "InvalidSelectionError"} ->
           [r EXCEPT !.error_messages = Append(@, Contract!Message(k, o))]
      [] OTHER -> r

\* Bug variant: one _reported_errors block around all four operations, so
\* the first reportable failure ends the run with the report so far.
ResolverOperationOneBlock ==
    /\ pc = "resolve"
    /\ LET o == answers[op] IN
         /\ goal' = GoalAfter(op, o)
         /\ IF o = "OtherError"
            THEN /\ pc' = "raised"
                 /\ report' = Contract!EmptyReport
                 /\ UNCHANGED op
            ELSE /\ report' = ReportedErrors(report, op, o)
                 /\ op' = op + 1
                 /\ pc' = IF op = Len(Ops) \/ o # "ok" THEN "returned"
                                                      ELSE "resolve"
    /\ UNCHANGED <<selection, include, exclude, answers>>

\* _resolve_selection: the four operations in order, each in its own
\* _reported_errors block
ResolverOperation ==
    /\ pc = "resolve"
    /\ LET o == answers[op] IN
         /\ goal' = GoalAfter(op, o)
         /\ IF o = "OtherError"
            THEN /\ pc' = "raised"
                 /\ report' = Contract!EmptyReport
                 /\ UNCHANGED op
            ELSE /\ report' = ReportedErrors(report, op, o)
                 /\ op' = op + 1
                 /\ pc' = IF op = Len(Ops) THEN "returned" ELSE "resolve"
    /\ UNCHANGED <<selection, include, exclude, answers>>

Init ==
    /\ pc = "idle"
    /\ op = 1
    /\ selection \in Selections
    /\ include = <<>>
    /\ exclude = <<>>
    /\ report = Contract!EmptyReport
    /\ goal = [include |-> {}, exclude |-> {}]
    /\ answers = [k \in 1..Len(Contract!Operations) |-> "ok"]

Next ==
    \/ \E s \in Selections : Start(s)
    \/ ClearSelection
    \/ CollectSelectedSpecs
    \/ CollectRequiredSpecs
    \/ ResolverOperation

\* The task runs in the check thread; once made, it runs to its end.
RunSteps == ClearSelection \/ CollectSelectedSpecs \/ CollectRequiredSpecs
              \/ ResolverOperation

Spec == Init /\ [][Next]_vars /\ WF_vars(RunSteps)

-----------------------------------------------------------------------------
(* Properties *)

TypeOK ==
    /\ pc \in {"idle", "clear", "selected", "required", "resolve",
               "returned", "raised"}
    /\ op \in 1..Len(Ops) + 1
    /\ selection \in Selections
    /\ report.error_messages \in Seq(ToSet(Ops) \X Contract!Outcomes)
    /\ report.warning_messages \in Seq(ToSet(Ops) \X Contract!Outcomes)

\* The task implements the contract: every resolver operation runs even
\* after an earlier one failed with a reportable error, so the returned
\* report holds an entry for each of the resolver's failing answers, with
\* its severity and in the order of the operations; an unclassified error
\* ends the run without a report; and a run that was started ends.
ImplementsContract == Contract!Spec

\* When the specs are applied, the kernel is requested exactly when it is
\* available and the selection does not exclude it (next to any explicit
\* request in the selection): the required specs are collected after the
\* exclusions are known.
KernelRequested ==
    pc = "resolve" =>
      Len(SelectSeq(include, LAMBDA x : x = PkgSpec(Kernel)))
        = (IF Kernel \in selection.packages THEN 1 ELSE 0)
          + (IF KernelAvailable /\ Kernel \notin selection.excluded_packages
             THEN 1 ELSE 0)

\* A returned report is about this selection alone: once the specs are
\* applied, the manager holds exactly the specs of the current run, none
\* left over from an earlier check.
GoalIsCurrentSelection ==
    pc \in {"resolve", "returned"} /\ op > 3 =>
      goal = [include |-> ToSet(include), exclude |-> ToSet(exclude)]

=============================================================================
