--------------------- MODULE PayloadLifecycleContract ---------------------
(***************************************************************************)
(* What the payload promises the installer (spec 4.1, 4.5), with each of   *)
(* setup, install, post_install and unsetup as one atomic step.            *)
(*                                                                         *)
(*   - setup sets up the sources in list order: UNREADY becomes READY and  *)
(*     NOT_APPLICABLE is stepped over.  A READY source or an I/O error     *)
(*     stops it, and the installer goes on to unsetup.  The sources before *)
(*     that point stay set up.                                             *)
(*   - install sets the kernel version list, or raises.                    *)
(*   - unsetup tears down every READY source of the list and never raises. *)
(*                                                                         *)
(* Before the installation the source spoke may change the list and the    *)
(* states as it likes; the contract says nothing of that phase.            *)
(***************************************************************************)
EXTENDS Naturals, Sequences, SequencesExt

CONSTANTS Sources, NeedsSetUp, MaxSources, None

VARIABLES
    step,     \* "ui", the installer step about to run, or "done"
    sources,  \* the payload's source list
    state,    \* state[s]: the source's state between steps
    raised,   \* a step raised
    kernels   \* the kernel version list: None or "set"

vars == <<step, sources, state, raised, kernels>>

States == {"NOT_APPLICABLE", "UNREADY", "READY"}

\* The outcomes of setting up list from states st: the states it leaves
\* and whether it got through the whole list.
RECURSIVE SetUpOutcomes(_, _)
SetUpOutcomes(st, list) ==
    IF list = <<>> THEN {[st |-> st, ok |-> TRUE]}
    ELSE LET s == Head(list) IN
         CASE st[s] = "NOT_APPLICABLE" -> SetUpOutcomes(st, Tail(list))
           [] st[s] = "READY" -> {[st |-> st, ok |-> FALSE]}
           [] OTHER -> {[st |-> st, ok |-> FALSE]}
                         \cup SetUpOutcomes([st EXCEPT ![s] = "READY"],
                                            Tail(list))

\* The states after tearing down list.
TearDown(st, list) ==
    [s \in Sources |-> IF s \in ToSet(list) /\ st[s] = "READY"
                       THEN "UNREADY" ELSE st[s]]

\* A step that raised: the installer goes on to unsetup.
Fail == step' = "unsetup" /\ raised' = TRUE

-----------------------------------------------------------------------------

\* The source spoke, before the installation.
UiPhase ==
    /\ step = "ui"
    /\ sources' \in BoundedSeq(Sources, MaxSources)
    /\ state' \in [Sources -> States]
    /\ \A s \in Sources : state'[s] = "NOT_APPLICABLE" <=> s \notin NeedsSetUp
    /\ UNCHANGED <<step, raised, kernels>>

Begin ==
    /\ step = "ui"
    /\ step' = "setup"
    /\ UNCHANGED <<sources, state, raised, kernels>>

RunSetup ==
    /\ step = "setup"
    /\ \E o \in SetUpOutcomes(state, sources) :
         /\ state' = o.st
         /\ IF o.ok THEN step' = "install" /\ UNCHANGED raised ELSE Fail
    /\ UNCHANGED <<sources, kernels>>

RunInstall ==
    /\ step = "install"
    /\ \/ step' = "post_install" /\ kernels' = "set" /\ UNCHANGED raised
       \/ Fail /\ kernels' \in {kernels, "set"}
    /\ UNCHANGED <<sources, state>>

RunPostInstall ==
    /\ step = "post_install"
    /\ step' = "unsetup"
    /\ UNCHANGED <<sources, state, raised, kernels>>

RunUnsetup ==
    /\ step = "unsetup"
    /\ state' = TearDown(state, sources)
    /\ step' = "done"
    /\ UNCHANGED <<sources, raised, kernels>>

Installation == RunSetup \/ RunInstall \/ RunPostInstall \/ RunUnsetup

Init ==
    /\ step = "ui"
    /\ sources = <<>>
    /\ state = [s \in Sources |-> IF s \in NeedsSetUp THEN "UNREADY"
                                                      ELSE "NOT_APPLICABLE"]
    /\ raised = FALSE
    /\ kernels = None

Next == UiPhase \/ Begin \/ Installation

\* Once begun, the installation is carried through to the end.
Spec == Init /\ [][Next]_vars /\ WF_vars(Installation)

=============================================================================
