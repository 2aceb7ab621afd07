------------------------- MODULE PayloadLifecycle -------------------------
(***************************************************************************)
(* The payload's life from the source spoke to the end of the installation *)
(* (payload/migrated: MigratedDBusPayload; modules/payloads/payload/       *)
(* payload_base: PayloadBase), composed with the source model              *)
(* PayloadSources.                                                         *)
(*                                                                         *)
(* Before the installation, the source spoke (a DBus client) sets the      *)
(* sources and creates source tasks, as in PayloadSources.  Then the       *)
(* installer's thread calls setup, install, post_install and unsetup.      *)
(* Each call asks the payload module for a batch of tasks and runs it with *)
(* _run_tasks: one task after another, each to its end (sync_run_task).    *)
(* A task that fails raises out of _run_tasks, so the rest of the batch    *)
(* never runs.                                                             *)
(*                                                                         *)
(* The following are outside this source tree and are modelled from the    *)
(* spec (4.5, 7):                                                          *)
(*   - the installer that calls the steps, and calls unsetup after an      *)
(*     error;                                                              *)
(*   - the payload's installation tasks, one of which calls                *)
(*     set_kernel_version_list;                                            *)
(*   - the reader of kernel_version_list after the installation.           *)
(* The source tasks of the source spoke have ended before the installation *)
(* starts: the spec (5) assumes that no two tasks set up or tear down a    *)
(* source at once.  Progress callbacks and pre_install only log.           *)
(***************************************************************************)
EXTENDS Naturals, Sequences

CONSTANTS
    Sources, SupportedTypes, TypeOf, NeedsSetUp, NetworkRequired, SpaceOf,
    Tasks, MaxSources,   \* as in PayloadSources
    UiTasks,       \* task objects the source spoke creates
    SetUpTask,     \* the task set_up_sources creates for setup()
    TearDownTask,  \* the task tear_down_with_tasks creates for unsetup()
    InstallTasks,  \* InstallWithTasks(): the installation tasks, in order
    KernelTask,    \* the installation task that calls set_kernel_version_list
    None

VARIABLES
    sources, state, task, result,  \* PayloadSources
    step,         \* the installer: "ui", a step of Steps, or "done"
    pc,           \* "call": asking for the batch; "run": in _run_tasks
    batch,        \* the task paths _run_tasks has still to run
    running,      \* the task sync_run_task waits for, or None
    raised,       \* a step of the installer raised
    kernels,      \* PayloadBase._kernel_version_list: None or "set"
    kernelQuery,  \* the last read of kernel_version_list
    atCall        \* history: the sources' states and kernels when the
                  \* current step was called

PS == INSTANCE PayloadSources

psVars == <<sources, state, task, result>>
lcVars == <<step, pc, batch, running, raised, kernels, kernelQuery, atCall>>
vars == <<psVars, lcVars>>

\* the order in which the installer calls the payload
NextStep == [setup |-> "install", install |-> "post_install",
             post_install |-> "unsetup", unsetup |-> "done"]

InstallTaskSet == {InstallTasks[i] : i \in 1..Len(InstallTasks)}

-----------------------------------------------------------------------------
(* The source spoke and the task threads (PayloadSources) *)

SourceSpoke ==
    /\ step = "ui"
    /\ \/ \E new \in PS!SourceLists : PS!SetSources(new)
       \/ /\ Len(sources) < MaxSources
          /\ \E s \in Sources : PS!AddSource(s)
       \/ \E t \in UiTasks : \/ PS!SetUpSourcesWithTask(t)
                             \/ PS!TearDownSourcesWithTask(t)
                             \/ PS!TearDownWithTasks(t)
    /\ UNCHANGED lcVars

TaskThread(t) == (PS!RunTaskStep(t) \/ PS!FinishTask(t)) /\ UNCHANGED lcVars

\* the installation begins once the source spoke's tasks have ended
BeginInstallation ==
    /\ step = "ui"
    /\ \A t \in UiTasks : task[t].status # "created"
    /\ step' = "setup"
    /\ pc' = "call"
    /\ UNCHANGED <<batch, running, raised, kernels, kernelQuery, atCall>>
    /\ UNCHANGED psVars

-----------------------------------------------------------------------------
(* MigratedDBusPayload: each step asks for its batch *)

\* setup: set_up_sources makes a SetUpSourcesTask over the current list
Setup ==
    /\ step = "setup" /\ pc = "call"
    /\ PS!SetUpSourcesWithTask(SetUpTask)
    /\ batch' = <<SetUpTask>>
    /\ pc' = "run"
    /\ atCall' = [state |-> state, kernels |-> kernels]
    /\ UNCHANGED <<step, running, raised, kernels, kernelQuery>>

\* install: InstallWithTasks
Install ==
    /\ step = "install" /\ pc = "call"
    /\ batch' = InstallTasks
    /\ pc' = "run"
    /\ atCall' = [state |-> state, kernels |-> kernels]
    /\ UNCHANGED <<step, running, raised, kernels, kernelQuery>>
    /\ UNCHANGED psVars

\* PayloadBase.post_install_with_tasks: no post-installation tasks
PostInstallWithTasks == <<>>

\* post_install: the batch of PostInstallWithTasks
PostInstall ==
    /\ step = "post_install" /\ pc = "call"
    /\ batch' = PostInstallWithTasks
    /\ pc' = "run"
    /\ atCall' = [state |-> state, kernels |-> kernels]
    /\ UNCHANGED <<step, running, raised, kernels, kernelQuery>>
    /\ UNCHANGED psVars

\* unsetup: TeardownWithTasks, a TearDownSourcesTask if there are sources
Unsetup ==
    /\ step = "unsetup" /\ pc = "call"
    /\ \/ /\ PS!TearDownWithTasks(TearDownTask)
          /\ batch' = <<TearDownTask>>
       \/ /\ sources = <<>>
          /\ batch' = <<>>
          /\ UNCHANGED psVars
    /\ pc' = "run"
    /\ atCall' = [state |-> state, kernels |-> kernels]
    /\ UNCHANGED <<step, running, raised, kernels, kernelQuery>>

-----------------------------------------------------------------------------
(* _run_tasks *)

\* for task_path in task_paths: the next task is run
NextTask ==
    /\ pc = "run" /\ running = None /\ batch # <<>>
    /\ running' = Head(batch)
    /\ batch' = Tail(batch)
    /\ UNCHANGED <<step, pc, raised, kernels, kernelQuery, atCall>>
    /\ UNCHANGED psVars

\* the batch has run: the step returns and the installer calls the next
StepReturns ==
    /\ pc = "run" /\ running = None /\ batch = <<>>
    /\ step' = NextStep[step]
    /\ pc' = "call"
    /\ UNCHANGED <<batch, running, raised, kernels, kernelQuery, atCall>>
    /\ UNCHANGED psVars

\* sync_run_task raised: the rest of the batch is dropped, and the
\* installer, on the error, calls unsetup (or stops after unsetup)
Raise ==
    /\ running' = None
    /\ batch' = <<>>
    /\ raised' = TRUE
    /\ step' = IF step = "unsetup" THEN "done" ELSE "unsetup"
    /\ pc' = "call"

SourceTaskEndedOnSuccess ==
    /\ running \in Tasks
    /\ task[running].status = "done"
    /\ running' = None
    /\ UNCHANGED <<step, pc, batch, raised, kernels, kernelQuery, atCall>>
    /\ UNCHANGED psVars

\* sync_run_task over a source task: it returns when the task thread has
\* ended, and raises if the task failed
SourceTaskEnded ==
    /\ running \in Tasks
    /\ task[running].status \in {"done", "failed"}
    /\ IF task[running].status = "failed"
       THEN Raise
       ELSE /\ running' = None
            /\ UNCHANGED <<step, pc, batch, raised>>
    /\ UNCHANGED <<kernels, kernelQuery, atCall>>
    /\ UNCHANGED psVars

\* set_kernel_version_list, called by one of the installation tasks
SetKernelVersionList == kernels' = "set"

InstallTaskEnded ==
    /\ running \in InstallTaskSet
    /\ \/ /\ running' = None
          /\ IF running = KernelTask THEN SetKernelVersionList
                                     ELSE UNCHANGED kernels
          /\ UNCHANGED <<step, pc, batch, raised>>
       \/ /\ Raise
          /\ UNCHANGED kernels
    /\ UNCHANGED <<kernelQuery, atCall>>
    /\ UNCHANGED psVars

-----------------------------------------------------------------------------
(* The reader of the kernel version list (spec-modelled) *)

\* get_kernel_version_list: UnavailableValueError while the list is None
GetKernelVersionList ==
    IF kernels = None THEN "UnavailableValueError" ELSE "list"

\* kernel_version_list, read once the installation has returned normally
QueryKernelVersionList ==
    /\ step = "post_install" /\ ~raised
    /\ kernelQuery = "none"
    /\ kernelQuery' = GetKernelVersionList
    /\ UNCHANGED <<step, pc, batch, running, raised, kernels, atCall>>
    /\ UNCHANGED psVars

-----------------------------------------------------------------------------

\* Bug variant: _kernel_version_list starts as an empty list.
InitKernelsEmpty ==
    /\ PS!Init
    /\ step = "ui"
    /\ pc = "call"
    /\ batch = <<>>
    /\ running = None
    /\ raised = FALSE
    /\ kernels = "set"
    /\ kernelQuery = "none"
    /\ atCall = [state |-> state, kernels |-> kernels]

Init ==
    /\ PS!Init
    /\ step = "ui"
    /\ pc = "call"
    /\ batch = <<>>
    /\ running = None
    /\ raised = FALSE
    /\ kernels = None
    /\ kernelQuery = "none"
    /\ atCall = [state |-> state, kernels |-> kernels]

Installer ==
    \/ Setup \/ Install \/ PostInstall \/ Unsetup
    \/ NextTask \/ StepReturns \/ SourceTaskEnded \/ InstallTaskEnded

Next ==
    \/ SourceSpoke
    \/ BeginInstallation
    \/ Installer
    \/ QueryKernelVersionList
    \/ \E t \in Tasks : TaskThread(t)

\* Task threads and the installer's thread are never starved; the user
\* need not start the installation.
Fairness ==
    /\ \A t \in Tasks : WF_vars(TaskThread(t))
    /\ WF_vars(Installer)

Spec == Init /\ [][Next]_vars /\ Fairness

-----------------------------------------------------------------------------
(* Properties *)

TypeOK ==
    /\ PS!TypeOK
    /\ step \in {"ui", "setup", "install", "post_install", "unsetup", "done"}
    /\ pc \in {"call", "run"}
    /\ batch \in Seq(InstallTaskSet \cup {SetUpTask, TearDownTask})
    /\ running \in InstallTaskSet \cup {SetUpTask, TearDownTask, None}
    /\ raised \in BOOLEAN
    /\ kernels \in {None, "set"}
    /\ kernels = "set" => step \in {"install", "post_install", "unsetup", "done"}
    /\ kernelQuery \in {"none", "list", "UnavailableValueError"}
    /\ atCall \in [state : [Sources -> PS!States], kernels : {None, "set"}]

AllSourcesReleased ==
    step = "done" => \A s \in Sources : state[s] # "READY"

\* Once the installation has begun, the installer gets through unsetup,
\* whatever task fails: no sync_run_task waits forever.
InstallationEnds == step = "setup" ~> step = "done"

\* The refinement mapping: while _run_tasks runs a batch, the contract's
\* sources are still as they were when the step was called; the step
\* takes effect, all at once, when it returns or raises.
Contract == INSTANCE PayloadLifecycleContract WITH
    state <- IF pc = "run" THEN atCall.state ELSE state,
    kernels <- IF pc = "run" THEN atCall.kernels ELSE kernels

\* MigratedDBusPayload and its task threads implement the contract: each
\* step's batch of tasks, run one by one by sync_run_task, acts as one
\* atomic setup, install or unsetup; a failed set-up task leaves set up
\* exactly the sources before the one it failed on; unsetup tears down the
\* whole list; and the installation, once begun, reaches its end.
ImplementsContract == Contract!Spec

=============================================================================
