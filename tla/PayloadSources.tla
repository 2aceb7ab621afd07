--------------------------- MODULE PayloadSources ---------------------------
(***************************************************************************)
(* The sources of a payload (PayloadBase, modules/payloads/payload/        *)
(* payload_base) and the tasks that set them up and tear them down.        *)
(*                                                                         *)
(* The payload module serves set_sources, add_source and the creation of   *)
(* the source tasks on its DBus main loop; a created task is run by its    *)
(* own thread later, over the list it was created with.  set_sources       *)
(* replaces the list object, so a task created earlier keeps the old list: *)
(* this is the race the NOTE in set_sources documents.                     *)
(*                                                                         *)
(* SetUpSourcesTask and TearDownSourcesTask and the per-source set-up and  *)
(* tear-down live outside this source tree and are modelled from the spec  *)
(* (4.1, 4.5): set-up takes UNREADY to READY and fails on a READY source   *)
(* or on an I/O error, aborting the rest of its list; tear-down takes      *)
(* READY to UNREADY and is a no-op otherwise.                              *)
(***************************************************************************)
EXTENDS Naturals, Sequences, SequencesExt

CONSTANTS
    Sources,        \* source objects
    SupportedTypes, \* supported_source_types of the payload
    TypeOf,         \* TypeOf[s]: source.type
    NeedsSetUp,     \* sources whose state starts UNREADY (others NOT_APPLICABLE)
    NetworkRequired,\* sources with network_required
    SpaceOf,        \* SpaceOf[s]: source.required_space
    Tasks,          \* identities of the task objects the module may create
    MaxSources      \* longest source list a client passes

States == {"NOT_APPLICABLE", "UNREADY", "READY"}
Results == {"none", "ok", "IncompatibleSourceError", "SourceSetupError"}
TaskKinds == {"setup", "teardown"}
TaskStatus == {"unused", "created", "done", "failed"}

\* the source lists a client can pass to set_sources
SourceLists == BoundedSeq(Sources, MaxSources)

VARIABLES
    sources,   \* PayloadBase._sources
    state,     \* state[s]: source.get_state()
    task,      \* task[t]: kind, the list it was created with, its progress
    result     \* outcome of the last set_sources call

vars == <<sources, state, task, result>>

-----------------------------------------------------------------------------
(* PayloadBase *)

\* is_network_required
IsNetworkRequired == \E i \in 1..Len(sources) : sources[i] \in NetworkRequired

\* calculate_required_space
CalculateRequiredSpace ==
    FoldLeft(LAMBDA total, s : total + SpaceOf[s], 0, sources)

\* set_sources: type check, then the READY guard, then replace the list.
SetSources(new) ==
    /\ new \in SourceLists
    /\ \/ /\ \E i \in 1..Len(new) : TypeOf[new[i]] \notin SupportedTypes
          /\ result' = "IncompatibleSourceError"
          /\ UNCHANGED sources
       \/ /\ \A i \in 1..Len(new) : TypeOf[new[i]] \in SupportedTypes
          /\ \E i \in 1..Len(sources) : state[sources[i]] = "READY"
          /\ result' = "SourceSetupError"
          /\ UNCHANGED sources
       \/ /\ \A i \in 1..Len(new) : TypeOf[new[i]] \in SupportedTypes
          /\ \A i \in 1..Len(sources) : state[sources[i]] # "READY"
          /\ sources' = new
          /\ result' = "ok"
    /\ UNCHANGED <<state, task>>

\* add_source: append to a copy of the list and set it
AddSource(s) == SetSources(Append(sources, s))

\* set_up_sources_with_task / tear_down_sources_with_task: a task over the
\* current list object; tear_down_with_tasks creates one only if the list
\* is not empty.
CreateTask(t, kind) ==
    /\ task[t].status = "unused"
    /\ task' = [task EXCEPT ![t] = [kind |-> kind, list |-> sources,
                                     pc |-> 1, status |-> "created"]]
    /\ UNCHANGED <<sources, state, result>>

SetUpSourcesWithTask(t) == CreateTask(t, "setup")

TearDownSourcesWithTask(t) == CreateTask(t, "teardown")

TearDownWithTasks(t) == sources # <<>> /\ CreateTask(t, "teardown")

-----------------------------------------------------------------------------
(* The task threads (spec-modelled) *)

\* One source of a set-up task: UNREADY becomes READY, NOT_APPLICABLE is
\* skipped, READY or an I/O error fails the task and aborts the rest.
SetUpStep(t) ==
    LET s == task[t].list[task[t].pc] IN
    \/ /\ state[s] = "UNREADY"
       /\ state' = [state EXCEPT ![s] = "READY"]
       /\ task' = [task EXCEPT ![t].pc = @ + 1]
    \/ /\ state[s] = "NOT_APPLICABLE"
       /\ task' = [task EXCEPT ![t].pc = @ + 1]
       /\ UNCHANGED state
    \/ /\ state[s] = "READY"
       /\ task' = [task EXCEPT ![t].status = "failed"]
       /\ UNCHANGED state
    \/ /\ state[s] = "UNREADY"
       /\ task' = [task EXCEPT ![t].status = "failed"]
       /\ UNCHANGED state

\* Bug variant: tear-down of a source that is not READY fails the task.
TearDownStepFailing(t) ==
    LET s == task[t].list[task[t].pc] IN
    \/ /\ state[s] = "READY"
       /\ state' = [state EXCEPT ![s] = "UNREADY"]
       /\ task' = [task EXCEPT ![t].pc = @ + 1]
    \/ /\ state[s] # "READY"
       /\ task' = [task EXCEPT ![t].status = "failed"]
       /\ UNCHANGED state

\* Bug variant: tear-down resets the state whatever it was.
TearDownStepUnconditional(t) ==
    LET s == task[t].list[task[t].pc] IN
    /\ state' = [state EXCEPT ![s] = "UNREADY"]
    /\ task' = [task EXCEPT ![t].pc = @ + 1]

\* One source of a tear-down task: READY becomes UNREADY, anything else is
\* left alone.
TearDownStep(t) ==
    LET s == task[t].list[task[t].pc] IN
    /\ state' = [state EXCEPT ![s] = IF @ = "READY" THEN "UNREADY" ELSE @]
    /\ task' = [task EXCEPT ![t].pc = @ + 1]

RunTaskStep(t) ==
    /\ task[t].status = "created"
    /\ task[t].pc <= Len(task[t].list)
    /\ IF task[t].kind = "setup" THEN SetUpStep(t) ELSE TearDownStep(t)
    /\ UNCHANGED <<sources, result>>

FinishTask(t) ==
    /\ task[t].status = "created"
    /\ task[t].pc > Len(task[t].list)
    /\ task' = [task EXCEPT ![t].status = "done"]
    /\ UNCHANGED <<sources, state, result>>

-----------------------------------------------------------------------------

Init ==
    /\ sources = <<>>
    /\ state = [s \in Sources |-> IF s \in NeedsSetUp THEN "UNREADY"
                                                      ELSE "NOT_APPLICABLE"]
    /\ task = [t \in Tasks |-> [kind |-> "setup", list |-> <<>>, pc |-> 1,
                                status |-> "unused"]]
    /\ result = "none"

Client ==
    \/ \E new \in SourceLists : SetSources(new)
    \/ /\ Len(sources) < MaxSources
       /\ \E s \in Sources : AddSource(s)
    \/ \E t \in Tasks : SetUpSourcesWithTask(t)
    \/ \E t \in Tasks : TearDownSourcesWithTask(t)
    \/ \E t \in Tasks : TearDownWithTasks(t)

Next ==
    \/ Client
    \/ \E t \in Tasks : RunTaskStep(t)
    \/ \E t \in Tasks : FinishTask(t)

\* A started task thread is never starved.
Fairness == \A t \in Tasks : WF_vars(RunTaskStep(t)) /\ WF_vars(FinishTask(t))

Spec == Init /\ [][Next]_vars /\ Fairness

-----------------------------------------------------------------------------
(* Properties *)

TypeOK ==
    /\ sources \in SourceLists
    /\ state \in [Sources -> States]
    /\ \A s \in Sources : state[s] = "NOT_APPLICABLE" <=> s \notin NeedsSetUp
    /\ \A t \in Tasks :
         /\ task[t].kind \in TaskKinds
         /\ task[t].list \in SourceLists
         /\ task[t].pc \in 1..MaxSources + 1
         /\ task[t].status \in TaskStatus
    /\ result \in Results

=============================================================================
