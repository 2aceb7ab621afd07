---------------------------- MODULE SoftwareSpoke ----------------------------
(***************************************************************************)
(* The software selection spoke against the hub (ui/gui/spokes/           *)
(* software_selection, ui/lib/software), composed with the selection      *)
(* cache SoftwareSelection (as SS): its initialization thread              *)
(* (THREAD_SOFTWARE_WATCHER), the user's visits (refresh, the environment  *)
(* and add-on handlers, apply and execute), the check thread               *)
(* (THREAD_CHECK_SOFTWARE) with its tx_id bookkeeping, and a change of the *)
(* installation source made in the source spoke.                           *)
(*                                                                         *)
(* The report of CheckPackagesSelectionTask (the business of              *)
(* SelectionCheck) is reduced to Verdict[r][e], the report the check gives *)
(* for environment e against the metadata of source r.                     *)
(*                                                                         *)
(* The source spoke and the payload thread are outside this tree.  The     *)
(* code's own reading of tx_id (_source_has_changed) is that a source      *)
(* change bumps it; the hub lets the user into a spoke unless it was sent  *)
(* not-ready, and the software spoke is not ready while it processes.      *)
(***************************************************************************)
EXTENDS Integers, Sequences

CONSTANTS
    Repos, Envs, Groups, NoEnv, NoRepo, EnvsIn, DefaultEnv, DefaultGroupsOf,
    OptionalGroupsOf, VisibleGroupsOf, GroupsIn, KickstartSelections,
                  \* as in SoftwareSelection
    Verdict,      \* Verdict[r][e] \subseteq {"error", "warning"}: what the
                  \* report of e against r holds
    MaxUserActs,  \* visits of the software spoke and source changes in a run
    NoCheck       \* the task's selection before any check was made

NoTx == -1        \* _tx_id before the first check (None)

VARIABLES
    repo, selection, kickstarted, cache, phase, appliedRepo,  \* SS
    txId,          \* payload.tx_id
    spokeTx,       \* SoftwareSelectionSpoke._tx_id
    errors,        \* _errors is not empty
    warnings,      \* _warnings is not empty
    watcher,       \* THREAD_SOFTWARE_WATCHER: "init" | "waiting" | "done"
    check,         \* THREAD_CHECK_SOFTWARE: "none" | "started" | "running" | "ran"
    checkSel,      \* the selection the check thread's task was made with
    checkRepo,     \* the metadata the task resolved against
    checkVerdict,  \* the report the task returned
    sourceBlocked, \* hubQ holds send_not_ready("SourceSpoke")
    payloadReady,  \* payload.is_ready(): the source's metadata is loaded
    userActs       \* user actions so far

SS == INSTANCE SoftwareSelection

ssVars == <<repo, selection, kickstarted, cache, phase, appliedRepo>>
spokeVars == <<txId, spokeTx, errors, warnings, watcher, check, checkSel,
               checkRepo, checkVerdict, sourceBlocked, payloadReady, userActs>>
vars == <<ssVars, spokeVars>>

-----------------------------------------------------------------------------
(* ui/lib/software: the status of a selection *)

\* is_software_selection_complete
SelectionComplete(env) ==
    \/ kickstarted /\ env = NoEnv
    \/ env \in EnvsIn[repo]

\* get_software_selection_status, by the message it returns
SelectionStatus(env) ==
    CASE kickstarted /\ env = NoEnv            -> "custom"
      [] kickstarted /\ env \notin EnvsIn[repo] -> "invalid_kickstart_env"
      [] ~kickstarted /\ env = NoEnv           -> "confirm"
      [] ~kickstarted /\ env \notin EnvsIn[repo] -> "invalid_env"
      [] OTHER                                  -> "env_name"

-----------------------------------------------------------------------------
(* The spoke's properties *)

\* _processing_data: one of its threads, or the payload thread, is alive
Processing == watcher # "done" \/ check # "none"

\* _source_has_changed
SourceHasChanged == spokeTx # txId

\* _source_is_set
SourceIsSet == payloadReady

\* Bug variant: ready looks only at the source.
ReadySourceOnly == SourceIsSet

\* ready
Ready == ~Processing /\ SourceIsSet

\* Bug variant: a stored error or warning is shown before the source state.
StatusErrorsFirst ==
    CASE Processing       -> "processing"
      [] errors           -> "error"
      [] warnings         -> "warning"
      [] ~SourceIsSet     -> "source_not_set"
      [] SourceHasChanged -> "source_changed"
      [] OTHER            -> SelectionStatus(selection.environment)

\* status, by the message it returns
Status ==
    CASE Processing       -> "processing"
      [] ~SourceIsSet     -> "source_not_set"
      [] SourceHasChanged -> "source_changed"
      [] errors           -> "error"
      [] warnings         -> "warning"
      [] OTHER            -> SelectionStatus(selection.environment)

\* completed
Completed ==
    /\ Ready
    /\ ~errors
    /\ ~SourceHasChanged
    /\ SelectionComplete(selection.environment)

-----------------------------------------------------------------------------
(* The watcher thread: _initialize and _initialize_selection *)

\* with a ready payload, without kickstart: select the default environment
\* in the cache and apply it (which marks this spoke and the source spoke
\* not ready); then execute
Initialize ==
    /\ watcher = "init"
    /\ payloadReady
    /\ SS!Initialize
    /\ sourceBlocked' = ~kickstarted
    /\ check' = "started"
    /\ watcher' = "waiting"
    /\ UNCHANGED <<txId, spokeTx, errors, warnings, checkSel, checkRepo,
                   checkVerdict, payloadReady, userActs>>

\* the payload is not ready: _initialize_selection returns at once, no
\* check is started, and _initialize sends the spoke ready and is done
InitializeSkipped ==
    /\ watcher = "init"
    /\ ~payloadReady
    /\ SS!InitializeSkipped
    /\ watcher' = "done"
    /\ UNCHANGED <<txId, spokeTx, errors, warnings, check, checkSel, checkRepo,
                   checkVerdict, sourceBlocked, payloadReady, userActs>>

\* threadMgr.wait(THREAD_CHECK_SOFTWARE), then initialize_done
WatcherDone ==
    /\ watcher = "waiting"
    /\ check = "none"
    /\ watcher' = "done"
    /\ UNCHANGED ssVars
    /\ UNCHANGED <<txId, spokeTx, errors, warnings, check, checkSel, checkRepo,
                   checkVerdict, sourceBlocked, payloadReady, userActs>>

-----------------------------------------------------------------------------
(* The check thread: _check_software_selection *)

\* bump_tx_id, then the task is made with the current selection
CheckStart ==
    /\ check = "started"
    /\ txId' = txId + 1
    /\ checkSel' = selection
    /\ check' = "running"
    /\ UNCHANGED ssVars
    /\ UNCHANGED <<spokeTx, errors, warnings, watcher, checkRepo, checkVerdict,
                   sourceBlocked, payloadReady, userActs>>

\* task.run() resolves the selection against the DNF manager's metadata
CheckRun ==
    /\ check = "running"
    /\ checkRepo' = repo
    /\ checkVerdict' = Verdict[repo][checkSel.environment]
    /\ check' = "ran"
    /\ UNCHANGED ssVars
    /\ UNCHANGED <<txId, spokeTx, errors, warnings, watcher, checkSel,
                   sourceBlocked, payloadReady, userActs>>

\* Bug variant: the id taken as checked is one ahead.
CheckFinishNextTx ==
    /\ check = "ran"
    /\ errors' = ("error" \in checkVerdict)
    /\ warnings' = ("warning" \in checkVerdict)
    /\ spokeTx' = txId + 1
    /\ sourceBlocked' = FALSE
    /\ check' = "none"
    /\ UNCHANGED ssVars
    /\ UNCHANGED <<txId, watcher, checkSel, checkRepo, checkVerdict,
                   payloadReady, userActs>>

\* Bug variant: the source spoke is not sent ready again.
CheckFinishKeepsBlocked ==
    /\ check = "ran"
    /\ errors' = ("error" \in checkVerdict)
    /\ warnings' = ("warning" \in checkVerdict)
    /\ spokeTx' = txId
    /\ check' = "none"
    /\ UNCHANGED ssVars
    /\ UNCHANGED <<txId, watcher, checkSel, checkRepo, checkVerdict,
                   sourceBlocked, payloadReady, userActs>>

\* store the report, take payload.tx_id as checked, send both spokes ready
CheckFinish ==
    /\ check = "ran"
    /\ errors' = ("error" \in checkVerdict)
    /\ warnings' = ("warning" \in checkVerdict)
    /\ spokeTx' = txId
    /\ sourceBlocked' = FALSE
    /\ check' = "none"
    /\ UNCHANGED ssVars
    /\ UNCHANGED <<txId, watcher, checkSel, checkRepo, checkVerdict,
                   payloadReady, userActs>>

CheckThread == CheckStart \/ CheckRun \/ CheckFinish

-----------------------------------------------------------------------------
(* The user *)

\* the hub opens the spoke only when it is ready; refresh builds a new
\* cache from the payload's selection
EnterSpoke ==
    /\ Ready
    /\ userActs < MaxUserActs
    /\ SS!Refresh
    /\ userActs' = userActs + 1
    /\ UNCHANGED <<txId, spokeTx, errors, warnings, watcher, check, checkSel,
                   checkRepo, checkVerdict, sourceBlocked, payloadReady>>

\* on_environment_activated and on_addon_activated, in the spoke
PickEnvironment(e) == SS!EnvironmentActivated(e) /\ UNCHANGED spokeVars

PickAddon(g) == SS!AddonActivated(g) /\ UNCHANGED spokeVars

\* Bug variant: the selection is applied but not checked.
LeaveSpokeNoExecute ==
    /\ SS!Apply
    /\ sourceBlocked' = TRUE
    /\ UNCHANGED <<txId, spokeTx, errors, warnings, watcher, check, checkSel,
                   checkRepo, checkVerdict, payloadReady, userActs>>

\* leaving the spoke: apply (the cache becomes the payload's selection,
\* both spokes are sent not ready) and execute
LeaveSpoke ==
    /\ SS!Apply
    /\ sourceBlocked' = TRUE
    /\ check' = "started"
    /\ UNCHANGED <<txId, spokeTx, errors, warnings, watcher, checkSel,
                   checkRepo, checkVerdict, payloadReady, userActs>>

\* the user applies another source in the source spoke: new metadata and
\* a new transaction id; setting the source up may fail, which leaves the
\* payload not ready.  The hub and the source spoke are outside this
\* repository; the gate is the model's assumption about them: the user is
\* in one spoke at a time, and the hub opens the source spoke only while
\* it is ready, that is neither sent not-ready by apply (line 309) nor
\* while the software spoke's threads, which read the payload, are alive.
SourceChange(r, ok) ==
    /\ phase # "spoke"
    /\ ~sourceBlocked
    /\ ~Processing
    /\ userActs < MaxUserActs
    /\ repo' = r
    /\ payloadReady' = ok
    /\ txId' = txId + 1
    /\ userActs' = userActs + 1
    /\ UNCHANGED <<selection, kickstarted, cache, phase, appliedRepo>>
    /\ UNCHANGED <<spokeTx, errors, warnings, watcher, check, checkSel,
                   checkRepo, checkVerdict, sourceBlocked>>

-----------------------------------------------------------------------------

Init ==
    /\ SS!Init
    /\ txId = 0
    /\ spokeTx = NoTx
    /\ errors = FALSE
    /\ warnings = FALSE
    /\ watcher = "init"
    /\ check = "none"
    /\ checkSel = NoCheck
    /\ checkRepo = repo
    /\ checkVerdict = {}
    /\ sourceBlocked = FALSE
    /\ payloadReady \in BOOLEAN
    /\ userActs = 0

Next ==
    \/ Initialize \/ InitializeSkipped \/ WatcherDone
    \/ CheckThread
    \/ EnterSpoke
    \/ \E e \in Envs : PickEnvironment(e)
    \/ \E g \in Groups : PickAddon(g)
    \/ LeaveSpoke
    \/ \E r \in Repos, ok \in BOOLEAN : SourceChange(r, ok)

\* The spoke's threads run once started; the user gets no fairness.
Fairness ==
    /\ WF_vars(Initialize \/ InitializeSkipped \/ WatcherDone)
    /\ WF_vars(CheckThread)

Spec == Init /\ [][Next]_vars /\ Fairness

-----------------------------------------------------------------------------
(* Properties *)

TypeOK ==
    /\ SS!TypeOK
    /\ txId \in 0..2 * MaxUserActs + 1
    /\ spokeTx \in {NoTx} \cup 0..txId
    /\ errors \in BOOLEAN
    /\ warnings \in BOOLEAN
    /\ watcher \in {"init", "waiting", "done"}
    /\ check \in {"none", "started", "running", "ran"}
    /\ checkSel \in SS!Selection \cup {NoCheck}
    /\ checkVerdict \subseteq {"error", "warning"}
    /\ payloadReady \in BOOLEAN
    /\ Status \in {"processing", "source_not_set", "source_changed", "error",
                   "warning", "custom", "invalid_kickstart_env", "confirm",
                   "invalid_env", "env_name"}

\* The spoke is complete only for the selection its last check was made
\* with, groups included: every apply is followed by a new check before
\* the hub can count the spoke as done, and a selection never checked
\* (start-up with no payload, _tx_id None) is never complete.
CheckedSelectionIsCurrent ==
    Completed => checkSel = selection

\* The source spoke, marked not ready by apply, is always released again
\* by the check that follows.
SourceSpokeReleased ==
    sourceBlocked ~> ~sourceBlocked

\* At most one check thread at a time (spec 5): execute adds a
\* THREAD_CHECK_SOFTWARE thread only when none is alive, because the hub
\* keeps the spoke closed while it processes and the watcher starts its
\* check before the spoke can be entered.
OneCheckAtATime ==
    [][check' = "started" /\ check # "started" => check = "none"]_vars

\* While the spoke is shown, the cache's environment is one the current
\* metadata offers (or none), even after a source change in the hub:
\* refresh's apply_selection_data must fall back to the default.
CacheEnvironmentValid ==
    phase = "spoke" => cache.environment \in EnvsIn[repo] \cup {NoEnv}

\* Leaving the spoke and entering it again over the same metadata never
\* drops a group the user saw selected (apply, then refresh).
NoSelectedGroupLost ==
    [][SS!Refresh /\ appliedRepo = repo
         => selection.groups \subseteq SS!EffectiveGroups(cache')]_vars

\* The round trip of the spec: re-entering the spoke over the same
\* metadata shows exactly the groups that were selected when it was left.
SelectionRoundTrip ==
    [][SS!Refresh /\ appliedRepo = repo
         => SS!EffectiveGroups(cache') = selection.groups]_vars

\* When the hub shows the check's result (an error or a warning, or the
\* spoke as complete), that result was computed against the metadata of the
\* current source: status must put a source change after the check (tx_id
\* bookkeeping of _check_software_selection) before the stored report.
ShownResultIsCurrent ==
    Status \in {"error", "warning"} \/ Completed => checkRepo = repo

=============================================================================
