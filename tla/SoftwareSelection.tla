------------------------- MODULE SoftwareSelection -------------------------
(***************************************************************************)
(* The software selection cache (SoftwareSelectionCache, ui/lib/software)  *)
(* driven by the UI thread of the software selection spoke                 *)
(* (ui/gui/spokes/software_selection).                                     *)
(*                                                                         *)
(* The payload keeps a flat PackagesSelectionData (environment + groups).  *)
(* Entering the spoke builds a fresh cache from it (refresh); the user     *)
(* picks an environment and toggles add-on groups; leaving the spoke       *)
(* writes the cache back (apply).  SoftwareSpoke composes these actions   *)
(* with the spoke's threads and the source changes made in the hub.       *)
(*                                                                         *)
(* Group lists are sorted in the code (groups, available_groups); the      *)
(* order is presentation only, so they are sets here.                      *)
(***************************************************************************)
EXTENDS FiniteSets, FiniteSetsExt

CONSTANTS
    Repos,          \* repository metadata the installation source can offer
    Envs,           \* environment ids
    Groups,         \* group ids
    NoEnv,          \* the empty environment id ""
    NoRepo,         \* no selection has been applied yet
    EnvsIn,         \* EnvsIn[r]: environments of r (dnf_manager.environments)
    DefaultEnv,     \* DefaultEnv[r]: dnf_manager.default_environment of r
    DefaultGroupsOf,\* DefaultGroupsOf[r][e]: environment_data.default_groups
    OptionalGroupsOf, \* [r][e]: environment_data.optional_groups
    VisibleGroupsOf,  \* [r][e]: environment_data.visible_groups
    GroupsIn,       \* GroupsIn[r]: groups that dnf_manager.resolve_group accepts
    KickstartSelections \* selections a %packages section can set initially

\* environment_data.get_available_groups(): the default, optional and
\* visible groups (dnf_manager, outside this tree)
AvailableGroupsOf(r, e) ==
    DefaultGroupsOf[r][e] \cup OptionalGroupsOf[r][e]
      \cup VisibleGroupsOf[r][e]

\* _refresh_groups: the add-on rows of environment e, the optional groups
\* and then the visible ones that are not optional (the separator and the
\* order are layout)
AddonRows(r, e) ==
    OptionalGroupsOf[r][e]
      \cup {g \in VisibleGroupsOf[r][e] : g \notin OptionalGroupsOf[r][e]}

ASSUME /\ \A r \in Repos : EnvsIn[r] \subseteq Envs
       /\ \A r \in Repos : DefaultEnv[r] \in EnvsIn[r] \cup {NoEnv}
       /\ \A r \in Repos : \A e \in EnvsIn[r] :
              AvailableGroupsOf(r, e) \subseteq GroupsIn[r]

Selection == [environment : Envs \cup {NoEnv}, groups : SUBSET Groups]

Cache == [environment : Envs \cup {NoEnv},
          available : SUBSET Groups, default : SUBSET Groups,
          selected : SUBSET Groups, deselected : SUBSET Groups]

VARIABLES
    repo,        \* metadata of the current installation source
    selection,   \* payload.get_packages_selection()
    kickstarted, \* SoftwareSelectionSpoke._kickstarted
    cache,       \* SoftwareSelectionSpoke._selection_cache
    phase,       \* "init" | "hub" | "spoke": where the UI thread is
    appliedRepo  \* history: repo when the selection was last written by apply

vars == <<repo, selection, kickstarted, cache, phase, appliedRepo>>

-----------------------------------------------------------------------------
(* SoftwareSelectionCache *)

NewCache == [environment |-> NoEnv, available |-> {}, default |-> {},
             selected |-> {}, deselected |-> {}]

\* select_environment: reset, then take the environment's metadata.
SelectEnvironment(c, e) ==
    IF e = NoEnv
    THEN [c EXCEPT !.environment = NoEnv, !.default = {}, !.available = {}]
    ELSE [c EXCEPT !.environment = e,
                   !.default = DefaultGroupsOf[repo][e],
                   !.available = AvailableGroupsOf(repo, e)]

\* select_group: undo a deselection; remember it unless it is a default.
SelectGroup(c, g) ==
    [c EXCEPT !.deselected = @ \ {g},
              !.selected = IF g \in c.default THEN @ ELSE @ \cup {g}]

\* deselect_group: deselection wins over default and selected at query time.
DeselectGroup(c, g) == [c EXCEPT !.deselected = @ \cup {g}]

\* is_group_selected: availability, then deselection, then default/selected.
IsGroupSelected(c, g) ==
    /\ g \in c.available
    /\ g \notin c.deselected
    /\ g \in c.default \cup c.selected

\* the groups property: the selected groups among the available ones
EffectiveGroups(c) == {g \in c.available : IsGroupSelected(c, g)}

\* Bug variant: the stored environment is selected without resolving it.
ApplySelectionDataUnresolved(c, s) ==
    LET reset == [SelectEnvironment(c, s.environment) EXCEPT !.selected = {},
                                                             !.deselected = {}]
    IN  FoldSet(LAMBDA g, acc : SelectGroup(acc, g), reset,
                {g \in s.groups : g \in GroupsIn[repo]})

\* Bug variant: the user's choices are reset after the groups are replayed.
ApplySelectionDataResetLast(c, s) ==
    LET withEnv == IF s.environment \in EnvsIn[repo]
                   THEN SelectEnvironment(c, s.environment)
                   ELSE SelectEnvironment(c, DefaultEnv[repo])
        replayed == FoldSet(LAMBDA g, acc : SelectGroup(acc, g), withEnv,
                            {g \in s.groups : g \in GroupsIn[repo]})
    IN  [replayed EXCEPT !.selected = {}, !.deselected = {}]

\* apply_selection_data: resolve the environment or fall back to the
\* default one, reset the user's choices, replay the resolvable groups.
ApplySelectionData(c, s) ==
    LET withEnv == IF s.environment \in EnvsIn[repo]
                   THEN SelectEnvironment(c, s.environment)
                   ELSE SelectEnvironment(c, DefaultEnv[repo])
        reset   == [withEnv EXCEPT !.selected = {}, !.deselected = {}]
    IN  FoldSet(LAMBDA g, acc : SelectGroup(acc, g), reset,
                {g \in s.groups : g \in GroupsIn[repo]})

\* get_selection_data
GetSelectionData(c) ==
    [environment |-> c.environment, groups |-> EffectiveGroups(c)]

-----------------------------------------------------------------------------
(* The spoke, on the UI thread *)

Init ==
    /\ repo \in Repos
    /\ kickstarted \in BOOLEAN
    /\ selection \in IF kickstarted THEN KickstartSelections
                     ELSE {[environment |-> NoEnv, groups |-> {}]}
    /\ cache = NewCache
    /\ phase = "init"
    /\ appliedRepo = NoRepo

\* _initialize_selection with a ready payload: without kickstart, select
\* the default environment and apply it; with kickstart, the %packages
\* selection is kept as it is.
Initialize ==
    /\ phase = "init"
    /\ phase' = "hub"
    /\ \/ /\ ~kickstarted
          /\ LET c == SelectEnvironment(cache, DefaultEnv[repo])
             IN  /\ cache' = c
                 /\ selection' = GetSelectionData(c)
          /\ appliedRepo' = repo
          /\ UNCHANGED <<repo, kickstarted>>
       \/ /\ kickstarted
          /\ UNCHANGED <<repo, selection, kickstarted, cache, appliedRepo>>

\* _initialize_selection when payload.is_ready() is false: it returns at
\* once, leaving the cache and the selection as they are
InitializeSkipped ==
    /\ phase = "init"
    /\ phase' = "hub"
    /\ UNCHANGED <<repo, selection, kickstarted, cache, appliedRepo>>

\* refresh: a new cache built from the payload's selection
Refresh ==
    /\ phase = "hub"
    /\ phase' = "spoke"
    /\ cache' = ApplySelectionData(NewCache, selection)
    /\ UNCHANGED <<repo, selection, kickstarted, appliedRepo>>

\* on_environment_activated
EnvironmentActivated(e) ==
    /\ phase = "spoke"
    /\ e \in EnvsIn[repo]
    /\ cache' = SelectEnvironment(cache, e)
    /\ UNCHANGED <<repo, selection, kickstarted, phase, appliedRepo>>

\* on_addon_activated: toggle a group row of the selected environment;
\* without an environment _refresh_groups adds no rows
AddonActivated(g) ==
    /\ phase = "spoke"
    /\ cache.environment # NoEnv
    /\ g \in AddonRows(repo, cache.environment)
    /\ cache' = IF ~IsGroupSelected(cache, g) THEN SelectGroup(cache, g)
                                               ELSE DeselectGroup(cache, g)
    /\ UNCHANGED <<repo, selection, kickstarted, phase, appliedRepo>>

\* apply: the cache is written back to the payload
Apply ==
    /\ phase = "spoke"
    /\ phase' = "hub"
    /\ kickstarted' = FALSE
    /\ selection' = GetSelectionData(cache)
    /\ appliedRepo' = repo
    /\ UNCHANGED <<repo, cache>>

-----------------------------------------------------------------------------
(* Properties *)

TypeOK ==
    /\ repo \in Repos
    /\ selection \in Selection
    /\ kickstarted \in BOOLEAN
    /\ cache \in Cache
    /\ cache.default \subseteq cache.available
    /\ phase \in {"init", "hub", "spoke"}
    /\ appliedRepo \in Repos \cup {NoRepo}

=============================================================================
