CONSTANTS
    r1 = r1  r2 = r2  e1 = e1  e2 = e2  g1 = g1  g2 = g2  g3 = g3
    none = none
    NoEnv <- none
    NoRepo = NoRepo
    NoCheck = NoCheck
    Repos = {r1, r2}
    Envs = {e1, e2}
    Groups = {g1, g2, g3}
    EnvsIn <- MCEnvsIn
    DefaultEnv <- MCDefaultEnv
    DefaultGroupsOf <- MCDefaultGroupsOf
    OptionalGroupsOf <- MCOptionalGroupsOf
    VisibleGroupsOf <- MCVisibleGroupsOf
    GroupsIn <- MCGroupsIn
    KickstartSelections <- MCKickstartSelections
    Verdict <- MCVerdict
    MaxUserActs = 3

SPECIFICATION Spec
CHECK_DEADLOCK FALSE
PROPERTY SelectionRoundTrip
