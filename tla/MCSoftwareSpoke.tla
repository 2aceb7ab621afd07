--------------------------- MODULE MCSoftwareSpoke ---------------------------
(***************************************************************************)
(* Two repositories: r1 offers two environments with overlapping groups,  *)
(* r2 (the source switched to) drops e1 and changes e2's defaults, so a    *)
(* stored environment can become invalid and a default can turn into an   *)
(* add-on; e1's default group is visible in r1, so the user can deselect  *)
(* it.  The check finds e1 broken against r2 and warns about e2 against   *)
(* r1.                                                                     *)
(***************************************************************************)
EXTENDS SoftwareSpoke, TLC

CONSTANTS r1, r2, e1, e2, g1, g2, g3, none

MCEnvsIn == (r1 :> {e1, e2}) @@ (r2 :> {e2})
MCDefaultEnv == (r1 :> e1) @@ (r2 :> e2)
MCDefaultGroupsOf ==
    (r1 :> ((e1 :> {g1}) @@ (e2 :> {g2})))
 @@ (r2 :> ((e1 :> {}) @@ (e2 :> {g3})))
MCOptionalGroupsOf ==
    (r1 :> ((e1 :> {g2}) @@ (e2 :> {g1})))
 @@ (r2 :> ((e1 :> {}) @@ (e2 :> {g2})))
\* e1's default group g1 is user visible in r1, so it has a row
MCVisibleGroupsOf ==
    (r1 :> ((e1 :> {g1}) @@ (e2 :> {g3})))
 @@ (r2 :> ((e1 :> {}) @@ (e2 :> {})))
MCGroupsIn == (r1 :> {g1, g2, g3}) @@ (r2 :> {g2, g3})

\* a %packages section may name any environment and groups
MCKickstartSelections ==
    {[environment |-> e, groups |-> G] : e \in {e1, e2, none},
                                         G \in SUBSET {g1, g2, g3}}

MCVerdict ==
    (r1 :> ((e1 :> {}) @@ (e2 :> {"warning"}) @@ (none :> {})))
 @@ (r2 :> ((e1 :> {"error"}) @@ (e2 :> {}) @@ (none :> {})))
=============================================================================
