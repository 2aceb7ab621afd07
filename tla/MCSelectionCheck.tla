------------------------- MODULE MCSelectionCheck -------------------------
(***************************************************************************)
(* Selections with and without an environment, with the kernel requested  *)
(* explicitly, excluded, or not named; two checks in a row so that specs  *)
(* of the first could leak into the second; the resolver fails up to two  *)
(* of the four operations, in each way the report tells apart.           *)
(***************************************************************************)
EXTENDS SelectionCheck, FiniteSets, TLC

CONSTANTS e1, g1, kernel, vim

MCSelections ==
    [environment : {e1, NoEnv}, groups : {{g1}},
     packages : {{vim}, {kernel}}, excluded_packages : {{}, {kernel}}]

\* every answer vector with at most two failed operations, each failure
\* one of a warning, an error and an unclassified exception
MCAnswers ==
    {a \in [1..4 -> {"ok", "MissingSpecsError", "InvalidSelectionError",
                     "OtherError"}] :
       Cardinality({k \in 1..4 : a[k] # "ok"}) <= 2}
=============================================================================
