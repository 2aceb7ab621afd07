----------------------- MODULE SelectionCheckContract -----------------------
(***************************************************************************)
(* What a run of the software selection check promises (spec 4.4, 7):      *)
(* the resolver answers each of the four operations (outcomes); the run   *)
(* either raises, when one answer is an unclassified error, or returns a   *)
(* report holding one entry for every failed operation of the four, in    *)
(* their order: missing specs as a warning, broken specs and an invalid    *)
(* selection as an error.  A report is made fresh for every run, and a     *)
(* started run ends.                                                       *)
(***************************************************************************)
EXTENDS Sequences, SequencesExt

Operations == <<"disable_modules", "enable_modules", "apply_specs",
                "resolve_selection">>

Outcomes == {"ok", "MissingSpecsError", "BrokenSpecsError",
             "InvalidSelectionError", "OtherError"}

\* the message of the exception an operation raised
Message(k, o) == <<Operations[k], o>>

EmptyReport == [error_messages |-> <<>>, warning_messages |-> <<>>]

\* the report a run returns when the operations ended with outcomes o
Classify(o) ==
    FoldLeft(LAMBDA r, k :
               CASE o[k] = "MissingSpecsError" ->
                      [r EXCEPT !.warning_messages = Append(@, Message(k, o[k]))]
                 [] o[k] \in {"BrokenSpecsError", "InvalidSelectionError"} ->
                      [r EXCEPT !.error_messages = Append(@, Message(k, o[k]))]
                 [] OTHER -> r,
             EmptyReport, [k \in 1..Len(Operations) |-> k])

VARIABLES
    status,   \* "idle" | "running" | "returned" | "raised"
    report,   \* the report handed to the caller
    outcomes  \* outcomes[k]: the resolver's answer to operation k in this run

cvars == <<status, report, outcomes>>

Init ==
    /\ status = "idle"
    /\ report = EmptyReport
    /\ outcomes = [k \in 1..Len(Operations) |-> "ok"]

Start ==
    /\ status # "running"
    /\ status' = "running"
    /\ report' = EmptyReport
    /\ outcomes' \in [1..Len(Operations) -> Outcomes]

Finish ==
    /\ status = "running"
    /\ IF \E k \in 1..Len(Operations) : outcomes[k] = "OtherError"
       THEN status' = "raised" /\ report' = EmptyReport
       ELSE status' = "returned" /\ report' = Classify(outcomes)
    /\ UNCHANGED outcomes

Next == Start \/ Finish

Spec == Init /\ [][Next]_cvars /\ WF_cvars(Finish)

=============================================================================
