---------------------------- MODULE HoldoutMark ----------------------------
(***************************************************************************)
(* What the one-shot protocol promises its reader: the holdout goes from   *)
(* "unused" to "in_progress" to "used", each at most once, never back, and *)
(* only the run that made the first move ever reads the window.  Evidence  *)
(* becomes final together with "used" and is of that very run.             *)
(***************************************************************************)
CONSTANTS Proc, None

VARIABLES mark, reader, evidence

vars == <<mark, reader, evidence>>

Init == mark = "unused" /\ reader = None /\ evidence = None

Touch(p) ==
    /\ mark = "unused"
    /\ mark' = "in_progress"
    /\ reader' = p
    /\ UNCHANGED evidence

Promote ==
    /\ mark = "in_progress"
    /\ mark' = "used"
    /\ evidence' = reader
    /\ UNCHANGED reader

Next == (\E p \in Proc : Touch(p)) \/ Promote

Spec == Init /\ [][Next]_vars
=============================================================================
