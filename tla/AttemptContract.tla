--------------------------- MODULE AttemptContract ---------------------------
(***************************************************************************)
(* What an analyzer attempt promises the coordinator, and nothing of how.  *)
(* An attempt works, possibly with processes, a drain thread or a partial  *)
(* capture around (residue), and ends once with an outcome. Unless that    *)
(* outcome is terminal, no residue exists then or ever after.              *)
(* AnalyzerAttempt implements this; ThumbCoordinator relies on it.         *)
(***************************************************************************)
VARIABLES outcome, captured, residue

contractVars == <<outcome, captured, residue>>

\* What a caller of run_backend_capture can be handed: Ok(capture), or a
\* FailedRegion with or without a capture, terminal or not.
AttemptResults ==
    {r \in [outcome : {"ok", "failed", "terminal"}, captured : BOOLEAN] :
        r.outcome = "ok" => r.captured}

Init == outcome = "none" /\ captured = FALSE /\ residue = FALSE

Work ==
    /\ outcome = "none" /\ outcome' = "none"
    /\ captured' \in BOOLEAN /\ residue' \in BOOLEAN

Finish ==
    /\ outcome = "none"
    /\ [outcome |-> outcome', captured |-> captured'] \in AttemptResults
    /\ residue' \in BOOLEAN
    /\ outcome' # "terminal" => ~residue'

Settle ==           \* what a terminal attempt left may still go away
    /\ outcome = "terminal"
    /\ residue' \in BOOLEAN
    /\ UNCHANGED <<outcome, captured>>

Next == Work \/ Finish \/ Settle

Spec == Init /\ [][Next]_contractVars
=============================================================================
