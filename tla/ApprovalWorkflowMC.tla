--------------------------- MODULE ApprovalWorkflowMC ---------------------------
(***************************************************************************)
(* Two steps, and operations that classify to every approval path: none    *)
(* (a query), single by radius (a wide query, MEDIUM), single by name      *)
(* (HIGH), dual (CRITICAL).  A wide restart or delete cannot be classified *)
(* and leaves no workflow.  A migration is critical alone, and SAFE in a   *)
(* text that names a check as well.                                        *)
(***************************************************************************)
EXTENDS ApprovalWorkflow

MCOperation == {{"query"}, {"trigger_gc", "restart"}, {"status", "delete"},
                {"migrate"}, {"check", "migrate"}}

Single == [manyComponents |-> FALSE, manyNodes |-> FALSE, businessHours |-> FALSE, oftenFails |-> FALSE]
MCScope == {Single, [Single EXCEPT !.manyComponents = TRUE, !.manyNodes = TRUE]}

\* timeout_map in units of 300 s, with CRITICAL's 1800 s cut to the 600 s of
\* HIGH; MaxWait is one unit, so that a wait can end before a request does.
MCTimeout == [l \in Level |-> IF l <= 2 THEN 1 ELSE 2]
=============================================================================
