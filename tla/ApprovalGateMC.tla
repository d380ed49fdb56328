---------------------------- MODULE ApprovalGateMC ----------------------------
(***************************************************************************)
(* One or more gates, checked against the life cycle of ApprovalLifecycle. *)
(***************************************************************************)
EXTENDS ApprovalGate

\* What the outside can learn about a request: the Redis hash while there is
\* one, else the copy of an instance that still holds it.
Holders(r) == {i \in Instance : requests[i][r] # Absent}

Decision(r) ==
    IF r \notin drawn THEN "unissued"
    ELSE IF redis[r] # Absent THEN redis[r].status
    ELSE IF Holders(r) # {} THEN requests[CHOOSE i \in Holders(r) : TRUE][r].status
    ELSE "gone"

Lifecycle == INSTANCE ApprovalLifecycle WITH decision <- [r \in Request |-> Decision(r)]

\* One gate over a reliable Redis implements the abstract life cycle: requests
\* are issued once, leave "pending" once, and no call, restore, expiry or
\* restart turns one decision into another.
RefinesLifecycle == Lifecycle!LifecycleSpec
=============================================================================
