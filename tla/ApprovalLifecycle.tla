-------------------------- MODULE ApprovalLifecycle --------------------------
(***************************************************************************)
(* What an approval request promises to whoever waits on it, whatever      *)
(* gate, cache or store carries it: it is issued once, it leaves "pending" *)
(* at most once, and a decision, once taken, is never taken back.  The     *)
(* only way to lose a decision is to lose the record ("gone").             *)
(*                                                                         *)
(* Several requests may move in one step: a store that expires keys may    *)
(* drop more than one at a time.                                           *)
(***************************************************************************)
CONSTANT Request

VARIABLE decision

Final == {"approved", "rejected", "timeout", "auto_approved"}

\* The moves one request may make.
Legal ==
    {<<"unissued", "pending">>, <<"unissued", "auto_approved">>}
    \cup ({"pending"} \X {"approved", "rejected", "timeout"})
    \cup (({"pending"} \cup Final) \X {"gone"})

LifecycleTypeOK == decision \in [Request -> {"unissued", "pending", "gone"} \cup Final]

LifecycleInit == decision = [r \in Request |-> "unissued"]

LifecycleNext ==
    /\ decision' = [r \in Request |-> decision'[r]]
    /\ \A r \in Request :
         decision'[r] = decision[r] \/ <<decision[r], decision'[r]>> \in Legal

LifecycleSpec == LifecycleInit /\ [][LifecycleNext]_decision
=============================================================================
