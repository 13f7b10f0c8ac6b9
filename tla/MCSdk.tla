------------------------------- MODULE MCSdk -------------------------------
(***************************************************************************)
(* Small instances, for TLC, of what the SDK computes and does for a       *)
(* client: a plan of a claim (ExecutionPlan), for amounts around the       *)
(* multiples of a floor of 10, policies the program stores, and those of   *)
(* which a caller has overridden one bound; and the forwarding of a batch  *)
(* (TransactionForwarding).  No code of the SDK goes from one to the       *)
(* other: a behaviour is one of the plan's or one of the forwarder's.      *)
(***************************************************************************)
EXTENDS ExecutionPlan, TransactionForwarding

VARIABLE part    \* whose behaviour this is

sdkVars == <<planVars, vars, part>>

MCTotals == {0, 9, 10, 20, 29, 31, 47}

Stored ==
    {p \in [minSplits : 1..3, maxSplits : {1, 3, 4}, minDelay : {0, 2}, maxDelay : {0, 2, 3}] :
        p.minSplits <= p.maxSplits /\ p.minDelay <= p.maxDelay}

Overridden == {[p EXCEPT !.minSplits = 4] : p \in Stored}
                  \cup {[p EXCEPT !.minDelay = 5] : p \in Stored}

MCPolicies == Stored \cup Overridden

SdkInit ==
    /\ PlanInit /\ Init
    /\ part \in {"planning", "forwarding"}
    /\ part = "planning" => kind = "connection" /\ ~skipPreflight
    /\ part = "forwarding" => total = 0 /\ policy = CHOOSE p \in Policies : TRUE

SdkNext ==
    \/ part = "planning" /\ PlanNext /\ UNCHANGED <<vars, part>>
    \/ part = "forwarding" /\ Next /\ UNCHANGED <<planVars, part>>

SdkSpec == SdkInit /\ [][SdkNext]_sdkVars /\ (part = "forwarding" => Fairness)
=============================================================================
