--------------------------- MODULE MCWithdrawals ---------------------------
(***************************************************************************)
(* Small instances, for TLC, of the two ways the app withdraws: through    *)
(* the mixer (PrivacyRouting) and by a plan of the cluster                 *)
(* (WithdrawalTracking).  The vault page offers both and their hooks share *)
(* no variable: a behaviour is one of the one or of the other.             *)
(***************************************************************************)
EXTENDS PrivacyRouting, WithdrawalTracking

VARIABLE part    \* whose behaviour this is

withdrawalVars == <<routingVars, vars, part>>

WithdrawalInit ==
    /\ RoutingInit /\ Init
    /\ part \in {"routing", "plans"}
    /\ part = "routing" => ~arciumAvailable

WithdrawalNext ==
    \/ part = "routing" /\ RoutingNext /\ UNCHANGED <<vars, part>>
    \/ part = "plans" /\ Next /\ UNCHANGED <<routingVars, part>>

WithdrawalSpec ==
    /\ WithdrawalInit /\ [][WithdrawalNext]_withdrawalVars
    /\ \A w \in Wallets : RoutingFairness(w)
=============================================================================
