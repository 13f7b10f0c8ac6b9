-------------------------- MODULE MCClusterCircuits --------------------------
(***************************************************************************)
(* Small instances, for TLC, of the circuits that the cluster runs on a    *)
(* vault's plan (WithdrawalPlan) and on its configuration (ConfigCircuits).*)
(* A plan keeps a copy of what it needs of the configuration, so the two   *)
(* share no variable: a behaviour is one of the plan's or one of the       *)
(* configuration's.                                                        *)
(***************************************************************************)
EXTENDS WithdrawalPlan, ConfigCircuits, TLC

VARIABLE part    \* whose behaviour this is

clusterVars == <<vars, configVars, part>>

\* An amount that two splits share evenly and three do not, one the other way
\* round, and one that is too small for either: the amounts of three splits wrap
\* around.
MCTotals == {3, 14, 15}

ASSUME SmallAndLargeTotals ==
    \A total \in MCTotals, count \in MinSplits..MaxSplits : Enough(total, count) <=> total # 3

\* Enough for any split of the larger totals, and for none.
MCBalances == {0, 20}

\* Addresses cannot be told apart by their first byte.
MCFirstByte == [a \in Addresses |-> 7]

NoUpdate == [destinations |-> {}, count |-> {}, min_splits |-> {}, max_splits |-> {},
             min_delay |-> {}, max_delay |-> {}, threshold |-> {}]

\* Every update of one group of fields; the groups do not meet in the code.
MCUpdates ==
    {[NoUpdate EXCEPT !.destinations = d, !.count = n] : d \in Options(Destinations), n \in Options(Counts)}
    \cup {[NoUpdate EXCEPT !.min_splits = a, !.max_splits = b, !.threshold = t] :
              a, b \in Options(SplitCounts), t \in Options(Thresholds)}
    \cup {[NoUpdate EXCEPT !.min_delay = a, !.max_delay = b] : a, b \in Options(Delays)}

ClusterInit ==
    /\ Init /\ ConfigInit
    /\ part \in {"plan", "configuration"}
    /\ part = "plan" =>    \* beside one configuration
           config = Sent(CHOOSE o \in Owners : TRUE, CHOOSE d \in Padded : d[2] = Zero, 1,
                         1, 1, 1, 1, CHOOSE t \in Thresholds : TRUE)

ClusterNext ==
    \/ part = "plan" /\ Next /\ UNCHANGED <<configVars, part>>
    \/ part = "configuration" /\ ConfigNext /\ UNCHANGED <<vars, part>>

ClusterSpec == ClusterInit /\ [][ClusterNext]_clusterVars /\ (part = "plan" => Fairness)
=============================================================================
