-------------------------- MODULE WithdrawalTracking --------------------------
(***************************************************************************)
(* Private withdrawals as the app tracks them: hooks/useWithdrawals.ts and *)
(* the two components of components/WithdrawalStatus.tsx that use it.      *)
(*                                                                         *)
(* A request is a transaction that queues a computation, and a wait of at  *)
(* most a minute for the plan the cluster makes of it.  What the user sees *)
(* is a list that each instance of the hook keeps in memory; the progress  *)
(* of a plan is never read back from the chain.                            *)
(***************************************************************************)
EXTENDS Naturals, FiniteSets

CONSTANTS
    Plans,      \* withdrawals, by computation offset
    Instances   \* components that hold an instance of the hook

VARIABLES
    list,      \* list[i]: pendingWithdrawals of instance i, by plan
    loading,   \* loading[i]: isLoading of instance i
    stage,     \* stage[p]: how far requestWithdrawal is with plan p
    by,        \* by[p]: the instance that requested p
    chain,     \* chain[p]: what became of the request on chain
    arciumAvailable    \* FALSE: the Arcium SDK could not be loaded, the hook is in mock mode

vars == <<list, loading, stage, by, chain, arciumAvailable>>

\* The statuses the hook gives, of the six there are.
Shown == {"pending", "in_progress", "cancelled"}
Empty == [p \in Plans |-> "absent"]

\* The cards that component i displays.
Displayed(i) == {p \in Plans : list[i][p] # "absent"}

\* setPendingWithdrawals with a function of what the list is by then.
Add(i, p) == list' = [list EXCEPT ![i][p] = "pending"]
SetStatus(i, p, status) ==
    list' = [list EXCEPT ![i][p] = IF @ = "absent" THEN @ ELSE status]

\* The handler of plan p ends, with or without an error.
End(p) ==
    /\ stage' = [stage EXCEPT ![p] = "over"]
    /\ loading' = [loading EXCEPT ![by[p]] = FALSE]

-----------------------------------------------------------------------------
(***************************************************************************)
(* requestWithdrawal                                                       *)
(***************************************************************************)

\* The button Request Withdrawal is enabled.
RequestOffered(i) == ~loading[i]

\* It is used.  In mock mode the plan is listed at once.
RequestWithdrawal(i, p) ==
    /\ stage[p] = "new" /\ RequestOffered(i)
    /\ by' = [by EXCEPT ![p] = i]
    /\ IF arciumAvailable
       THEN /\ stage' = [stage EXCEPT ![p] = "building"]
            /\ loading' = [loading EXCEPT ![i] = TRUE]
            /\ UNCHANGED list
       ELSE /\ stage' = [stage EXCEPT ![p] = "over"]
            /\ Add(i, p)
            /\ UNCHANGED loading
    /\ UNCHANGED <<chain, arciumAvailable>>

\* The key of the cluster and a blockhash are in hand, the transaction is built.
Build(p) ==
    /\ stage[p] = "building"
    /\ stage' = [stage EXCEPT ![p] = "built"]
    /\ UNCHANGED <<list, loading, by, chain, arciumAvailable>>

\* Its simulation succeeds, the user signs.
Submit(p) ==
    /\ stage[p] = "built"
    /\ stage' = [stage EXCEPT ![p] = "sent"]
    /\ chain' = [chain EXCEPT ![p] = "sent"]
    /\ UNCHANGED <<list, loading, by, arciumAvailable>>

\* They are not, it does not, or the user does not.
Abort(p) ==
    /\ stage[p] \in {"building", "built"}
    /\ End(p)
    /\ UNCHANGED <<list, by, chain, arciumAvailable>>

\* Mutant: the list is replaced and not extended.
ConfirmedAlone(p) ==
    /\ stage[p] = "sent" /\ chain[p] \in {"requested", "planned"}
    /\ stage' = [stage EXCEPT ![p] = "waiting"]
    /\ list' = [list EXCEPT ![by[p]] = [Empty EXCEPT ![p] = "pending"]]
    /\ UNCHANGED <<loading, by, chain, arciumAvailable>>

\* pollForConfirmation sees the transaction succeed.
Confirmed(p) ==
    /\ stage[p] = "sent" /\ chain[p] \in {"requested", "planned"}
    /\ stage' = [stage EXCEPT ![p] = "waiting"]
    /\ Add(by[p], p)
    /\ UNCHANGED <<loading, by, chain, arciumAvailable>>

\* It fails or expires, or a request of the poll throws, whatever the transaction did.
NotConfirmed(p) ==
    /\ stage[p] = "sent"
    /\ End(p)
    /\ UNCHANGED <<list, by, chain, arciumAvailable>>

\* Mutant: an answer of any kind counts as the plan's.
FinalizedInTime(p) ==
    /\ stage[p] = "waiting"
    /\ End(p)
    /\ SetStatus(by[p], p, "in_progress")
    /\ UNCHANGED <<by, chain, arciumAvailable>>

\* awaitComputationFinalization returns within the minute.
Finalized(p) ==
    /\ stage[p] = "waiting" /\ chain[p] = "planned"
    /\ End(p)
    /\ SetStatus(by[p], p, "in_progress")
    /\ UNCHANGED <<by, chain, arciumAvailable>>

\* It does not; the computation may still complete.
TimedOut(p) ==
    /\ stage[p] = "waiting"
    /\ End(p)
    /\ UNCHANGED <<list, by, chain, arciumAvailable>>

-----------------------------------------------------------------------------
(***************************************************************************)
(* The rest of the hook, its components, and the chain                     *)
(***************************************************************************)

\* A card has the button Cancel Withdrawal.
CancelOffered(i, p) == list[i][p] \in {"pending", "in_progress"}

\* It changes the list and nothing else, and clears isLoading, a request under way or
\* not.
CancelWithdrawal(i, p) ==
    /\ CancelOffered(i, p)
    /\ SetStatus(i, p, "cancelled")
    /\ loading' = [loading EXCEPT ![i] = FALSE]
    /\ UNCHANGED <<stage, by, chain, arciumAvailable>>

\* The component is closed, which its button allows while nothing is loading.  What a
\* handler still does to its state has no effect.
Close(i) ==
    /\ ~loading[i]
    /\ list' = [list EXCEPT ![i] = Empty]
    /\ stage' = [p \in Plans |-> IF by[p] = i /\ stage[p] # "new" THEN "over" ELSE stage[p]]
    /\ UNCHANGED <<loading, by, chain, arciumAvailable>>

Reload ==
    /\ list' = [i \in Instances |-> Empty]
    /\ loading' = [i \in Instances |-> FALSE]
    /\ stage' = [p \in Plans |-> IF stage[p] = "new" THEN "new" ELSE "over"]
    /\ UNCHANGED <<by, chain, arciumAvailable>>

\* A request on its way is executed or refused; the cluster's callback sets
\* plan_generated.
OnChain(p) ==
    /\ \/ chain[p] = "sent" /\ chain' = [chain EXCEPT ![p] = "requested"]
       \/ chain[p] = "sent" /\ chain' = [chain EXCEPT ![p] = "refused"]
       \/ chain[p] = "requested" /\ chain' = [chain EXCEPT ![p] = "planned"]
    /\ UNCHANGED <<list, loading, stage, by, arciumAvailable>>

-----------------------------------------------------------------------------
Init ==
    /\ list = [i \in Instances |-> Empty]
    /\ loading = [i \in Instances |-> FALSE]
    /\ stage = [p \in Plans |-> "new"]
    /\ by \in [Plans -> Instances]
    /\ chain = [p \in Plans |-> "none"]
    /\ arciumAvailable \in BOOLEAN

Requesting(p) ==
    \/ \E i \in Instances : RequestWithdrawal(i, p)
    \/ Build(p)
    \/ Submit(p)
    \/ Abort(p)
    \/ Confirmed(p)
    \/ NotConfirmed(p)
    \/ Finalized(p)
    \/ TimedOut(p)

Next ==
    \/ \E p \in Plans : Requesting(p) \/ OnChain(p)
    \/ \E i \in Instances, p \in Plans : CancelWithdrawal(i, p)
    \/ \E i \in Instances : Close(i)
    \/ Reload

Spec == Init /\ [][Next]_vars

-----------------------------------------------------------------------------
(***************************************************************************)
(* Properties                                                              *)
(***************************************************************************)

\* Every variable holds a value of its type, and the statuses completed, failed and
\* expired are never given.
TypeOK ==
    /\ list \in [Instances -> [Plans -> Shown \cup {"absent"}]]
    /\ loading \in [Instances -> BOOLEAN]
    /\ stage \in [Plans -> {"new", "building", "built", "sent", "waiting", "over"}]
    /\ by \in [Plans -> Instances]
    /\ chain \in [Plans -> {"none", "sent", "requested", "refused", "planned"}]
    /\ arciumAvailable \in BOOLEAN

\* A withdrawal is listed only if the chain took it on, and in progress only if the
\* cluster made its plan, whatever is refused, lost or late.
ListedIsReal ==
    arciumAvailable =>
        \A i \in Instances, p \in Plans :
            /\ p \in Displayed(i) => chain[p] \in {"requested", "planned"}
            /\ list[i][p] = "in_progress" => chain[p] = "planned"

\* Requests that overlap, after a cancellation has cleared isLoading, do not push
\* each other or the cancelled one off the list.
ListOnlyGrows ==
    [][~Reload /\ ~(\E i \in Instances : Close(i)) =>
          \A i \in Instances : Displayed(i) \subseteq Displayed(i)']_vars
=============================================================================
