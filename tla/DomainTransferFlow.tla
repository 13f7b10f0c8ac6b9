------------------------- MODULE DomainTransferFlow -------------------------
(***************************************************************************)
(* One user's browser at the lifecycle program: the handlers of            *)
(* hooks/useHydentity.ts and the buttons of app/vaults/[domain]/page.tsx,  *)
(* about one name.                                                         *)
(*                                                                         *)
(* A handler simulates a transaction, sends it and polls for it.  It may   *)
(* land, fail, or expire, while other handlers, the owner elsewhere and    *)
(* other users change the same accounts.  What the buttons allow is        *)
(* decided by a view of the chain that is read every now and then.  Taking *)
(* a name into custody is two transactions, the SNS transfer and           *)
(* mark_domain_transferred.                                                *)
(***************************************************************************)
EXTENDS HydentityProgram

CONSTANTS
    Me,         \* the connected wallet
    Page,       \* the name whose page is open
    OnlyVault,  \* TRUE: the user has no vault but this
    MaxBusy,    \* bound on handlers at work at once, Sync apart
    MaxLoose    \* bound on transactions left on their way

VARIABLES
    view,    \* what the page shows of the vault, and where the name is
    step,    \* step[h]: the transaction handler h waits for, or how far it is
    tx,      \* tx[h]: what became of that transaction
    fetch,   \* fetch[f]: a fetchVaults under way and what it has read
    loose    \* transactions on their way that no handler waits for

appVars  == <<view, step, tx, fetch, loose>>
flowVars == <<vars, appVars>>

ASSUME PageAssumption ==
    /\ Me \in Users /\ Page \in Names
    /\ OnlyVault \in BOOLEAN
    /\ MaxBusy \in Nat /\ MaxLoose \in Nat

\* The first transaction of each handler; "transfer" goes on with "mark".
First == [transfer |-> "sns", sync |-> "mark", reclaim |-> "reclaim",
          close |-> "close", claim |-> "claim", create |-> "create"]

Handlers == DOMAIN First
Fetchers == Handlers \cup {"timer"}
Kinds    == {First[h] : h \in Handlers}
Views    == {"none", "outside", "inside"}

Statuses == {"pending", "landed", "failed", "expired"}

\* What the transaction of each kind does when it is executed.
Execute(kind) ==
    \/ kind = "sns" /\ sns[Page] = Me /\ SnsTransfer(Page, Authority(Page))
    \/ kind = "mark" /\ MarkDomainTransferred(Page, Me)
    \/ kind = "reclaim" /\ \E destination \in Users : ReclaimDomain(Page, Me, destination)
    \/ kind = "close" /\ CloseVault(Page, Me)
    \/ kind = "claim" /\ ClaimVault(Page, Me)
    \/ kind = "create" /\ InitializeVault(Page, Me)

(***************************************************************************)
(* Sending and confirming                                                  *)
(***************************************************************************)

\* Every transaction is simulated before it is signed and sent.
Send(h, kind) ==
    /\ ENABLED Execute(kind)
    /\ step' = [step EXCEPT ![h] = kind]
    /\ tx' = [tx EXCEPT ![h] = "pending"]
    /\ UNCHANGED <<vars, view, fetch, loose>>

\* The buttons that the page shows and does not disable.
Button(h) ==
    /\ step[h] = "idle"
    /\ h \in {"transfer", "close"} => view = "outside"
    /\ h \in {"sync", "reclaim"} =>
          view = "inside" /\ step["sync"] = "idle" /\ step["reclaim"] = "idle"
    /\ h \in {"claim", "create"} => view = "none"

Click(h) ==
    /\ Button(h)
    /\ h # "sync" => Cardinality({g \in Handlers \ {"sync"} : step[g] # "idle"}) < MaxBusy
    /\ Send(h, First[h])

\* Preflight is skipped, so a transaction the program refuses lands as failed.
Land(h) ==
    /\ tx[h] = "pending"
    /\ Execute(step[h])
    /\ tx' = [tx EXCEPT ![h] = "landed"]
    /\ UNCHANGED <<view, step, fetch, loose>>

Bounce(h) ==
    /\ tx[h] = "pending"
    /\ ~ENABLED Execute(step[h])
    /\ tx' = [tx EXCEPT ![h] = "failed"]
    /\ UNCHANGED <<vars, view, step, fetch, loose>>

\* The chain passes the last block that may hold the transaction.
Expire(h) ==
    /\ tx[h] = "pending"
    /\ tx' = [tx EXCEPT ![h] = "expired"]
    /\ UNCHANGED <<vars, view, step, fetch, loose>>

\* After a confirmation, transferDomainToVault goes on to its second transaction
\* and the others to fetchVaults.
Confirmed(h) ==
    /\ step' = [step EXCEPT ![h] = IF step[h] = "sns" THEN "unmarked" ELSE "refetch"]
    /\ tx' = [tx EXCEPT ![h] = "none"]

\* Mutant: the handler ends and goes on polling.
FailedPolling(h) == step' = [step EXCEPT ![h] = "idle"] /\ UNCHANGED tx

\* An error ends the handler, except that transferDomainToVault swallows the
\* failure of its second transaction.
Failed(h) ==
    /\ step' = [step EXCEPT ![h] = IF h = "transfer" /\ step[h] = "mark"
                                   THEN "refetch" ELSE "idle"]
    /\ tx' = [tx EXCEPT ![h] = "none"]

\* Mutant: status.err is not looked at.
PollStatusBlind(h) ==
    /\ tx[h] \in {"landed", "failed"}
    /\ Confirmed(h)
    /\ UNCHANGED <<vars, view, fetch, loose>>

\* pollForConfirmation finds a status.  (While there is none it asks again.)
PollStatus(h) ==
    /\ \/ tx[h] = "landed" /\ Confirmed(h)
       \/ tx[h] = "failed" /\ Failed(h)
    /\ UNCHANGED <<vars, view, fetch, loose>>

\* It finds no status and a block height past the last valid one.  The two are read
\* by concurrent requests, so the transaction may have been executed in between.
PollHeight(h) ==
    /\ tx[h] \in {"landed", "failed", "expired"}
    /\ Failed(h)
    /\ UNCHANGED <<vars, view, fetch, loose>>

\* A request of the poll throws: the handler fails, the transaction goes on.
PollError(h) ==
    /\ step[h] \in Kinds
    /\ Failed(h)
    /\ loose' = loose \cup (IF tx[h] = "pending" THEN {step[h]} ELSE {})
    /\ Cardinality(loose') <= MaxLoose
    /\ UNCHANGED <<vars, view, fetch>>

\* The second transaction of transferDomainToVault.
SubmitMark == step["transfer"] = "unmarked" /\ Send("transfer", "mark")

\* It is not sent: its simulation fails, or the user does not sign it.
SkipMark ==
    /\ step["transfer"] = "unmarked"
    /\ step' = [step EXCEPT !["transfer"] = "refetch"]
    /\ UNCHANGED <<vars, view, tx, fetch, loose>>

(***************************************************************************)
(* Reading the chain                                                       *)
(***************************************************************************)

\* Mutant: what the vault says is believed.
SnapshotOfFlag(sighted) ==
    IF vault[Page].owner # Me THEN "none"
    ELSE IF vault[Page].domain_transferred THEN "inside" ELSE "outside"

\* What fetchVaults makes of the chain: the vaults of this wallet, and for each
\* the owner of the SNS record, or the vault's flag if the record cannot be read.
Snapshot(sighted) ==
    IF vault[Page].owner # Me THEN "none"
    ELSE IF IF sighted THEN sns[Page] = Authority(Page)
                       ELSE vault[Page].domain_transferred
         THEN "inside" ELSE "outside"

\* Mutant: the timer stops once something is shown.
StartFetchOnce(f, sighted) ==
    /\ fetch[f] = "no"
    /\ IF f = "timer" THEN view = "none" ELSE step[f] = "refetch"
    /\ fetch' = [fetch EXCEPT ![f] = Snapshot(sighted)]
    /\ UNCHANGED <<vars, view, step, tx, loose>>

\* At the end of a handler, on opening the page and every 30 seconds.  The page
\* fetches twice after some handlers; the timer may do the same.
StartFetch(f, sighted) ==
    /\ fetch[f] = "no"
    /\ f # "timer" => step[f] = "refetch"
    /\ fetch' = [fetch EXCEPT ![f] = Snapshot(sighted)]
    /\ UNCHANGED <<vars, view, step, tx, loose>>

\* The page does not notice that the last vault of a user is gone: it only looks
\* for its vault in a list that is not empty.
Shown(found) == IF found = "none" /\ OnlyVault THEN view ELSE found

\* A fetch that began earlier may end later, and one that fails shows nothing new.
\* From a closed vault the page moves on to the dashboard.
EndFetch(f, fails) ==
    /\ fetch[f] # "no"
    /\ fetch' = [fetch EXCEPT ![f] = "no"]
    /\ view' = IF f = "close" THEN "none" ELSE IF fails THEN view ELSE Shown(fetch[f])
    /\ step' = IF f = "timer" THEN step ELSE [step EXCEPT ![f] = "idle"]
    /\ UNCHANGED <<vars, tx, loose>>

(***************************************************************************)
(* The rest of the world                                                   *)
(***************************************************************************)

\* The page is closed and opened again: handlers are gone, transactions are not.
Reload ==
    /\ loose' = loose \cup {step[h] : h \in {g \in Handlers : tx[g] = "pending"}}
    /\ Cardinality(loose') <= MaxLoose
    /\ view' = "none"
    /\ step' = [h \in Handlers |-> "idle"]
    /\ tx' = [h \in Handlers |-> "none"]
    /\ fetch' = [f \in Fetchers |-> "no"]
    /\ UNCHANGED vars

LandLoose(kind) ==
    /\ kind \in loose
    /\ Execute(kind)
    /\ loose' = loose \ {kind}
    /\ UNCHANGED <<view, step, tx, fetch>>

DropLoose(kind) ==
    /\ kind \in loose
    /\ loose' = loose \ {kind}
    /\ UNCHANGED <<vars, view, step, tx, fetch>>

\* Another program moves the name to another user; other users send their own
\* instructions.
Elsewhere ==
    /\ \/ \E to \in Users : SnsTransfer(Page, to)
       \/ \E u \in Users \ {Me} :
             \/ InitializeVault(Page, u)
             \/ CloseVault(Page, u)
             \/ ClaimVault(Page, u)
             \/ MarkDomainTransferred(Page, u)
             \/ \E destination \in Users : ReclaimDomain(Page, u, destination)
    /\ UNCHANGED appVars

-----------------------------------------------------------------------------
FlowInit ==
    /\ Init
    /\ view = "none"
    /\ step = [h \in Handlers |-> "idle"]
    /\ tx = [h \in Handlers |-> "none"]
    /\ fetch = [f \in Fetchers |-> "no"]
    /\ loose = {}

Handler(h) ==
    \/ Click(h)
    \/ Land(h)
    \/ Bounce(h)
    \/ Expire(h)
    \/ PollStatus(h)
    \/ PollHeight(h)
    \/ PollError(h)

FlowNext ==
    \/ \E h \in Handlers : Handler(h)
    \/ SubmitMark
    \/ SkipMark
    \/ \E f \in Fetchers, b \in BOOLEAN : StartFetch(f, b) \/ EndFetch(f, b)
    \/ Reload
    \/ \E kind \in Kinds : LandLoose(kind) \/ DropLoose(kind)
    \/ Elsewhere

FlowSpec == FlowInit /\ [][FlowNext]_flowVars

\* The handlers that keep Sync from being offered come to an end: their transactions
\* do, polls answer and fetches end.  The timer goes on, and not every one of its reads
\* fails.  The user presses Sync while it is offered, and the network does not
\* drop mark_domain_transferred for ever.
Fairness ==
    /\ \A h \in {"sync", "reclaim"} :
          /\ WF_flowVars(Land(h) \/ Bounce(h) \/ Expire(h))
          /\ WF_flowVars(PollStatus(h) \/ PollHeight(h))
          /\ WF_flowVars(StartFetch(h, TRUE))
          /\ WF_flowVars(\E fails \in BOOLEAN : EndFetch(h, fails))
    /\ WF_flowVars(\E fails \in BOOLEAN : EndFetch("timer", fails))
    /\ SF_flowVars(StartFetch("timer", TRUE))
    /\ SF_flowVars(fetch["timer"] = Snapshot(TRUE) /\ EndFetch("timer", FALSE))
    /\ SF_flowVars(Click("sync"))
    /\ SF_flowVars(Land("sync"))

FairFlowSpec == FlowSpec /\ Fairness

-----------------------------------------------------------------------------
(***************************************************************************)
(* Properties                                                              *)
(***************************************************************************)

\* Every variable holds a value of its type, and a handler has a transaction just
\* while it waits for one.
FlowTypeOK ==
    /\ TypeOK
    /\ view \in Views
    /\ step \in [Handlers -> Kinds \cup {"idle", "unmarked", "refetch"}]
    /\ tx \in [Handlers -> Statuses \cup {"none"}]
    /\ \A h \in Handlers : step[h] \in Kinds <=> tx[h] # "none"
    /\ fetch \in [Fetchers -> Views \cup {"no"}]
    /\ loose \subseteq Kinds

\* The vault is mine and holds the name, and its flag does not say so: the second
\* transaction of a transfer is missing, and reclaim_domain would refuse.
InLimbo ==
    /\ sns[Page] = Authority(Page)
    /\ vault[Page].owner = Me
    /\ ~vault[Page].domain_transferred

\* A transfer whose second transaction failed, expired or was never sent does not
\* stay half done: the page comes to offer Sync, and Sync goes through, although
\* the failure was swallowed and fetches may end in the wrong order.  Or the vault
\* is closed.
LimboEnds == InLimbo ~> ~InLimbo

\* The page catches up with the chain whatever fetches fail or overtake another:
\* once the name stays where it is, the page says so again and again.
ViewCatchesUp ==
    \A v \in {"inside", "outside"} :
        <>[](Snapshot(TRUE) = v) => []<>(view = v)

\* A handler goes on as after a success only if its transaction was executed, and
\* so the page reports no success that did not happen.
SuccessWasExecuted ==
    [][\A h \in Handlers :
          (step[h] \in Kinds /\ step'[h] \in {"unmarked", "refetch"})
          => tx[h] = "landed" \/ (h = "transfer" /\ step[h] = "mark")]_flowVars
=============================================================================
