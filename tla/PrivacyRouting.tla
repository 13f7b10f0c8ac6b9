---------------------------- MODULE PrivacyRouting ----------------------------
(***************************************************************************)
(* Routing a withdrawal through Privacy Cash: hooks/usePrivacyCash.ts, its *)
(* service in the browser, the API routes behind it and the two handlers   *)
(* of app/vaults/[domain]/page.tsx that use it.                            *)
(*                                                                         *)
(* A route is a withdrawal from the vault to a key derived from a          *)
(* signature of the wallet, and then a deposit from that key into the      *)
(* pool, made by the server for whatever key the service holds.  Between   *)
(* the two, requests fail, answers get lost, pages are reloaded and        *)
(* wallets come and go.                                                    *)
(***************************************************************************)
EXTENDS Naturals, FiniteSets, Bags

CONSTANTS
    Wallets,    \* wallets with a vault; w also stands for the key derived from w
    NoWallet,
    Total,      \* all the money there is
    Buffer,     \* TX_FEE_BUFFER: kept back when the key's balance is deposited
    MinRoute,   \* the least amount the withdraw button routes
    Steps,      \* the amounts that users withdraw from a vault or send to it
    Payouts,    \* the amounts that users withdraw from the pool
    MaxInits,   \* bound on initialisations under way
    MaxLate     \* bound on calls whose answer nobody waits for

VARIABLES
    authority,  \* authority[w]: what the vault of w holds
    onkey,      \* onkey[w]: what lies on the key derived from w
    pool,       \* pool[w]: the balance of that key in the pool
    outside,    \* everything else: payouts, fees, donors
    wallet,     \* the connected wallet
    seeds,      \* wallets whose seed sessionStorage holds
    key,        \* derivedPublicKey and derivedSecretKey
    ready,      \* isInitialized
    busy,       \* isLoading
    service,    \* the service singleton: its key, and whether it is initialized
    inits,      \* initialisations under way, a bag
    job,        \* job[h]: how far a handler of the page is
    late        \* calls on their way that nobody waits for

funds == <<authority, onkey, pool, outside>>
hook  == <<seeds, key, ready, service, inits>>
routingVars  == <<funds, hook, wallet, busy, job, late>>

ASSUME RoutingAssumption ==
    /\ NoWallet \notin Wallets
    /\ Total \in Nat /\ Steps \subseteq Nat /\ Payouts \subseteq Nat
    /\ Buffer \in Nat \ {0} /\ MinRoute \in Nat \ {0}
    /\ MaxInits \in Nat /\ MaxLate \in Nat

Idle == [stage |-> "idle"]
Handlers == {"route", "payout"}

\* A handler that waits for a call.
Waiting(call, result) == [stage |-> call.kind, call |-> call, result |-> result]

-----------------------------------------------------------------------------
(***************************************************************************)
(* What the calls do                                                       *)
(***************************************************************************)

\* withdraw_direct of the program.
VaultPays(c) ==
    /\ authority[c.from] >= c.amount
    /\ authority' = [authority EXCEPT ![c.from] = @ - c.amount]
    /\ onkey' = [onkey EXCEPT ![c.to] = @ + c.amount]
    /\ UNCHANGED <<pool, outside>>

\* deposit of the SDK.  It costs the key up to the buffer in rent and fees.
Deposit(c) ==
    /\ \E cost \in 1 .. Buffer :
          /\ onkey[c.from] >= c.amount + cost
          /\ onkey' = [onkey EXCEPT ![c.from] = @ - c.amount - cost]
          /\ outside' = outside + cost
    /\ pool' = [pool EXCEPT ![c.from] = @ + c.amount]
    /\ UNCHANGED authority

\* withdraw of the SDK.
PayOut(c) ==
    /\ pool[c.from] >= c.amount
    /\ pool' = [pool EXCEPT ![c.from] = @ - c.amount]
    /\ outside' = outside + c.amount
    /\ UNCHANGED <<authority, onkey>>

Execute(c) ==
    \/ c.kind = "vault" /\ VaultPays(c)
    \/ c.kind = "deposit" /\ Deposit(c)
    \/ c.kind = "payout" /\ PayOut(c)

\* The transaction lands, the server carries the request out.
Perform(h) ==
    /\ job[h].stage \in {"vault", "deposit", "payout"} /\ job[h].result = "pending"
    /\ Execute(job[h].call)
    /\ job' = [job EXCEPT ![h].result = "done"]
    /\ UNCHANGED <<hook, wallet, busy, late>>

\* It fails or expires; the server answers with an error.
Refuse(h) ==
    /\ job[h].stage \in {"vault", "deposit", "payout"} /\ job[h].result = "pending"
    /\ job' = [job EXCEPT ![h].result = "failed"]
    /\ UNCHANGED <<funds, hook, wallet, busy, late>>

\* The calls of some handlers that may still be carried out when the handlers end.
Pending(hs) == {job[h].call : h \in {g \in hs : job[g].stage \in {"vault", "deposit", "payout"}
                                                /\ job[g].result = "pending"}}

\* Polling throws, the connection to the server breaks: the handler ends with an
\* error, isLoading is cleared if it waited for the server, the call goes on.
Lose(h) ==
    /\ job[h].stage \in {"vault", "deposit", "payout"}
    /\ late' = late \cup Pending({h})
    /\ Cardinality(late') <= MaxLate
    /\ job' = [job EXCEPT ![h] = Idle]
    /\ busy' = (busy /\ job[h].stage = "vault")
    /\ UNCHANGED <<funds, hook, wallet>>

LatePerform(c) ==
    /\ c \in late
    /\ Execute(c)
    /\ late' = late \ {c}
    /\ UNCHANGED <<hook, wallet, busy, job>>

LateDrop(c) ==
    /\ c \in late
    /\ late' = late \ {c}
    /\ UNCHANGED <<funds, hook, wallet, busy, job>>

-----------------------------------------------------------------------------
(***************************************************************************)
(* Initialisation                                                          *)
(***************************************************************************)

\* sessionStorage has the seed, and is given it.
Cached(w)    == w \in seeds
CacheSeed(w) == seeds' = seeds \cup {w}

\* The effect that initialises from a cached seed.  It runs when one of its
\* dependencies changes; here, whenever what it asks for is the case.  It does not
\* set isLoading.
AutoInit ==
    /\ Cached(wallet) /\ ~ready /\ ~busy
    /\ BagCardinality(inits) < MaxInits
    /\ key' = wallet
    /\ inits' = inits (+) SetToBag({[wallet |-> wallet, manual |-> FALSE, stage |-> "balance"]})
    /\ UNCHANGED <<funds, wallet, seeds, ready, busy, service, job, late>>

\* The card Claim Funds initialises what is not initialised.  Unlike the buttons
\* Initialize it asks neither whether something is loading nor whether it has already
\* been clicked.
InitializeOffered == wallet # NoWallet /\ ~ready

InitializeWithWallet ==
    /\ InitializeOffered
    /\ BagCardinality(inits) < MaxInits
    /\ busy' = TRUE
    /\ key' = IF Cached(wallet) THEN wallet ELSE key
    /\ inits' = inits (+) SetToBag({[wallet |-> wallet, manual |-> TRUE,
                                      stage |-> IF Cached(wallet) THEN "balance" ELSE "sign"]})
    /\ UNCHANGED <<funds, wallet, seeds, ready, service, job, late>>

Finish(i) == inits' = inits (-) SetToBag({i})
Advance(i, stage) ==
    inits' = (inits (-) SetToBag({i})) (+) SetToBag({[i EXCEPT !.stage = stage]})

\* The message is signed, the seed cached.
SignMessage(i) ==
    /\ BagIn(i, inits) /\ i.stage = "sign"
    /\ CacheSeed(i.wallet)
    /\ key' = i.wallet
    /\ Advance(i, "balance")
    /\ UNCHANGED <<funds, wallet, ready, busy, service, job, late>>

\* The key's balance has been asked for, with or without an answer: the service takes
\* the key, whatever it held, and asks the server.
ServiceInitialize(i) ==
    /\ BagIn(i, inits) /\ i.stage = "balance"
    /\ service' = [service EXCEPT !.key = i.wallet]
    /\ Advance(i, "api")
    /\ UNCHANGED <<funds, wallet, seeds, key, ready, busy, job, late>>

\* The server answers.
Initialized(i) ==
    /\ BagIn(i, inits) /\ i.stage = "api"
    /\ Finish(i)
    /\ service' = [service EXCEPT !.ok = TRUE]
    /\ ready' = TRUE
    /\ busy' = (busy /\ ~i.manual)
    /\ UNCHANGED <<funds, wallet, seeds, key, job, late>>

\* The message is not signed, or the server fails.  Only initializeWithWallet takes
\* isInitialized back.
InitFails(i) ==
    /\ BagIn(i, inits) /\ i.stage \in {"sign", "api"}
    /\ Finish(i)
    /\ service' = [service EXCEPT !.ok = @ /\ i.stage # "api"]
    /\ ready' = (ready /\ ~i.manual)
    /\ busy' = (busy /\ ~i.manual)
    /\ UNCHANGED <<funds, wallet, seeds, key, job, late>>

-----------------------------------------------------------------------------
(***************************************************************************)
(* The page                                                                *)
(***************************************************************************)

\* The withdraw modal lets Privacy Routing be switched on.
RoutingOn == ready

\* Its button is enabled.
TopUpEnabled(amount) ==
    /\ job["route"] = Idle /\ RoutingOn /\ ~busy
    /\ amount >= MinRoute

\* Only the owner can sign.
HandleWithdraw(amount) ==
    /\ TopUpEnabled(amount)
    /\ wallet # NoWallet
    /\ amount <= authority[wallet]
    /\ job' = [job EXCEPT !["route"] =
                 Waiting([kind |-> "vault", from |-> wallet, to |-> key, amount |-> amount], "pending")]
    /\ UNCHANGED <<funds, hook, wallet, busy, late>>

\* Confirmed, or not: pollForConfirmation throws.
VaultPaid ==
    /\ job["route"].stage = "vault" /\ job["route"].result # "pending"
    /\ job' = [job EXCEPT !["route"] =
                 IF @.result = "failed" THEN Idle
                 ELSE [stage |-> "read", call |-> @.call]]
    /\ UNCHANGED <<funds, hook, wallet, busy, late>>

\* Mutant: what the vault sent is deposited, not what the key holds.
DepositWhatWasSent ==
    /\ job["route"].stage = "read"
    /\ job["route"].call.amount > Buffer /\ service.ok
    /\ busy' = TRUE
    /\ job' = [job EXCEPT !["route"] =
                 Waiting([kind |-> "deposit", from |-> service.key, to |-> NoWallet,
                          amount |-> job["route"].call.amount - Buffer], "pending")]
    /\ UNCHANGED <<funds, hook, wallet, late>>

\* The balance of the key is read and, less the buffer, asked to be deposited.  The
\* request names the key that the service holds by now.
DepositAfterVaultWithdrawal ==
    /\ job["route"].stage = "read"
    /\ onkey[job["route"].call.to] > Buffer /\ service.ok
    /\ busy' = TRUE
    /\ job' = [job EXCEPT !["route"] =
                 Waiting([kind |-> "deposit", from |-> service.key, to |-> NoWallet,
                          amount |-> onkey[job["route"].call.to] - Buffer], "pending")]
    /\ UNCHANGED <<funds, hook, wallet, late>>

\* The balance cannot be read or is too small, or the service lost its initialisation.
\* In the last case isLoading has been set, and is cleared.
DepositSkipped ==
    /\ job["route"].stage = "read"
    /\ job' = [job EXCEPT !["route"] = Idle]
    /\ \/ UNCHANGED busy
       \/ onkey[job["route"].call.to] > Buffer /\ ~service.ok /\ busy' = FALSE
    /\ UNCHANGED <<funds, hook, wallet, late>>

\* The card of the private balance has the button Withdraw Privately, which opens a
\* modal with another.
PayOutOffered == ready
PayOutEnabled == PayOutOffered /\ job["payout"] = Idle /\ ~busy

\* At most the balance shown is asked for, which may be old: any amount.
HandlePrivacyCashWithdraw(amount) ==
    /\ PayOutEnabled /\ service.ok
    /\ busy' = TRUE
    /\ job' = [job EXCEPT !["payout"] =
                 Waiting([kind |-> "payout", from |-> service.key, to |-> NoWallet,
                          amount |-> amount], "pending")]
    /\ UNCHANGED <<funds, hook, wallet, late>>

\* The server's answer to a deposit or a payout.
ServerAnswers(h) ==
    /\ job[h].stage \in {"deposit", "payout"} /\ job[h].result # "pending"
    /\ job' = [job EXCEPT ![h] = IF @.result = "done" THEN [stage |-> "settle"] ELSE Idle]
    /\ busy' = (busy /\ job[h].result = "done")
    /\ UNCHANGED <<funds, hook, wallet, late>>

\* The pool's balance is read again, to be shown.  If that fails, the page reports that
\* the deposit or the payout failed.
Settle(h) ==
    /\ job[h].stage = "settle"
    /\ job' = [job EXCEPT ![h] = Idle]
    /\ busy' = FALSE
    /\ UNCHANGED <<funds, hook, wallet, late>>

-----------------------------------------------------------------------------
(***************************************************************************)
(* The rest of the world                                                   *)
(***************************************************************************)

Connect(w) ==
    /\ wallet = NoWallet
    /\ wallet' = w
    /\ UNCHANGED <<funds, hook, busy, job, late>>

\* The effect on `connected` resets these two and not the key.
Disconnect ==
    /\ wallet # NoWallet
    /\ wallet' = NoWallet
    /\ ready' = FALSE
    /\ UNCHANGED <<funds, seeds, key, service, inits, busy, job, late>>

\* sessionStorage survives.
ReloadPage ==
    /\ late' = late \cup Pending(Handlers)
    /\ Cardinality(late') <= MaxLate
    /\ key' = NoWallet /\ ready' = FALSE /\ busy' = FALSE
    /\ service' = [key |-> NoWallet, ok |-> FALSE]
    /\ inits' = EmptyBag
    /\ job' = [h \in Handlers |-> Idle]
    /\ UNCHANGED <<funds, wallet, seeds>>

\* Somebody pays to the name, or the owner withdraws to a wallet.
Elsewhere(w, amount) ==
    /\ \/ /\ amount <= outside
          /\ authority' = [authority EXCEPT ![w] = @ + amount]
          /\ outside' = outside - amount
       \/ /\ amount <= authority[w]
          /\ authority' = [authority EXCEPT ![w] = @ - amount]
          /\ outside' = outside + amount
    /\ UNCHANGED <<onkey, pool, hook, wallet, busy, job, late>>

-----------------------------------------------------------------------------
RoutingInit ==
    /\ authority = [w \in Wallets |-> 0] /\ outside = Total
    /\ onkey = [w \in Wallets |-> 0] /\ pool = [w \in Wallets |-> 0]
    /\ wallet = NoWallet /\ seeds = {} /\ key = NoWallet
    /\ ready = FALSE /\ busy = FALSE
    /\ service = [key |-> NoWallet, ok |-> FALSE]
    /\ inits = EmptyBag /\ late = {}
    /\ job = [h \in Handlers |-> Idle]

Calling ==
    \/ \E h \in Handlers : Perform(h) \/ Refuse(h) \/ Lose(h)
    \/ \E c \in late : LatePerform(c) \/ LateDrop(c)

Initialising ==
    \/ AutoInit
    \/ InitializeWithWallet
    \/ \E i \in BagToSet(inits) : SignMessage(i) \/ ServiceInitialize(i) \/ Initialized(i) \/ InitFails(i)

Routing ==
    \/ \E amount \in Steps : HandleWithdraw(amount)
    \/ VaultPaid
    \/ DepositAfterVaultWithdrawal
    \/ DepositSkipped

PayingOut == \E amount \in Payouts : HandlePrivacyCashWithdraw(amount)

Answering == \E h \in Handlers : ServerAnswers(h) \/ Settle(h)

World ==
    \/ \E w \in Wallets : Connect(w)
    \/ Disconnect
    \/ ReloadPage
    \/ \E w \in Wallets, amount \in Steps : Elsewhere(w, amount)

RoutingNext == Calling \/ Initialising \/ Routing \/ PayingOut \/ Answering \/ World

\* The owner of w routes again and again while it is offered; transactions, requests
\* and answers that are possible again and again happen in the end.
RoutingFairness(w) ==
    /\ SF_routingVars(wallet = w /\ \E amount \in Steps : HandleWithdraw(amount))
    /\ SF_routingVars(job["route"].stage = "vault" /\ Perform("route"))
    /\ SF_routingVars(job["route"].stage = "vault" /\ job["route"].result = "done" /\ VaultPaid)
    /\ SF_routingVars(DepositAfterVaultWithdrawal)
    /\ SF_routingVars(job["route"].stage = "deposit" /\ Perform("route") /\ onkey'[w] <= Buffer)

-----------------------------------------------------------------------------
(***************************************************************************)
(* Properties                                                              *)
(***************************************************************************)

\* Routing is offered to the owner of w.
RouteOffered(w) ==
    /\ wallet = w /\ ready /\ ~busy /\ job["route"] = Idle
    /\ \E amount \in Steps : MinRoute <= amount /\ amount <= authority[w]

\* A deposit that failed, or was never asked for, is made up for by the next route,
\* which deposits all that the key holds: if routing is offered again and again, the
\* key comes down to what a deposit may leave on it again and again, whatever
\* answers get lost and whatever is executed late.
SweptInTheEnd ==
    \A w \in Wallets : []<>RouteOffered(w) => []<>(onkey[w] <= Buffer)
=============================================================================
