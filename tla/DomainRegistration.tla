------------------------- MODULE DomainRegistration -------------------------
(***************************************************************************)
(* Registering a name on devnet: components/DevnetDomainRegistration.tsx   *)
(* over hooks/useDevnetDomainRegistration.ts, inside the setup page.       *)
(*                                                                         *)
(* The page shows the component where a wallet is connected and has no     *)
(* names, and unmounts it, with its state, whenever that changes, names    *)
(* are fetched, or the page shows something else in its place.  What the   *)
(* component awaits goes on: a job is one call of its handleRegister.      *)
(* The bindings may make another account than the payer the owner of the   *)
(* name.  The two requests for names after a registration, the component's *)
(* own, which nothing shows, and the page's, are those of the render the   *)
(* button was clicked in.                                                  *)
(***************************************************************************)
EXTENDS SnsDomains, FiniteSets

CONSTANT MaxJobs    \* bound: calls of handleRegister, and transactions given up

VARIABLES
    hidden,    \* the page's: test mode, a name entered by hand, or a later step
    showRegistration, domainLabel,          \* the component's
    isRegistering, registrationError, txSignature,    \* its hook's
    jobs, givenUp

form == <<showRegistration, domainLabel, isRegistering, registrationError, txSignature>>
page == <<domainsVars, hidden>>
registrationVars == <<page, form, jobs, givenUp>>

\* A label: a name, nothing, or one with other characters than letters, digits and hyphens.
Labels == Names \cup {NoName, LastName + 1}
Registrable(label) == label \in Names

Mounted == wallet # NoWallet /\ ~hidden /\ ~loading /\ domains = {}

\* The job whose component is still there and waits for registerDomain.
Registering(j) == j.mounted /\ j.stage \in {"building", "signing", "polling", "caching"}

Emptied ==
    /\ showRegistration' = FALSE /\ domainLabel' = NoName
    /\ isRegistering' = FALSE /\ registrationError' = FALSE /\ txSignature' = FALSE

-----------------------------------------------------------------------------
(***************************************************************************)
(* The form                                                                *)
(***************************************************************************)

ShowForm ==
    /\ Mounted /\ ~showRegistration
    /\ showRegistration' = TRUE
    /\ UNCHANGED <<page, domainLabel, isRegistering, registrationError, txSignature,
                   jobs, givenUp>>

\* Mutant: the input is not disabled.
EnterLabelAnytime ==
    /\ Mounted /\ showRegistration
    /\ domainLabel' \in Labels
    /\ UNCHANGED <<page, showRegistration, isRegistering, registrationError, txSignature,
                   jobs, givenUp>>

EnterLabel ==
    /\ Mounted /\ showRegistration /\ ~isRegistering
    /\ domainLabel' \in Labels
    /\ UNCHANGED <<page, showRegistration, isRegistering, registrationError, txSignature,
                   jobs, givenUp>>

HandleClose ==
    /\ Mounted /\ showRegistration /\ ~isRegistering
    /\ Emptied
    /\ UNCHANGED <<page, jobs, givenUp>>

RegisterOffered == Mounted /\ showRegistration /\ ~isRegistering /\ domainLabel # NoName

\* The button and the Enter key.  A label with wrong characters is refused before the hook
\* takes note of anything; reset has emptied it.
HandleRegister ==
    /\ RegisterOffered
    /\ registrationError' = FALSE /\ txSignature' = FALSE
    /\ IF Registrable(domainLabel)
       THEN /\ Cardinality(jobs \cup givenUp) < MaxJobs    \* bound
            /\ isRegistering' = TRUE
            /\ jobs' = jobs \cup {[name |-> domainLabel, by |-> wallet, mounted |-> TRUE,
                                   stage |-> "building", tx |-> "none"]}
       ELSE UNCHANGED <<isRegistering, jobs>>
    /\ UNCHANGED <<page, showRegistration, domainLabel, givenUp>>

-----------------------------------------------------------------------------
(***************************************************************************)
(* registerDomain and what follows it                                      *)
(***************************************************************************)

Goes(j, k) == jobs' = (jobs \ {j}) \cup {k}

\* The transaction is built, its simulation succeeds: the name is free, the network devnet.
Built(j) ==
    /\ j.stage = "building" /\ owner[j.name] = NoWallet /\ network = "devnet"
    /\ Goes(j, [j EXCEPT !.stage = "signing"])
    /\ UNCHANGED <<page, form, givenUp>>

\* The wallet signs; the signature is kept, which the form shows as success.
Sent(j) ==
    /\ j.stage = "signing"
    /\ Goes(j, [j EXCEPT !.stage = "polling", !.tx = "sent"])
    /\ txSignature' = IF j.mounted THEN TRUE ELSE txSignature
    /\ UNCHANGED <<page, showRegistration, domainLabel, isRegistering, registrationError,
                   givenUp>>

Confirmed(j) ==
    /\ j.stage = "polling" /\ j.tx = "executed"
    /\ Goes(j, [j EXCEPT !.stage = "caching"])
    /\ UNCHANGED <<page, form, givenUp>>

\* The browser keeps the account of the name, if it can be told; registerDomain returns.
Cached(j) ==
    /\ j.stage = "caching"
    /\ Goes(j, [j EXCEPT !.stage = "refetching"])
    /\ isRegistering' = IF j.mounted THEN FALSE ELSE isRegistering
    /\ UNCHANGED <<page, showRegistration, domainLabel, registrationError, txSignature,
                   givenUp>>

\* A check, the wallet, the program or a request fails, or the transaction has expired; the
\* request that fails may be the one that sends it, and it is sent all the same.
Failed(j) ==
    /\ j.stage \in {"building", "signing", "polling"}
    /\ jobs' = jobs \ {j}
    /\ \/ j.tx # "sent" /\ UNCHANGED givenUp
       \/ (j.stage = "signing" \/ j.tx = "sent")
          /\ givenUp' = givenUp \cup {[name |-> j.name, by |-> j.by]}
    /\ IF j.mounted THEN isRegistering' = FALSE /\ registrationError' = TRUE
       ELSE UNCHANGED <<isRegistering, registrationError>>
    /\ UNCHANGED <<page, showRegistration, domainLabel, txSignature>>

\* What a change of the page's names does to the component: it stays, or is unmounted.
Remounted(rest) ==
    IF Mounted' /\ Mounted THEN jobs' = rest /\ UNCHANGED form
    ELSE /\ jobs' = {[j EXCEPT !.mounted = FALSE] : j \in rest}
         /\ Emptied

\* Mutant: the page is not told.
RegisteredAlone(j) ==
    /\ j.stage = "refetching"
    /\ jobs' = jobs \ {j}
    /\ IF j.mounted THEN Emptied ELSE UNCHANGED form
    /\ UNCHANGED <<page, givenUp>>

\* The component's own request has been answered: the page is told, which fetches, and the
\* form is emptied.
Registered(j) ==
    /\ j.stage = "refetching"
    /\ FetchDomains(j.by)
    /\ UNCHANGED <<wallet, sns, hidden, givenUp>>
    /\ Remounted(jobs \ {j})

-----------------------------------------------------------------------------
(***************************************************************************)
(* The page and the chain                                                  *)
(***************************************************************************)

PageChanges ==
    /\ WalletChanges \/ \E w \in Wallets : Fetched(w)
    /\ UNCHANGED <<hidden, givenUp>>
    /\ Remounted(jobs)

\* A name is entered by hand or chosen again, the test mode or the step changes.
PageTurns ==
    /\ hidden' = ~hidden
    /\ UNCHANGED <<domainsVars, givenUp>>
    /\ Remounted(jobs)

Registers(n, w) ==
    IF owner[n] = NoWallet THEN \E o \in {w, OtherOwner} : owner' = [owner EXCEPT ![n] = o]
    ELSE UNCHANGED owner

\* The chain executes a transaction or lets it expire.
RegistrationOnChain ==
    /\ \/ \E j \in jobs :
              /\ j.stage = "polling" /\ j.tx = "sent"
              /\ \/ /\ Registers(j.name, j.by)
                    /\ Goes(j, [j EXCEPT !.tx = IF owner[j.name] = NoWallet THEN "executed"
                                                ELSE "failed"])
                 \/ Goes(j, [j EXCEPT !.tx = "expired"]) /\ UNCHANGED owner
              /\ UNCHANGED givenUp
       \/ \E t \in givenUp :
              Registers(t.name, t.by) /\ givenUp' = givenUp \ {t} /\ UNCHANGED jobs
    /\ UNCHANGED <<wallet, network, primary, shown, fetching, failed, hidden, form>>

-----------------------------------------------------------------------------
RegistrationInit ==
    /\ DomainsInit
    /\ hidden \in BOOLEAN
    /\ showRegistration = FALSE /\ domainLabel = NoName
    /\ isRegistering = FALSE /\ registrationError = FALSE /\ txSignature = FALSE
    /\ jobs = {} /\ givenUp = {}

RegistrationNext ==
    \/ ShowForm \/ EnterLabel \/ HandleClose \/ HandleRegister
    \/ \E j \in jobs :
           Built(j) \/ Sent(j) \/ Confirmed(j) \/ Cached(j) \/ Failed(j) \/ Registered(j)
    \/ PageChanges \/ PageTurns
    \/ RegistrationOnChain

RegistrationSpec == RegistrationInit /\ [][RegistrationNext]_registrationVars

\* Requests are answered, and what was registered is told.
RegistrationFairness ==
    /\ WF_registrationVars(\E j \in jobs : Cached(j))
    /\ WF_registrationVars(\E j \in jobs : Registered(j))
    /\ WF_registrationVars(PageChanges /\ ~WalletChanges)

FairRegistrationSpec == RegistrationSpec /\ RegistrationFairness

-----------------------------------------------------------------------------
(***************************************************************************)
(* Properties                                                              *)
(***************************************************************************)

\* The form that says it is registering displays the one name it registers, for the
\* connected wallet, although the end of an earlier registration empties it too.
FormShowsRegistration ==
    /\ isRegistering <=> \E j \in jobs : Registering(j)
    /\ \A j \in jobs : Registering(j) =>
           showRegistration /\ domainLabel = j.name /\ wallet = j.by

ToBeTold(n, w) == \E j \in jobs : j.stage = "refetching" /\ j.name = n /\ j.by = w

\* A name that has been registered for the wallet that paid comes to be listed, unless the
\* fetch fails or the wallet goes away.
RegisteredIsListed ==
    \A n \in Names, w \in Wallets :
        ToBeTold(n, w) /\ owner[n] = w
                       ~> \/ n \in domains \/ wallet # w
                          \/ failed /\ fetching[w] = 0 /\ ~ToBeTold(n, w)
=============================================================================
