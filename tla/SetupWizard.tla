---------------------------- MODULE SetupWizard ----------------------------
(***************************************************************************)
(* Setting up a vault: app/setup/page.tsx over useSnsDomains, the list of  *)
(* destinations and initializeVault (hooks/useHydentity.ts).               *)
(*                                                                         *)
(* Each action is a handler of the page, or the code of an asynchronous    *)
(* one from an await to the next.  initializeVault is in the middle of     *)
(* something when stage is not "idle"; pollForConfirmation asks for the    *)
(* status of the transaction and for the block height at once, and here    *)
(* the status is answered first.                                           *)
(***************************************************************************)
EXTENDS SnsDomains, DestinationList, FiniteSets

CONSTANT Levels    \* of privacy, "medium" among them

ASSUME LevelsAssumption == "medium" \in Levels

VARIABLES
    testMode,                       \* kept by the browser
    step,                           \* the page's
    selectedDomain, manualDomain, useManualEntry,
    verification,                   \* under way: the name and the wallet it was started with
    policy,                         \* splits and delays, by level
    pageError,                      \* "none", "expired" or "other"
    stage, creating,                \* initializeVault: where it waits; its name and wallet
    transaction, heightPassed,      \* its transaction, and whether that is too old by now
    late,                           \* what was sent and given up, and may yet be executed
    vaults                          \* what the program has stored for each name

naming == <<selectedDomain, manualDomain, useManualEntry, verification>>
creation == <<stage, creating, transaction, heightPassed, late, vaults>>
vars == <<domainsVars, listVars, testMode, step, naming, policy, pageError, creation>>

\* "inverted": a minimum above its maximum; everything else that is typed is "custom".
Policies == Levels \cup {"custom", "inverted"}
NoVerification == [name |-> NoName, by |-> NoWallet]
NoVault == [destinations |-> 0, policy |-> "none"]
\* initialize_vault takes no settings.
NewVault == [destinations |-> 0, policy |-> "medium"]

GetDomainName == IF useManualEntry \/ testMode THEN manualDomain ELSE selectedDomain

\* Without a wallet the page offers to connect one, and nothing else.
Shown(s) == wallet # NoWallet /\ step = s

-----------------------------------------------------------------------------
(***************************************************************************)
(* Choosing the name                                                       *)
(***************************************************************************)

\* Mutant: the list is not looked at before its first element is taken.
AutoSelectAny(names, p) ==
    IF selectedDomain # NoName THEN selectedDomain
    ELSE IF p # NoName THEN p
    ELSE IF names = {} THEN -1 ELSE CHOOSE n \in names : \A o \in names : n <= o

\* The effect that selects the primary name, or the first, unless one is selected.
AutoSelect(names, p) ==
    IF selectedDomain # NoName \/ names = {} THEN selectedDomain
    ELSE IF p # NoName THEN p
    ELSE CHOOSE n \in names : \A o \in names : n <= o

DomainsAnswered ==
    /\ \E w \in Wallets : Fetched(w)
    /\ selectedDomain' = AutoSelect(domains', primaryDomain')
    /\ UNCHANGED <<listVars, testMode, step, manualDomain, useManualEntry, verification,
                   policy, pageError, creation>>

\* The hook fetches again; after a registration the page asks it to.
DomainsRequested ==
    /\ WalletChanges \/ (Shown("domain") /\ ~loading /\ domains = {} /\ Refetch)
    /\ UNCHANGED <<listVars, testMode, step, naming, policy, pageError, creation>>

\* The list of names, and the button under it.
ChooseDomain ==
    /\ Shown("domain") /\ ~testMode /\ ~useManualEntry /\ ~loading
    /\ \/ selectedDomain' \in domains /\ UNCHANGED useManualEntry
       \/ useManualEntry' = TRUE /\ UNCHANGED selectedDomain
    /\ UNCHANGED <<domainsVars, listVars, testMode, step, manualDomain, verification,
                   policy, pageError, creation>>

\* The input, and the way back to the list; neither is disabled while a name is verified.
EnterDomain ==
    /\ Shown("domain") /\ (testMode \/ useManualEntry)
    /\ \/ manualDomain' \in Names \cup {NoName} /\ UNCHANGED useManualEntry
       \/ ~testMode /\ useManualEntry' = FALSE /\ manualDomain' = NoName
    /\ UNCHANGED <<domainsVars, listVars, testMode, step, selectedDomain, verification,
                   policy, pageError, creation>>

\* The button Continue is enabled.
ContinueOffered == verification = NoVerification /\ (GetDomainName # NoName \/ testMode)

\* Continue: an entered name is verified first, except in test mode.
HandleDomainSubmit ==
    /\ Shown("domain") /\ ContinueOffered
    /\ IF GetDomainName = NoName THEN pageError' = "other" /\ UNCHANGED <<step, verification>>
       ELSE /\ pageError' = "none"
            /\ IF useManualEntry /\ ~testMode
               THEN /\ verification' = [name |-> GetDomainName, by |-> wallet]
                    /\ UNCHANGED step
               ELSE step' = "destinations" /\ UNCHANGED verification
    /\ UNCHANGED <<domainsVars, listVars, testMode, selectedDomain, manualDomain,
                   useManualEntry, policy, creation>>

\* verifyOwnership answers, FALSE after an error.
Verified ==
    /\ verification # NoVerification
    /\ verification' = NoVerification
    /\ \/ /\ owner[verification.name] = verification.by
          /\ step' = "destinations" /\ pageError' = "none"
       \/ pageError' = "other" /\ UNCHANGED step
    /\ UNCHANGED <<domainsVars, listVars, testMode, selectedDomain, manualDomain,
                   useManualEntry, policy, creation>>

-----------------------------------------------------------------------------
(***************************************************************************)
(* Destinations, privacy settings and confirmation                         *)
(***************************************************************************)

EditDestinations ==
    /\ Shown("destinations")
    /\ Edit
    /\ UNCHANGED <<domainsVars, testMode, step, naming, policy, pageError, creation>>

UseConnectedWallet ==
    /\ Shown("destinations")
    /\ UpdateDestination(1, "address")
    /\ UNCHANGED <<domainsVars, testMode, step, naming, policy, pageError, creation>>

HandleDestinationsSubmit ==
    /\ Shown("destinations")
    /\ ValidateDestinations
    /\ IF ListValid THEN step' = "policy" /\ pageError' = "none" ELSE UNCHANGED <<step, pageError>>
    /\ UNCHANGED <<domainsVars, testMode, naming, policy, creation>>

ApplyPreset(level) ==
    /\ Shown("policy")
    /\ policy' = level
    /\ UNCHANGED <<domainsVars, listVars, testMode, step, naming, pageError, creation>>

\* The four inputs, which take any positive number.
EditPolicy ==
    /\ Shown("policy")
    /\ policy' \in Policies
    /\ UNCHANGED <<domainsVars, listVars, testMode, step, naming, pageError, creation>>

HandlePolicySubmit ==
    /\ Shown("policy")
    /\ IF policy = "inverted" THEN pageError' = "other" /\ UNCHANGED step
       ELSE step' = "confirm" /\ pageError' = "none"
    /\ UNCHANGED <<domainsVars, listVars, testMode, naming, policy, creation>>

Back ==
    /\ \/ Shown("destinations") /\ step' = "domain"
       \/ Shown("policy") /\ step' = "destinations"
       \/ Shown("confirm") /\ step' = "policy"
    /\ UNCHANGED <<domainsVars, listVars, testMode, naming, policy, pageError, creation>>

\* Create Vault: only the name is passed on.
HandleConfirm ==
    /\ Shown("confirm")
    /\ step' = "processing" /\ pageError' = "none"
    /\ stage' = "checking" /\ creating' = [name |-> GetDomainName, by |-> wallet]
    /\ transaction' = "none" /\ heightPassed' = FALSE
    /\ UNCHANGED <<domainsVars, listVars, testMode, naming, policy, late, vaults>>

-----------------------------------------------------------------------------
(***************************************************************************)
(* initializeVault                                                         *)
(***************************************************************************)

\* The program takes the name: it is registered, the wallet's, and has no vault.
Accepted(c) == c.name # NoName /\ owner[c.name] = c.by /\ vaults[c.name] = NoVault

\* The account of the name, the vault and a simulation; test mode passes an account that
\* does not exist, which the simulation does not accept.
Checked ==
    /\ stage = "checking"
    /\ ~testMode /\ Accepted(creating)
    /\ stage' = "signing"
    /\ UNCHANGED <<domainsVars, listVars, testMode, step, naming, policy, pageError, creating,
                   transaction, heightPassed, late, vaults>>

Send ==
    /\ stage = "signing"
    /\ stage' = "status" /\ transaction' = "sent"
    /\ UNCHANGED <<domainsVars, listVars, testMode, step, naming, policy, pageError, creating,
                   heightPassed, late, vaults>>

\* Mutant: a transaction that is too old is waited for.
PollForConfirmationOn ==
    /\ \/ stage = "status" /\ transaction = "sent" /\ stage' = "height"
       \/ stage = "height" /\ stage' = "status"
    /\ UNCHANGED <<domainsVars, listVars, testMode, step, naming, policy, pageError, creating,
                   transaction, heightPassed, late, vaults>>

\* pollForConfirmation: no status yet, and the block height allows for one.
PollForConfirmation ==
    /\ \/ stage = "status" /\ transaction = "sent" /\ stage' = "height"
       \/ stage = "height" /\ ~heightPassed /\ stage' = "status"
    /\ UNCHANGED <<domainsVars, listVars, testMode, step, naming, policy, pageError, creating,
                   transaction, heightPassed, late, vaults>>

\* Mutant: the answer to sending is taken for the confirmation.
CreatedOnceSent ==
    /\ stage \in {"status", "fetching"}
    /\ stage' = "idle" /\ step' = "complete"
    /\ UNCHANGED <<domainsVars, listVars, testMode, naming, policy, pageError, creating,
                   transaction, heightPassed, late, vaults>>

\* The status is the confirmation; initializeVault fetches the vaults again.
CreationConfirmed ==
    /\ stage = "status" /\ transaction = "executed"
    /\ stage' = "fetching"
    /\ UNCHANGED <<domainsVars, listVars, testMode, step, naming, policy, pageError, creating,
                   transaction, heightPassed, late, vaults>>

\* The vaults are there or not: fetchVaults takes care of its errors, and the page goes on.
Created ==
    /\ stage = "fetching"
    /\ stage' = "idle" /\ step' = "complete"
    /\ UNCHANGED <<domainsVars, listVars, testMode, naming, policy, pageError, creating,
                   transaction, heightPassed, late, vaults>>

MayYetBeExecuted == transaction = "sent" /\ ~heightPassed

\* The transaction has become too old, or a check, the wallet, the program or a request
\* fails; the page goes back to the confirmation.  The request that fails may be the one
\* that sends the transaction, and it is sent all the same.
NotCreated ==
    /\ \/ stage = "height" /\ heightPassed /\ pageError' = "expired"
       \/ stage \in {"checking", "signing", "status", "height"} /\ pageError' = "other"
    /\ stage' = "idle" /\ step' = "confirm"
    /\ \/ ~MayYetBeExecuted /\ UNCHANGED late
       \/ (stage = "signing" \/ MayYetBeExecuted) /\ late' = late \cup {creating}
    /\ UNCHANGED <<domainsVars, listVars, testMode, naming, policy, creating,
                   transaction, heightPassed, vaults>>

\* The chain executes a transaction, or it gets too old.
Executed(c) == vaults' = IF Accepted(c) THEN [vaults EXCEPT ![c.name] = NewVault] ELSE vaults

OnChain ==
    /\ \/ /\ stage # "idle" /\ transaction = "sent" /\ ~heightPassed
          /\ Executed(creating)
          /\ transaction' = IF Accepted(creating) THEN "executed" ELSE "failed"
          /\ UNCHANGED <<heightPassed, late>>
       \/ /\ transaction # "none" /\ stage \in {"status", "height"}
          /\ heightPassed' = TRUE
          /\ UNCHANGED <<transaction, late, vaults>>
       \/ \E c \in late :
              Executed(c) /\ late' = late \ {c} /\ UNCHANGED <<transaction, heightPassed>>
    /\ UNCHANGED <<domainsVars, listVars, testMode, step, naming, policy, pageError, stage,
                   creating>>

\* The name that the last step announces a vault for, and whose page it leads to.
Announced == GetDomainName

-----------------------------------------------------------------------------
Init ==
    /\ DomainsInit /\ ListInit
    /\ testMode \in BOOLEAN
    /\ step = "domain"
    /\ selectedDomain = NoName /\ manualDomain = NoName /\ useManualEntry = FALSE
    /\ verification = NoVerification
    /\ policy = "medium"
    /\ pageError = "none"
    /\ stage = "idle" /\ creating = NoVerification
    /\ transaction = "none" /\ heightPassed = FALSE
    /\ late = {} /\ vaults \in [Names -> {NoVault, NewVault}]

Next ==
    \/ DomainsAnswered \/ DomainsRequested
    \/ ChooseDomain \/ EnterDomain \/ HandleDomainSubmit \/ Verified
    \/ EditDestinations \/ UseConnectedWallet \/ HandleDestinationsSubmit
    \/ \E level \in Levels : ApplyPreset(level)
    \/ EditPolicy \/ HandlePolicySubmit
    \/ Back
    \/ HandleConfirm
    \/ Checked \/ Send \/ PollForConfirmation \/ CreationConfirmed \/ Created \/ NotCreated
    \/ OnChain

\* Requests are answered, the user signs or does not, and blocks are produced.
Fairness ==
    /\ WF_vars(Checked \/ (stage = "checking" /\ NotCreated))
    /\ WF_vars(Send \/ (stage = "signing" /\ NotCreated))
    /\ WF_vars(PollForConfirmation)
    /\ WF_vars(CreationConfirmed) /\ WF_vars(Created)
    /\ WF_vars(stage = "height" /\ heightPassed /\ NotCreated)
    /\ WF_vars(stage = "status" /\ transaction = "failed" /\ NotCreated)
    /\ WF_vars(OnChain /\ heightPassed')

Spec == Init /\ [][Next]_vars
FairSpec == Spec /\ Fairness

-----------------------------------------------------------------------------
(***************************************************************************)
(* Properties                                                              *)
(***************************************************************************)

\* Every variable holds a value of its type, and the page shows that it is creating a vault
\* while initializeVault runs.
TypeOK ==
    /\ DomainsTypeOK /\ ListTypeOK
    /\ testMode \in BOOLEAN /\ useManualEntry \in BOOLEAN
    /\ step \in {"domain", "destinations", "policy", "confirm", "processing", "complete"}
    /\ selectedDomain \in Names \cup {NoName} /\ manualDomain \in Names \cup {NoName}
    /\ policy \in Policies
    /\ pageError \in {"none", "expired", "other"}
    /\ stage \in {"idle", "checking", "signing", "status", "height", "fetching"}
    /\ step = "processing" <=> stage # "idle"
    /\ vaults \in [Names -> {NoVault, NewVault}]

\* The page announces a vault for a name only when the program has one: whatever was
\* selected, entered, refused, executed late or fetched on the way.
CompleteMeansVault == step = "complete" => vaults[Announced] # NoVault

\* Creating a vault ends, also when the transaction never shows up.
CreationEnds == step = "processing" ~> step # "processing"
=============================================================================
