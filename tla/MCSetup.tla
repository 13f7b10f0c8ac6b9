------------------------------- MODULE MCSetup -------------------------------
(***************************************************************************)
(* Small instances, for TLC, of the two parts of the setup page: the       *)
(* wizard itself (SetupWizard) and the form that registers a name          *)
(* (DomainRegistration).  Each has the hook useSnsDomains beside it; a     *)
(* behaviour is one of the wizard's or one of the form's.                  *)
(***************************************************************************)
EXTENDS SetupWizard, DomainRegistration

CONSTANTS
    SetupWallets,       \* bound: the wallets that use the wizard
    RegisteredNames     \* bound: the names that are entered in the form

VARIABLE part    \* whose behaviour this is

wizardVars == <<listVars, testMode, step, naming, policy, pageError, creation>>
formVars == <<hidden, form, jobs, givenUp>>
setupVars == <<domainsVars, wizardVars, formVars, part>>

\* On devnet one of the names is the wallet's, which may have a vault already.
WizardInit ==
    /\ network = "devnet"
    /\ \E w \in SetupWallets : owner = [n \in Names |-> IF n = 1 THEN w ELSE NoWallet]
    /\ \A n \in Names \ {1} : vaults[n] = NoVault

\* The names are free; the wizard beside the form has not been used.
FormInit ==
    /\ \A n \in Names : owner[n] = NoWallet
    /\ ~testMode
    /\ \A n \in Names : vaults[n] = NoVault

SetupInit ==
    /\ Init /\ RegistrationInit
    /\ \A w \in Wallets : primary[w] = NoName
    /\ \/ part = "wizard" /\ WizardInit /\ ~hidden
       \/ part = "form" /\ FormInit

\* A policy that is typed passes like a level's, or is refused.
WizardStep ==
    /\ Next
    /\ wallet' \in SetupWallets \cup {NoWallet} /\ policy' \in Levels \cup {"inverted"}
    /\ UNCHANGED <<formVars, part>>
FormStep ==
    /\ RegistrationNext
    /\ domainLabel' \in RegisteredNames \cup (Labels \ Names)
    /\ UNCHANGED <<wizardVars, part>>

SetupNext ==
    \/ part = "wizard" /\ WizardStep
    \/ part = "form" /\ FormStep

\* The fairness of one part asks of the other only that requests for names are answered:
\* the form creates no vault, and the wizard has no registration under way.
SetupSpec == SetupInit /\ [][SetupNext]_setupVars /\ Fairness /\ RegistrationFairness
=============================================================================
