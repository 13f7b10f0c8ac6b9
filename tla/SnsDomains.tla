----------------------------- MODULE SnsDomains -----------------------------
(***************************************************************************)
(* The names of the connected wallet: hooks/useSnsDomains.ts over          *)
(* adapters/sns-adapter.ts.                                                *)
(*                                                                         *)
(* A fetch is started for the wallet of the moment and answered later; an  *)
(* answer is applied whoever is connected by then.  The adapter catches    *)
(* every error and answers with the names it has resolved so far.          *)
(***************************************************************************)
EXTENDS Naturals

CONSTANTS
    Wallets, NoWallet,
    OtherOwner,   \* an account that is no wallet's, such as the authority of all names
    LastName,     \* the names are 1..LastName, by the alphabet
    MaxFetches    \* bound: fetches under way for one wallet

ASSUME NoWalletAssumption == NoWallet \notin Wallets
ASSUME OtherOwnerAssumption == OtherOwner \notin Wallets \cup {NoWallet}
ASSUME LastNameAssumption == LastName \in Nat
ASSUME MaxFetchesAssumption == MaxFetches \in Nat

Names == 1..LastName
NoName == 0

VARIABLES
    network,          \* "devnet" or "mainnet-beta"
    wallet,           \* connected, or NoWallet
    owner,            \* SNS: the owner of each name, NoWallet if it is not registered
    primary,          \* SNS: the primary name of each wallet, if it has set one
    domains, primaryDomain, loading,    \* the hook's
    domainsError,     \* the hook's
    fetching,         \* fetches under way for each wallet
    failed            \* the last answer came from a fetch that had failed

sns == <<network, owner, primary>>
shown == <<domains, primaryDomain, loading, domainsError>>
domainsVars == <<wallet, sns, shown, fetching, failed>>

Owned(w) == {n \in Names : owner[n] = w}

-----------------------------------------------------------------------------
(***************************************************************************)
(* fetchDomains                                                            *)
(***************************************************************************)

\* Started by the effect and by whoever refetches, for the wallet w of its closure.
FetchDomains(w) ==
    IF w = NoWallet THEN
        /\ domains' = {} /\ primaryDomain' = NoName
        /\ UNCHANGED <<loading, domainsError, fetching, failed>>
    ELSE
        /\ fetching[w] < MaxFetches    \* bound
        /\ fetching' = [fetching EXCEPT ![w] = @ + 1]
        /\ loading' = TRUE
        /\ domainsError' = FALSE
        /\ UNCHANGED <<domains, primaryDomain, failed>>

\* What DevnetSnsAdapter answers: names that were resolved, the first by the alphabet primary.
DevnetAnswers(w) ==
    {[names |-> names, primary |-> IF names = {} THEN NoName
                                   ELSE CHOOSE n \in names : \A o \in names : n <= o] :
        names \in SUBSET Owned(w)}

\* What MainnetSnsAdapter answers: the primary name is asked for first, and unknown after
\* an error.
MainnetAnswers(w) ==
    {[names |-> names, primary |-> p] : names \in SUBSET Owned(w), p \in {primary[w], NoName}}

Answers(w) == IF network = "devnet" THEN DevnetAnswers(w) ELSE MainnetAnswers(w)

\* The hook takes for primary the name of the list that is marked so.
Fetched(w) ==
    /\ fetching[w] > 0
    /\ fetching' = [fetching EXCEPT ![w] = @ - 1]
    /\ \E a \in Answers(w) :
           /\ domains' = a.names
           /\ primaryDomain' = IF a.primary \in a.names THEN a.primary ELSE NoName
           /\ failed' = (a.names # Owned(w))
    /\ loading' = FALSE
    /\ UNCHANGED <<wallet, sns, domainsError>>

-----------------------------------------------------------------------------
(***************************************************************************)
(* The wallet                                                              *)
(***************************************************************************)

\* Connecting, switching and disconnecting; the effect runs fetchDomains.
WalletChanges ==
    /\ wallet' \in (Wallets \cup {NoWallet}) \ {wallet}
    /\ FetchDomains(wallet')
    /\ UNCHANGED sns

Refetch ==
    /\ FetchDomains(wallet)
    /\ UNCHANGED <<wallet, sns>>

-----------------------------------------------------------------------------
DomainsInit ==
    /\ network \in {"devnet", "mainnet-beta"}
    /\ wallet = NoWallet
    /\ owner \in [Names -> Wallets \cup {NoWallet, OtherOwner}]
    /\ primary \in [Wallets -> Names \cup {NoName}]
    /\ \A w \in Wallets : primary[w] \in Owned(w) \cup {NoName}
    /\ domains = {} /\ primaryDomain = NoName /\ loading = FALSE /\ domainsError = FALSE
    /\ fetching = [w \in Wallets |-> 0]
    /\ failed = FALSE

-----------------------------------------------------------------------------
(***************************************************************************)
(* Properties                                                              *)
(***************************************************************************)

\* Every variable holds a value of its type.
DomainsTypeOK ==
    /\ network \in {"devnet", "mainnet-beta"}
    /\ wallet \in Wallets \cup {NoWallet}
    /\ owner \in [Names -> Wallets \cup {NoWallet, OtherOwner}]
    /\ domains \subseteq Names /\ primaryDomain \in Names \cup {NoName}
    /\ loading \in BOOLEAN /\ domainsError \in BOOLEAN /\ failed \in BOOLEAN
    /\ fetching \in [Wallets -> 0..MaxFetches]
=============================================================================
