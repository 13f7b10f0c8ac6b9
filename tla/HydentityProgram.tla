-------------------------- MODULE HydentityProgram --------------------------
(***************************************************************************)
(* The Solana program of programs/hydentity/src/lib.rs: the six            *)
(* instructions it dispatches (initialize_vault, mark_domain_transferred,  *)
(* reclaim_domain, close_vault, claim_vault, withdraw_direct), over the    *)
(* three program-derived accounts it keeps for each SNS name, together     *)
(* with the two things it shares with programs it does not control: the    *)
(* owner field of the SNS record and the lamport balances.                 *)
(*                                                                         *)
(* A transaction is atomic and its instructions run one at a time, so one  *)
(* action is one successful instruction; an instruction that returns an    *)
(* error is rolled back by the runtime, so a failing guard is a disabled   *)
(* action.  What interleaves is the order in which several users send      *)
(* transactions about the same name.                                       *)
(***************************************************************************)
EXTENDS Integers, FiniteSets

CONSTANTS
    Names,          \* SNS name accounts
    Users,          \* keys that can sign
    NoUser,         \* the owner field of a vault that does not exist
    RentExempt,     \* rent-exempt minimum of an account (one size for all)
    MaxNonce,       \* largest policy_nonce (2^64 - 1 in the code)
    DefaultPolicy,  \* the settings PrivacyPolicy::initialize writes
    InitialWallet,  \* lamports each user starts with
    ReservesRent    \* FALSE: withdraw_direct of lib.rs, the one dispatched
                    \* TRUE: the handler of instructions/withdraw_direct.rs

VARIABLES
    sns,       \* sns[n]: bytes 32..64 of the SNS record, the owner of n
    live,      \* live[n]: which accounts of n exist and belong to the program
    vault,     \* vault[n]: the NameVault account
    policy,    \* policy[n]: the PrivacyPolicy account
    lamports,  \* lamports[n][p]: balance at the address of account p of n
    wallet     \* wallet[u]: lamports of u's own account

vars == <<sns, live, vault, policy, lamports, wallet>>

(***************************************************************************)
(* Keys and accounts                                                       *)
(***************************************************************************)
Accounts == {"vault", "authority", "policy"}

\* The address derived from ["vault_auth", n].  No private key signs for it.
Authority(n) == <<"vault_auth", n>>
Authorities  == {Authority(n) : n \in Names}
Keys         == Users \cup Authorities

NoVault == [owner |-> NoUser, domain_transferred |-> FALSE]
Vaults  == [owner : Users, domain_transferred : BOOLEAN] \cup {NoVault}

\* PrivacyPolicy without the fields no handler reads back (distribution,
\* destination_mode, updated_at, bump).
Settings == [enabled : BOOLEAN, min_splits : Nat, max_splits : Nat,
             min_delay : Nat, max_delay : Nat,
             privacy_mode : {"FullPrivacy", "PartialPrivacy", "Direct"}]
Policies == [settings : Settings, destinations : SUBSET Users,
             policy_nonce : 0..MaxNonce]
NoPolicy == [settings |-> DefaultPolicy, destinations |-> {}, policy_nonce |-> 0]

ASSUME KeysAssumption ==
    /\ NoUser \notin Users
    /\ \A n \in Names : Authority(n) \notin Users \cup {NoUser}

ASSUME NumbersAssumption ==
    /\ RentExempt \in Nat \ {0}
    /\ MaxNonce \in Nat
    /\ ReservesRent \in BOOLEAN
    /\ InitialWallet \in [Users -> Nat]
    /\ DefaultPolicy \in Settings
    /\ DefaultPolicy.min_splits <= DefaultPolicy.max_splits
    /\ DefaultPolicy.min_delay <= DefaultPolicy.max_delay

(***************************************************************************)
(* The runtime's rule on balances: an account may end a transaction empty  *)
(* (it is then deleted) or rent-exempt, never in between.                  *)
(***************************************************************************)
RentState(balance) == balance = 0 \/ balance >= RentExempt

\* What `init` takes from the payer for an address that may already hold
\* lamports (Anchor tops a pre-funded address up to the rent minimum).
Missing(balance) == IF balance >= RentExempt THEN 0 ELSE RentExempt - balance

InitCost(n) == Missing(lamports[n]["vault"]) + Missing(lamports[n]["authority"])
                 + Missing(lamports[n]["policy"])

(***************************************************************************)
(* Instructions of the program                                             *)
(***************************************************************************)

\* The #[account(...)] constraints of InitializeVault: all three are `init`.
InitializeVaultAccounts(n, u) == live[n] = {} /\ wallet[u] >= InitCost(n)

InitializeVault(n, u) ==
    /\ InitializeVaultAccounts(n, u)
    /\ sns[n] = u
    /\ live' = [live EXCEPT ![n] = Accounts]
    /\ vault' = [vault EXCEPT ![n] = [owner |-> u, domain_transferred |-> FALSE]]
    /\ policy' = [policy EXCEPT ![n] = [settings |-> DefaultPolicy,
                                        destinations |-> {u}, policy_nonce |-> 0]]
    /\ wallet' = [wallet EXCEPT ![u] = @ - InitCost(n)]
    /\ lamports' = [lamports EXCEPT ![n] =
                      [p \in Accounts |-> @[p] + Missing(@[p])]]
    /\ UNCHANGED sns

\* MarkDomainTransferredAccounts: `vault` and `vault_authority` are typed
\* accounts, so both must exist.
MarkDomainTransferredAccounts(n, u) ==
    /\ {"vault", "authority"} \subseteq live[n]
    /\ vault[n].owner = u
    /\ ~vault[n].domain_transferred

\* Mutant: takes the caller's word for the transfer.
MarkDomainUnverified(n, u) ==
    /\ MarkDomainTransferredAccounts(n, u)
    /\ vault' = [vault EXCEPT ![n].domain_transferred = TRUE]
    /\ UNCHANGED <<sns, live, policy, lamports, wallet>>

MarkDomainTransferred(n, u) ==
    /\ MarkDomainTransferredAccounts(n, u)
    /\ sns[n] = Authority(n)
    /\ vault' = [vault EXCEPT ![n].domain_transferred = TRUE]
    /\ UNCHANGED <<sns, live, policy, lamports, wallet>>

ReclaimDomainAccounts(n, u) ==
    /\ {"vault", "authority"} \subseteq live[n]
    /\ vault[n].owner = u
    /\ vault[n].domain_transferred

\* The destination is an UncheckedAccount: any key at all.
ReclaimDomain(n, u, destination) ==
    /\ ReclaimDomainAccounts(n, u)
    /\ sns[n] = Authority(n)
    /\ sns' = [sns EXCEPT ![n] = destination]
    /\ vault' = [vault EXCEPT ![n].domain_transferred = FALSE]
    /\ UNCHANGED <<live, policy, lamports, wallet>>

\* Mutant: forgets that the name may be in custody.
CloseVaultAnyTime(n, u) == live[n] = Accounts /\ vault[n].owner = u

\* CloseVault: the guard reads the flag of the vault, never the SNS record.
CloseVaultAccounts(n, u) ==
    /\ live[n] = Accounts
    /\ vault[n].owner = u
    /\ ~vault[n].domain_transferred

\* Mutant: `close = owner` on the vault account alone.
CloseVaultAlone(n, u) ==
    /\ CloseVaultAccounts(n, u)
    /\ live' = [live EXCEPT ![n] = @ \ {"vault"}]
    /\ vault' = [vault EXCEPT ![n] = NoVault]
    /\ wallet' = [wallet EXCEPT ![u] = @ + lamports[n]["vault"]]
    /\ lamports' = [lamports EXCEPT ![n]["vault"] = 0]
    /\ UNCHANGED <<sns, policy>>

\* Everything happens in `close = owner`: the balances go to the owner.
CloseVault(n, u) ==
    /\ CloseVaultAccounts(n, u)
    /\ live' = [live EXCEPT ![n] = {}]
    /\ vault' = [vault EXCEPT ![n] = NoVault]
    /\ policy' = [policy EXCEPT ![n] = NoPolicy]
    /\ wallet' = [wallet EXCEPT ![u] = @ + lamports[n]["vault"]
                     + lamports[n]["authority"] + lamports[n]["policy"]]
    /\ lamports' = [lamports EXCEPT ![n] = [p \in Accounts |-> 0]]
    /\ UNCHANGED sns

\* ClaimVault names neither the vault authority nor any delegate session.
ClaimVaultAccounts(n, u) ==
    /\ {"vault", "policy"} \subseteq live[n]
    /\ vault[n].owner # u

\* Mutant: leaves the policy nonce alone.
ClaimVaultSameNonce(n, u) ==
    /\ ClaimVaultAccounts(n, u)
    /\ sns[n] = u
    /\ vault' = [vault EXCEPT ![n].owner = u]
    /\ policy' = [policy EXCEPT ![n].destinations = {u}]
    /\ UNCHANGED <<sns, live, lamports, wallet>>

ClaimVault(n, u) ==
    /\ ClaimVaultAccounts(n, u)
    /\ sns[n] = u
    /\ policy[n].policy_nonce < MaxNonce
    /\ vault' = [vault EXCEPT ![n].owner = u]
    /\ policy' = [policy EXCEPT ![n] = [policy[n] EXCEPT
                        !.destinations = {u},
                        !.policy_nonce = policy[n].policy_nonce + 1]]
    /\ UNCHANGED <<sns, live, lamports, wallet>>

WithdrawDirectAccounts(n, u) ==
    /\ {"vault", "authority"} \subseteq live[n]
    /\ vault[n].owner = u

\* Mutants: nothing kept back for rent; the balance of the other account.
WithdrawableToTheLast(n) == lamports[n]["authority"]
WithdrawableOfVault(n)   == lamports[n]["vault"] - RentExempt

\* The balance each version of the handler compares the amount with.
Withdrawable(n) ==
    IF ReservesRent THEN lamports[n]["authority"] - RentExempt
                    ELSE lamports[n]["authority"]

\* An authority left without lamports is deleted when the transaction ends.
WithdrawDirect(n, u, destination, amount) ==
    LET rest == lamports[n]["authority"] - amount IN
    /\ WithdrawDirectAccounts(n, u)
    /\ amount <= Withdrawable(n)
    /\ RentState(rest)
    /\ lamports' = [lamports EXCEPT ![n]["authority"] = rest]
    /\ wallet' = [wallet EXCEPT ![destination] = @ + amount]
    /\ live' = [live EXCEPT ![n] = IF rest = 0 THEN @ \ {"authority"} ELSE @]
    /\ UNCHANGED <<sns, vault, policy>>

(***************************************************************************)
(* Steps of other programs that the handlers depend on                     *)
(***************************************************************************)

\* The SNS name program moves a name at its owner's signature.  A derived
\* address cannot sign, so only users transfer.
SnsTransfer(n, to) ==
    /\ sns[n] \in Users
    /\ sns' = [sns EXCEPT ![n] = to]
    /\ UNCHANGED <<live, vault, policy, lamports, wallet>>

\* A system transfer to the vault authority (where n.sol resolves once the
\* name is in custody) or to the vault account (where the SDK looks).
Deposit(u, n, p, amount) ==
    /\ amount <= wallet[u]
    /\ RentState(lamports[n][p] + amount)
    /\ wallet' = [wallet EXCEPT ![u] = @ - amount]
    /\ lamports' = [lamports EXCEPT ![n][p] = @ + amount]
    /\ UNCHANGED <<sns, live, vault, policy>>

-----------------------------------------------------------------------------
Init ==
    /\ sns \in [Names -> Users]
    /\ live = [n \in Names |-> {}]
    /\ vault = [n \in Names |-> NoVault]
    /\ policy = [n \in Names |-> NoPolicy]
    /\ lamports = [n \in Names |-> [p \in Accounts |-> 0]]
    /\ wallet = InitialWallet

Instruction(n, u) ==
    \/ InitializeVault(n, u)
    \/ MarkDomainTransferred(n, u)
    \/ \E destination \in Keys : ReclaimDomain(n, u, destination)
    \/ CloseVault(n, u)
    \/ ClaimVault(n, u)
    \/ \E destination \in Users, amount \in 0..lamports[n]["authority"] :
          WithdrawDirect(n, u, destination, amount)

Environment(n) ==
    \/ \E to \in Keys : SnsTransfer(n, to)
    \/ \E u \in Users, p \in {"vault", "authority"} :
          \E amount \in 1..wallet[u] : Deposit(u, n, p, amount)

Next == \E n \in Names : Environment(n) \/ \E u \in Users : Instruction(n, u)

Spec == Init /\ [][Next]_vars

(***************************************************************************)
(* Invariants                                                              *)
(***************************************************************************)

\* Every variable holds a value of its type.
TypeOK ==
    /\ sns \in [Names -> Keys]
    /\ live \in [Names -> SUBSET Accounts]
    /\ vault \in [Names -> Vaults]
    /\ policy \in [Names -> Policies]
    /\ lamports \in [Names -> [Accounts -> Nat]]
    /\ wallet \in [Users -> Nat]

\* The accounts of one name live and die together: vault and policy always,
\* the authority never without its vault; a vault that exists has an owner,
\* and a program account is never below the rent minimum (the runtime would
\* have refused the transaction).  Three handlers and a runtime rule share
\* this; it is what makes a second initialize_vault safe after close_vault.
AccountsCoupled ==
    \A n \in Names :
        /\ "vault" \in live[n] <=> "policy" \in live[n]
        /\ "authority" \in live[n] => "vault" \in live[n]
        /\ "vault" \in live[n] <=> vault[n] # NoVault
        /\ \A p \in live[n] : lamports[n][p] >= RentExempt

\* The flag a vault caches about another program's record is never stale in
\* the direction that matters: while domain_transferred is set, the SNS
\* record does name this vault's authority.  mark_domain_transferred reads the
\* record, reclaim_domain and close_vault trust the flag.
FlagMeansCustody ==
    \A n \in Names : vault[n].domain_transferred => sns[n] = Authority(n)

\* A name in custody can be taken back by the owner of its vault: every account
\* and record reclaim_domain asks for is there.
DomainReclaimable ==
    \A n \in Names : vault[n].domain_transferred =>
        /\ ReclaimDomainAccounts(n, vault[n].owner)
        /\ sns[n] = Authority(n)

\* What arrives at the vault authority of a vault that exists can be withdrawn
\* by its owner, down to the rent minimum.
FundsWithdrawable ==
    \A n \in Names :
        ("vault" \in live[n] /\ lamports[n]["authority"] > RentExempt) =>
            /\ WithdrawDirectAccounts(n, vault[n].owner)
            /\ lamports[n]["authority"] - RentExempt <= Withdrawable(n)

(***************************************************************************)
(* Action properties                                                       *)
(***************************************************************************)

\* The owner of a vault that exists changes in one way: the key the SNS record
\* names takes it over (claim_vault), and the policy is reset in the same step.
OwnerFollowsRegistry ==
    [][\A n \in Names :
          (vault[n] # NoVault /\ vault'[n] # NoVault /\ vault'[n].owner # vault[n].owner)
          => /\ sns[n] = vault'[n].owner
             /\ policy'[n].destinations = {sns[n]}
             /\ policy'[n].policy_nonce > policy[n].policy_nonce]_vars

(***************************************************************************)
(* What the lifecycle promises about a name                                *)
(***************************************************************************)

\* The owner of a vault keeps the name, and holds it while the flag is set.
Keeper == [n \in Names |-> vault[n].owner]
Held   == [n \in Names |-> vault[n].domain_transferred]

Custody == INSTANCE DomainCustody WITH
             registered <- sns, keeper <- Keeper, held <- Held,
             Nobody <- NoUser, Custodian <- Authority

\* The program implements DomainCustody.  It says in particular that a name in
\* custody has one keeper until it is released: claim_vault has no guard on the
\* flag and relies on the SNS record naming a key that cannot sign, and
\* close_vault must not forget a name the vault still holds.
ImplementsCustody == Custody!Spec
=============================================================================
