--------------------------- MODULE VaultDelegation ---------------------------
(***************************************************************************)
(* The instructions of programs/hydentity/src/instructions that act on a   *)
(* vault without owning it: update_policy, deposit_to_umbra, add_delegate  *)
(* and revoke_delegate, composed with the vault lifecycle of               *)
(* HydentityProgram.  Delegate sessions are accounts derived from          *)
(* ["delegate", n, delegate]: they belong to the name, not to the vault or *)
(* its owner, and no lifecycle instruction mentions them.                  *)
(***************************************************************************)
EXTENDS HydentityProgram, Functions

CONSTANTS
    SettingsChoices,   \* settings a caller of update_policy may ask for
    MaxDestinations,   \* MAX_DESTINATIONS of constants.rs
    DustThreshold,     \* DUST_THRESHOLD_LAMPORTS of constants.rs
    MaxTime            \* bound of the clock

VARIABLES
    session,    \* session[n][d]: the DelegateSession account of d for name n
    umbra,      \* lamports in the Umbra pool
    now         \* Clock::unix_timestamp

delegationVars == <<session, umbra, now>>
allVars == <<vars, delegationVars>>

Permissions == {"update_policy", "deposit_umbra"}
Sessions    == [granted_by : Users, expires_at : 0..MaxTime + 1,
                permissions : SUBSET Permissions]
NoSession   == [granted_by |-> NoUser, expires_at |-> 0, permissions |-> {}]

ASSUME DelegationAssumption ==
    /\ SettingsChoices \subseteq Settings
    /\ MaxDestinations \in Nat \ {0}
    /\ DustThreshold \in Nat
    /\ MaxTime \in Nat

\* Keys have 32 bytes.
ASSUME KeysAreFinite == IsFiniteSet(Names) /\ IsFiniteSet(Users)

(***************************************************************************)
(* Guards                                                                  *)
(***************************************************************************)

\* DelegateSession::validate_permission.
ValidatePermission(s, permission) ==
    /\ now < s.expires_at
    /\ permission \in s.permissions

\* The owner, or a delegate whose session allows it.  Whoever granted the
\* session is not asked about.
Authorized(n, u, permission) ==
    \/ vault[n].owner = u
    \/ /\ session[n][u] # NoSession
       /\ ValidatePermission(session[n][u], permission)

\* PrivacyPolicy::validate.
Validate(settings, destinations) ==
    /\ settings.min_splits <= settings.max_splits
    /\ settings.min_delay <= settings.max_delay
    /\ Cardinality(destinations) <= MaxDestinations

(***************************************************************************)
(* Instructions                                                            *)
(***************************************************************************)

\* Mutant: the payer's balance is not looked at.
AddDelegateOnCredit(n, u, d) ==
    "vault" \in live[n] /\ vault[n].owner = u /\ session[n][d] = NoSession

\* A delegate's session is created at the owner's expense.  `init` refuses a
\* delegate that has a session, expired or not.
AddDelegateAccounts(n, u, d) ==
    /\ "vault" \in live[n]
    /\ vault[n].owner = u
    /\ session[n][d] = NoSession
    /\ wallet[u] >= RentExempt

AddDelegate(n, u, d, expires_at, permissions) ==
    /\ AddDelegateAccounts(n, u, d)
    /\ expires_at > now
    /\ session' = [session EXCEPT ![n][d] =
                     [granted_by |-> u, expires_at |-> expires_at,
                      permissions |-> permissions]]
    /\ wallet' = [wallet EXCEPT ![u] = @ - RentExempt]
    /\ UNCHANGED <<sns, live, vault, policy, lamports, umbra, now>>

\* Mutant: clears the session and lets its rent go.
RevokeDelegateWithoutRefund(n, u, d) ==
    /\ "vault" \in live[n]
    /\ vault[n].owner = u
    /\ session[n][d] # NoSession
    /\ session' = [session EXCEPT ![n][d] = NoSession]
    /\ UNCHANGED <<vars, umbra, now>>

\* The rent goes to the owner of the day, whoever paid it.
RevokeDelegate(n, u, d) ==
    /\ "vault" \in live[n]
    /\ vault[n].owner = u
    /\ session[n][d] # NoSession
    /\ session' = [session EXCEPT ![n][d] = NoSession]
    /\ wallet' = [wallet EXCEPT ![u] = @ + RentExempt]
    /\ UNCHANGED <<sns, live, vault, policy, lamports, umbra, now>>

\* Mutant: stores the new fields without validating them.
UpdatePolicyUnchecked(n, u, settings, destinations) ==
    /\ {"vault", "policy"} \subseteq live[n]
    /\ Authorized(n, u, "update_policy")
    /\ policy[n].policy_nonce < MaxNonce
    /\ policy' = [policy EXCEPT ![n] =
                    [settings |-> settings, destinations |-> destinations,
                     policy_nonce |-> policy[n].policy_nonce + 1]]
    /\ UNCHANGED <<sns, live, vault, lamports, wallet, delegationVars>>

\* Every parameter is optional; leaving one out asks for its old value.
UpdatePolicy(n, u, settings, destinations) ==
    /\ {"vault", "policy"} \subseteq live[n]
    /\ Authorized(n, u, "update_policy")
    /\ Validate(settings, destinations)
    /\ policy[n].policy_nonce < MaxNonce
    /\ policy' = [policy EXCEPT ![n] =
                    [settings |-> settings, destinations |-> destinations,
                     policy_nonce |-> policy[n].policy_nonce + 1]]
    /\ UNCHANGED <<sns, live, vault, lamports, wallet, delegationVars>>

\* What the vault account holds above its rent; what the vault authority holds,
\* where n.sol resolves, is not looked at.
UmbraSpendable(n) == lamports[n]["vault"] - RentExempt

\* The SOL branch.
DepositToUmbra(n, u, amount) ==
    /\ Accounts \subseteq live[n]
    /\ policy[n].settings.enabled
    /\ policy[n].settings.privacy_mode # "Direct"
    /\ Authorized(n, u, "deposit_umbra")
    /\ amount >= DustThreshold
    /\ amount <= UmbraSpendable(n)
    /\ lamports' = [lamports EXCEPT ![n]["vault"] = @ - amount]
    /\ umbra' = umbra + amount
    /\ UNCHANGED <<sns, live, vault, policy, wallet, session, now>>

Tick ==
    /\ now < MaxTime
    /\ now' = now + 1
    /\ UNCHANGED <<vars, session, umbra>>

-----------------------------------------------------------------------------
DelegationInit ==
    /\ Init
    /\ session = [n \in Names |-> [d \in Users |-> NoSession]]
    /\ umbra = 0
    /\ now = 0

DelegationInstruction(n, u) ==
    \/ \E d \in Users, expires_at \in 1..MaxTime + 1, p \in SUBSET Permissions :
          AddDelegate(n, u, d, expires_at, p)
    \/ \E d \in Users : RevokeDelegate(n, u, d)
    \/ \E settings \in SettingsChoices, destinations \in SUBSET Users :
          UpdatePolicy(n, u, settings, destinations)
    \/ \E amount \in 1..lamports[n]["vault"] : DepositToUmbra(n, u, amount)

DelegationNext ==
    \/ Next /\ UNCHANGED delegationVars
    \/ \E n \in Names, u \in Users : DelegationInstruction(n, u)
    \/ Tick

DelegationSpec == DelegationInit /\ [][DelegationNext]_allVars

-----------------------------------------------------------------------------
(***************************************************************************)
(* Properties                                                              *)
(***************************************************************************)

\* Every variable holds a value of its type.
DelegationTypeOK ==
    /\ TypeOK
    /\ session \in [Names -> [Users -> Sessions \cup {NoSession}]]
    /\ umbra \in Nat
    /\ now \in 0..MaxTime

\* A stored policy is always one that validates, although update_policy writes
\* its optional fields one by one and validates afterwards, and claim_vault
\* changes a policy without validating it.
PolicyValid ==
    \A n \in Names : "policy" \in live[n] =>
        Validate(policy[n].settings, policy[n].destinations)

\* The delegate sessions that exist.
SessionAccounts == {nd \in Names \X Users : session[nd[1]][nd[2]] # NoSession}

\* Lamports in all wallets, at the addresses of all names, in the Umbra pool and in the
\* sessions, which hold their rent.
Supply ==
    SumFunction(wallet) + SumFunction([n \in Names |-> SumFunction(lamports[n])])
    + umbra + RentExempt * Cardinality(SessionAccounts)

\* No instruction creates or destroys lamports, revoke_delegate included, which
\* pays the owner of the day what another owner may have paid in.
LamportsConserved == Supply = SumFunction(InitialWallet)

\* policy_nonce tells two versions of a policy apart: while the vault exists, no
\* step changes the policy and keeps or lowers the nonce.
NonceCountsChanges ==
    [][\A n \in Names :
          ("policy" \in live[n] /\ "policy" \in live'[n] /\ policy'[n] # policy[n])
          => policy'[n].policy_nonce > policy[n].policy_nonce]_allVars
=============================================================================
