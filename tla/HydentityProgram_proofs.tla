----------------------- MODULE HydentityProgram_proofs -----------------------
(***************************************************************************)
(* Proofs about HydentityProgram and about VaultDelegation, its            *)
(* composition with delegates, for every set of names and users, every     *)
(* rent minimum, every starting balance, every clock and, unless a theorem *)
(* says otherwise, both versions of withdraw_direct.                       *)
(*                                                                         *)
(* The inductive invariant is TypeOK /\ AccountsCoupled /\                 *)
(* FlagMeansCustody; each of its parts is kept by every step (StepTyped,   *)
(* StepCoupled, StepFlagged), and so by the composition, whose other steps *)
(* leave what they speak of alone.                                         *)
(***************************************************************************)
EXTENDS VaultDelegation, SumTheorems

-----------------------------------------------------------------------------
(***************************************************************************)
(* Facts about single definitions                                          *)
(***************************************************************************)

\* Topping an address up takes a natural number and reaches the rent minimum.
LEMMA MissingIsEnough ==
    ASSUME NEW balance \in Nat
    PROVE  /\ Missing(balance) \in Nat
           /\ balance + Missing(balance) >= RentExempt
BY NumbersAssumption DEF Missing

\* Creating the three accounts of a name costs a natural number of lamports.
LEMMA InitCostIsNat ==
    ASSUME TypeOK, NEW n \in Names
    PROVE  InitCost(n) \in Nat
<1>1. \A p \in Accounts : lamports[n][p] \in Nat
  BY DEF TypeOK
<1>2. \A p \in Accounts : Missing(lamports[n][p]) \in Nat
  BY <1>1, MissingIsEnough
<1>3. QED
  BY <1>2 DEF InitCost, Accounts

\* A vault with a user for an owner exists: it has both fields.
LEMMA OwnedVault ==
    ASSUME TypeOK, NEW n \in Names, vault[n].owner \in Users
    PROVE  vault[n] \in [owner : Users, domain_transferred : BOOLEAN]
BY KeysAssumption DEF TypeOK, Vaults, NoVault

\* The vault record that stands for a missing account has no user as its owner.
LEMMA NoVaultUnowned ==
    ASSUME NEW u \in Users, NEW b \in BOOLEAN
    PROVE  [owner |-> u, domain_transferred |-> b] # NoVault
BY KeysAssumption DEF NoVault

\* The policy initialize_vault writes, and the one that stands for a missing
\* account, are policies.
LEMMA DefaultPolicies ==
    ASSUME NEW u \in Users
    PROVE  /\ NoPolicy \in Policies
           /\ [settings |-> DefaultPolicy, destinations |-> {u}, policy_nonce |-> 0]
                 \in Policies
BY NumbersAssumption DEF Policies, NoPolicy

-----------------------------------------------------------------------------
(***************************************************************************)
(* Type correctness                                                        *)
(***************************************************************************)

\* No account lives at first.
LEMMA InitTyped == Init => TypeOK
<1> SUFFICES ASSUME Init PROVE TypeOK
  OBVIOUS
<1>1. NoVault \in Vaults /\ NoPolicy \in Policies
  BY NumbersAssumption DEF Vaults, NoPolicy, Policies
<1>2. QED
  BY <1>1, NumbersAssumption DEF Init, TypeOK, Keys, Accounts

\* Every instruction keeps the types.
LEMMA InstructionTyped ==
    ASSUME TypeOK, NEW n \in Names, NEW u \in Users, Instruction(n, u)
    PROVE  TypeOK'
<1> USE DEF TypeOK
<1>1. CASE InitializeVault(n, u)
  <2>1. InitCost(n) \in Nat
    BY InitCostIsNat
  <2>2. wallet' \in [Users -> Nat]
    BY <1>1, <2>1 DEF InitializeVault, InitializeVaultAccounts
  <2>3. \A p \in Accounts : lamports[n][p] + Missing(lamports[n][p]) \in Nat
    <3> TAKE p \in Accounts
    <3>1. lamports[n][p] \in Nat
      OBVIOUS
    <3>2. QED
      BY <3>1, MissingIsEnough
  <2>4. lamports' \in [Names -> [Accounts -> Nat]]
    BY <1>1, <2>3 DEF InitializeVault
  <2>5. vault' \in [Names -> Vaults]
    BY <1>1 DEF InitializeVault, Vaults
  <2>6. policy' \in [Names -> Policies]
    BY <1>1, DefaultPolicies DEF InitializeVault
  <2>7. QED
    BY <1>1, <2>2, <2>4, <2>5, <2>6 DEF InitializeVault
<1>2. CASE MarkDomainTransferred(n, u)
  <2>1. vault[n] \in [owner : Users, domain_transferred : BOOLEAN]
    BY <1>2, OwnedVault DEF MarkDomainTransferred, MarkDomainTransferredAccounts
  <2>2. vault' \in [Names -> Vaults]
    BY <1>2, <2>1 DEF MarkDomainTransferred, Vaults
  <2>3. QED
    BY <1>2, <2>2 DEF MarkDomainTransferred
<1>3. ASSUME NEW destination \in Keys, ReclaimDomain(n, u, destination)
      PROVE  TypeOK'
  <2>1. vault[n] \in [owner : Users, domain_transferred : BOOLEAN]
    BY <1>3, OwnedVault DEF ReclaimDomain, ReclaimDomainAccounts
  <2>2. vault' \in [Names -> Vaults]
    BY <1>3, <2>1 DEF ReclaimDomain, Vaults
  <2>3. QED
    BY <1>3, <2>2 DEF ReclaimDomain
<1>4. CASE CloseVault(n, u)
  <2>1. vault' \in [Names -> Vaults]
    BY <1>4 DEF CloseVault, Vaults
  <2>2. policy' \in [Names -> Policies]
    BY <1>4, DefaultPolicies DEF CloseVault
  <2>3. wallet' \in [Users -> Nat]
    BY <1>4 DEF CloseVault, Accounts
  <2>4. QED
    BY <1>4, <2>1, <2>2, <2>3 DEF CloseVault
<1>5. CASE ClaimVault(n, u)
  <2>1. vault[n] \in [owner : Users \cup {NoUser}, domain_transferred : BOOLEAN]
    <3>1. vault[n] \in Vaults
      OBVIOUS
    <3>2. CASE vault[n] \in [owner : Users, domain_transferred : BOOLEAN]
      BY <3>2
    <3>3. CASE vault[n] = NoVault
      BY <3>3 DEF NoVault
    <3>4. QED
      BY <3>1, <3>2, <3>3 DEF Vaults
  <2>2. [vault[n] EXCEPT !.owner = u] \in [owner : Users, domain_transferred : BOOLEAN]
    BY <2>1
  <2>3. vault' \in [Names -> Vaults]
    BY <1>5, <2>2 DEF ClaimVault, Vaults
  <2>4. policy[n] \in Policies
    OBVIOUS
  <2>5. policy[n].policy_nonce + 1 \in 0..MaxNonce
    BY <1>5, <2>4, NumbersAssumption DEF ClaimVault, Policies
  <2>6. [policy[n] EXCEPT !.destinations = {u},
                          !.policy_nonce = policy[n].policy_nonce + 1] \in Policies
    BY <2>4, <2>5 DEF Policies
  <2>7. policy' \in [Names -> Policies]
    BY <1>5, <2>6 DEF ClaimVault
  <2>8. QED
    BY <1>5, <2>3, <2>7 DEF ClaimVault
<1>6. ASSUME NEW destination \in Users,
             NEW amount \in 0..lamports[n]["authority"],
             WithdrawDirect(n, u, destination, amount)
      PROVE  TypeOK'
  <2>1. lamports[n]["authority"] - amount \in Nat
    BY DEF Accounts
  <2>2. QED
    BY <1>6, <2>1 DEF WithdrawDirect, Accounts
<1>7. QED
  BY <1>1, <1>2, <1>3, <1>4, <1>5, <1>6 DEF Instruction

\* So does what happens outside the program.
LEMMA EnvironmentTyped ==
    ASSUME TypeOK, NEW n \in Names, Environment(n)
    PROVE  TypeOK'
<1>1. ASSUME NEW to \in Keys, SnsTransfer(n, to)
      PROVE  TypeOK'
  BY <1>1 DEF SnsTransfer, TypeOK
<1>2. ASSUME NEW u \in Users, NEW p \in {"vault", "authority"},
             NEW amount \in 1..wallet[u], Deposit(u, n, p, amount)
      PROVE  TypeOK'
  BY <1>2 DEF Deposit, TypeOK, Accounts
<1>3. QED
  BY <1>1, <1>2 DEF Environment

\* Every step keeps the types.
LEMMA StepTyped == TypeOK /\ [Next]_vars => TypeOK'
<1> SUFFICES ASSUME TypeOK, [Next]_vars PROVE TypeOK'
  OBVIOUS
<1>1. CASE Next
  BY <1>1, InstructionTyped, EnvironmentTyped DEF Next
<1>2. CASE UNCHANGED vars
  BY <1>2 DEF vars, TypeOK
<1>3. QED
  BY <1>1, <1>2

\* Every reachable state is well typed; in particular no balance is negative and
\* policy_nonce never passes its width, in any of the handlers.
THEOREM TypeCorrect == Spec => []TypeOK
  BY InitTyped, StepTyped, PTL DEF Spec

-----------------------------------------------------------------------------
(***************************************************************************)
(* The accounts of a name                                                  *)
(***************************************************************************)

\* AccountsCoupled speaks of one name at a time.
Coupled(n) ==
    /\ "vault" \in live[n] <=> "policy" \in live[n]
    /\ "authority" \in live[n] => "vault" \in live[n]
    /\ "vault" \in live[n] <=> vault[n] # NoVault
    /\ \A p \in live[n] : lamports[n][p] >= RentExempt

\* A step about another name that leaves n's accounts alone keeps them coupled.
LEMMA CoupledFrame ==
    ASSUME NEW n \in Names, Coupled(n),
           live'[n] = live[n], vault'[n] = vault[n], lamports'[n] = lamports[n]
    PROVE  Coupled(n)'
BY DEF Coupled

\* An instruction about n keeps the accounts of n coupled.
LEMMA InstructionCoupled ==
    ASSUME TypeOK, NEW n \in Names, NEW u \in Users, Coupled(n), Instruction(n, u)
    PROVE  Coupled(n)'
<1> USE DEF Coupled
<1>1. CASE InitializeVault(n, u)
  <2>1. live'[n] = Accounts /\ vault'[n] # NoVault
    BY <1>1, NoVaultUnowned DEF InitializeVault, TypeOK
  <2>2. ASSUME NEW p \in Accounts PROVE lamports'[n][p] >= RentExempt
    <3>1. lamports[n][p] \in Nat
      BY DEF TypeOK
    <3>2. lamports'[n][p] = lamports[n][p] + Missing(lamports[n][p])
      BY <1>1 DEF InitializeVault, TypeOK
    <3>3. QED
      BY <3>1, <3>2, MissingIsEnough
  <2>3. QED
    BY <2>1, <2>2 DEF Accounts
<1>2. CASE MarkDomainTransferred(n, u)
  <2>1. vault[n] \in [owner : Users, domain_transferred : BOOLEAN]
    BY <1>2, OwnedVault DEF MarkDomainTransferred, MarkDomainTransferredAccounts
  <2>2. vault'[n] = [owner |-> vault[n].owner, domain_transferred |-> TRUE]
    BY <1>2, <2>1 DEF MarkDomainTransferred, TypeOK
  <2>3. vault'[n] # NoVault
    BY <2>1, <2>2, NoVaultUnowned
  <2>4. QED
    BY <1>2, <2>3 DEF MarkDomainTransferred, MarkDomainTransferredAccounts
<1>3. ASSUME NEW destination \in Keys, ReclaimDomain(n, u, destination)
      PROVE  Coupled(n)'
  <2>1. vault[n] \in [owner : Users, domain_transferred : BOOLEAN]
    BY <1>3, OwnedVault DEF ReclaimDomain, ReclaimDomainAccounts
  <2>2. vault'[n] = [owner |-> vault[n].owner, domain_transferred |-> FALSE]
    BY <1>3, <2>1 DEF ReclaimDomain, TypeOK
  <2>3. vault'[n] # NoVault
    BY <2>1, <2>2, NoVaultUnowned
  <2>4. QED
    BY <1>3, <2>3 DEF ReclaimDomain, ReclaimDomainAccounts
<1>4. CASE CloseVault(n, u)
  BY <1>4 DEF CloseVault, TypeOK
<1>5. CASE ClaimVault(n, u)
  <2>1. vault'[n].owner = u
    BY <1>5, vault[n] \in Vaults DEF ClaimVault, TypeOK, Vaults, NoVault
  <2>2. vault'[n] # NoVault
    BY <2>1, KeysAssumption DEF NoVault
  <2>3. QED
    BY <1>5, <2>2 DEF ClaimVault, ClaimVaultAccounts
<1>6. ASSUME NEW destination \in Users,
             NEW amount \in 0..lamports[n]["authority"],
             WithdrawDirect(n, u, destination, amount)
      PROVE  Coupled(n)'
  <2> DEFINE rest == lamports[n]["authority"] - amount
  <2>1. rest = 0 \/ rest >= RentExempt
    BY <1>6 DEF WithdrawDirect, RentState
  <2>2. lamports'[n] = [lamports[n] EXCEPT !["authority"] = rest]
    BY <1>6 DEF WithdrawDirect, TypeOK
  <2>3. lamports[n] \in [Accounts -> Nat] /\ live[n] \subseteq Accounts
    BY DEF TypeOK
  <2>4. CASE rest = 0
    <3>1. live'[n] = live[n] \ {"authority"}
      BY <1>6, <2>4 DEF WithdrawDirect, TypeOK
    <3>2. QED
      BY <1>6, <2>2, <2>3, <3>1 DEF WithdrawDirect
  <2>5. CASE rest # 0
    <3>1. live'[n] = live[n]
      BY <1>6, <2>5 DEF WithdrawDirect, TypeOK
    <3>2. QED
      BY <1>6, <2>1, <2>2, <2>3, <2>5, <3>1 DEF WithdrawDirect, Accounts
  <2>6. QED
    BY <2>4, <2>5
<1>7. QED
  BY <1>1, <1>2, <1>3, <1>4, <1>5, <1>6 DEF Instruction

\* So does a step of another program.
LEMMA EnvironmentCoupled ==
    ASSUME TypeOK, NEW n \in Names, Coupled(n), Environment(n)
    PROVE  Coupled(n)'
<1>1. ASSUME NEW to \in Keys, SnsTransfer(n, to)
      PROVE  Coupled(n)'
  BY <1>1 DEF SnsTransfer, Coupled
<1>2. ASSUME NEW u \in Users, NEW q \in {"vault", "authority"},
             NEW amount \in 1..wallet[u], Deposit(u, n, q, amount)
      PROVE  Coupled(n)'
  <2>1. lamports[n] \in [Accounts -> Nat] /\ live[n] \subseteq Accounts /\ wallet[u] \in Nat
    BY DEF TypeOK
  <2>2. lamports'[n] = [lamports[n] EXCEPT ![q] = lamports[n][q] + amount]
    BY <1>2 DEF Deposit, TypeOK
  <2>3. ASSUME NEW p \in live[n] PROVE lamports'[n][p] >= RentExempt
    <3>1. lamports[n][p] >= RentExempt
      BY DEF Coupled
    <3>2. QED
      BY <2>1, <2>2, <3>1, NumbersAssumption DEF Accounts
  <2>4. QED
    BY <1>2, <2>3 DEF Deposit, Coupled
<1>3. QED
  BY <1>1, <1>2 DEF Environment

\* A step about n changes the accounts and the SNS record of no other name.
LEMMA OneNameAtATime ==
    ASSUME TypeOK, NEW n \in Names, NEW m \in Names, m # n,
           Environment(n) \/ \E u \in Users : Instruction(n, u)
    PROVE  /\ live'[m] = live[m] /\ vault'[m] = vault[m]
           /\ lamports'[m] = lamports[m] /\ sns'[m] = sns[m]
           /\ policy'[m] = policy[m]
<1>1. CASE Environment(n)
  BY <1>1 DEF Environment, SnsTransfer, Deposit, TypeOK
<1>2. ASSUME NEW u \in Users, Instruction(n, u)
      PROVE  /\ live'[m] = live[m] /\ vault'[m] = vault[m]
             /\ lamports'[m] = lamports[m] /\ sns'[m] = sns[m]
             /\ policy'[m] = policy[m]
  BY <1>2 DEF Instruction, InitializeVault, MarkDomainTransferred, ReclaimDomain,
              CloseVault, ClaimVault, WithdrawDirect, TypeOK
<1>3. QED
  BY <1>1, <1>2

\* Every step keeps the accounts coupled.
LEMMA StepCoupled == TypeOK /\ AccountsCoupled /\ [Next]_vars => AccountsCoupled'
<1> SUFFICES ASSUME TypeOK, AccountsCoupled, [Next]_vars, NEW m \in Names
             PROVE  Coupled(m)'
  BY DEF AccountsCoupled, Coupled
<1>1. Coupled(m)
  BY DEF AccountsCoupled, Coupled
<1>2. ASSUME NEW n \in Names, Environment(n) \/ \E u \in Users : Instruction(n, u)
      PROVE  Coupled(m)'
  <2>1. CASE m = n
    BY <1>1, <1>2, <2>1, InstructionCoupled, EnvironmentCoupled
  <2>2. CASE m # n
    BY <1>1, <1>2, <2>2, OneNameAtATime, CoupledFrame
  <2>3. QED
    BY <2>1, <2>2
<1>3. CASE UNCHANGED vars
  BY <1>1, <1>3, CoupledFrame DEF vars
<1>4. QED
  BY <1>2, <1>3 DEF Next

\* The accounts of every name live and die together, whatever the interleaving
\* of instructions, transfers and deposits.
THEOREM AccountsStayCoupled == Spec => []AccountsCoupled
<1>1. Init => AccountsCoupled
  BY DEF Init, AccountsCoupled
<1>2. QED
  BY <1>1, StepCoupled, TypeCorrect, PTL DEF Spec

-----------------------------------------------------------------------------
(***************************************************************************)
(* The flag of the vault and the owner field of the SNS record             *)
(***************************************************************************)

\* FlagMeansCustody for one name.
Flagged(n) == vault[n].domain_transferred => sns[n] = Authority(n)

\* A flagged name is in the vault's keeping after any instruction.
LEMMA InstructionFlagged ==
    ASSUME TypeOK, NEW n \in Names, NEW u \in Users, Flagged(n), Instruction(n, u)
    PROVE  Flagged(n)'
<1> USE DEF Flagged, TypeOK
<1>1. CASE InitializeVault(n, u)
  BY <1>1 DEF InitializeVault
<1>2. CASE MarkDomainTransferred(n, u)
  BY <1>2 DEF MarkDomainTransferred
<1>3. ASSUME NEW destination \in Keys, ReclaimDomain(n, u, destination)
      PROVE  Flagged(n)'
  <2>1. vault[n] \in [owner : Users, domain_transferred : BOOLEAN]
    BY <1>3, OwnedVault DEF ReclaimDomain, ReclaimDomainAccounts
  <2>2. ~vault'[n].domain_transferred
    BY <1>3, <2>1 DEF ReclaimDomain
  <2>3. QED
    BY <2>2
<1>4. CASE CloseVault(n, u)
  BY <1>4 DEF CloseVault, NoVault
<1>5. CASE ClaimVault(n, u)
  <2>1. ~vault[n].domain_transferred
    BY <1>5, KeysAssumption DEF ClaimVault
  <2>2. vault[n] \in Vaults
    OBVIOUS
  <2>3. vault'[n].domain_transferred = vault[n].domain_transferred
    BY <1>5, <2>2 DEF ClaimVault, Vaults, NoVault
  <2>4. QED
    BY <2>1, <2>3
<1>6. ASSUME NEW destination \in Users,
             NEW amount \in 0..lamports[n]["authority"],
             WithdrawDirect(n, u, destination, amount)
      PROVE  Flagged(n)'
  BY <1>6 DEF WithdrawDirect
<1>7. QED
  BY <1>1, <1>2, <1>3, <1>4, <1>5, <1>6 DEF Instruction

\* A name in custody is registered to a key that cannot sign an SNS transfer.
LEMMA EnvironmentFlagged ==
    ASSUME TypeOK, NEW n \in Names, Flagged(n), Environment(n)
    PROVE  Flagged(n)'
<1>1. ASSUME NEW to \in Keys, SnsTransfer(n, to)
      PROVE  Flagged(n)'
  BY <1>1, KeysAssumption DEF SnsTransfer, Flagged
<1>2. ASSUME NEW u \in Users, NEW p \in {"vault", "authority"},
             NEW amount \in 1..wallet[u], Deposit(u, n, p, amount)
      PROVE  Flagged(n)'
  BY <1>2 DEF Deposit, Flagged
<1>3. QED
  BY <1>1, <1>2 DEF Environment

\* Every step keeps the flags true.
LEMMA StepFlagged == TypeOK /\ FlagMeansCustody /\ [Next]_vars => FlagMeansCustody'
<1> SUFFICES ASSUME TypeOK, FlagMeansCustody, [Next]_vars, NEW m \in Names
             PROVE  Flagged(m)'
  BY DEF FlagMeansCustody, Flagged
<1>1. Flagged(m)
  BY DEF FlagMeansCustody, Flagged
<1>2. ASSUME NEW n \in Names, Environment(n) \/ \E u \in Users : Instruction(n, u)
      PROVE  Flagged(m)'
  <2>1. CASE m = n
    BY <1>1, <1>2, <2>1, InstructionFlagged, EnvironmentFlagged
  <2>2. CASE m # n
    BY <1>1, <1>2, <2>2, OneNameAtATime DEF Flagged
  <2>3. QED
    BY <2>1, <2>2
<1>3. CASE UNCHANGED vars
  BY <1>1, <1>3 DEF vars, Flagged
<1>4. QED
  BY <1>2, <1>3 DEF Next

\* While domain_transferred is set the SNS record names the vault authority,
\* although no handler but mark_domain_transferred ever compares the two.
THEOREM FlagIsNeverStale == Spec => []FlagMeansCustody
<1>1. Init => FlagMeansCustody
  BY DEF Init, FlagMeansCustody, NoVault
<1>2. QED
  BY <1>1, StepFlagged, TypeCorrect, PTL DEF Spec

-----------------------------------------------------------------------------
(***************************************************************************)
(* Who takes a vault over                                                  *)
(***************************************************************************)

\* OwnerFollowsRegistry for one name.
Takeover(n) ==
    (vault[n] # NoVault /\ vault'[n] # NoVault /\ vault'[n].owner # vault[n].owner)
    => /\ sns[n] = vault'[n].owner
       /\ policy'[n].destinations = {sns[n]}
       /\ policy'[n].policy_nonce > policy[n].policy_nonce

\* After an instruction that changes a vault's owner the name is the new owner's, and the policy
\* pays nobody else.
LEMMA InstructionTakeover ==
    ASSUME TypeOK, AccountsCoupled, NEW n \in Names, NEW u \in Users, Instruction(n, u)
    PROVE  Takeover(n)
<1> USE DEF Takeover, TypeOK
<1>1. CASE InitializeVault(n, u)
  BY <1>1 DEF InitializeVault, InitializeVaultAccounts, AccountsCoupled
<1>2. CASE MarkDomainTransferred(n, u)
  <2>1. vault[n] \in [owner : Users, domain_transferred : BOOLEAN]
    BY <1>2, OwnedVault DEF MarkDomainTransferred, MarkDomainTransferredAccounts
  <2>2. QED
    BY <1>2, <2>1 DEF MarkDomainTransferred
<1>3. ASSUME NEW destination \in Keys, ReclaimDomain(n, u, destination)
      PROVE  Takeover(n)
  <2>1. vault[n] \in [owner : Users, domain_transferred : BOOLEAN]
    BY <1>3, OwnedVault DEF ReclaimDomain, ReclaimDomainAccounts
  <2>2. QED
    BY <1>3, <2>1 DEF ReclaimDomain
<1>4. CASE CloseVault(n, u)
  BY <1>4 DEF CloseVault
<1>5. CASE ClaimVault(n, u)
  <2>1. vault[n] \in Vaults /\ policy[n] \in Policies
    OBVIOUS
  <2>2. vault'[n].owner = u
    BY <1>5, <2>1 DEF ClaimVault, Vaults, NoVault
  <2>3. policy'[n] = [policy[n] EXCEPT !.destinations = {u},
                         !.policy_nonce = policy[n].policy_nonce + 1]
    BY <1>5 DEF ClaimVault
  <2>4. /\ policy'[n].destinations = {u}
        /\ policy'[n].policy_nonce = policy[n].policy_nonce + 1
    BY <2>1, <2>3 DEF Policies
  <2>5. policy[n].policy_nonce \in Int
    BY <2>1 DEF Policies
  <2>6. QED
    BY <1>5, <2>2, <2>4, <2>5 DEF ClaimVault
<1>6. ASSUME NEW destination \in Users,
             NEW amount \in 0..lamports[n]["authority"],
             WithdrawDirect(n, u, destination, amount)
      PROVE  Takeover(n)
  BY <1>6 DEF WithdrawDirect
<1>7. QED
  BY <1>1, <1>2, <1>3, <1>4, <1>5, <1>6 DEF Instruction

\* A vault that exists changes hands only to the key the SNS record names, with
\* the policy reset and its nonce raised in the same step.
THEOREM VaultFollowsRegistry == Spec => OwnerFollowsRegistry
<1>1. TypeOK /\ AccountsCoupled /\ [Next]_vars
        => [\A n \in Names :
              (vault[n] # NoVault /\ vault'[n] # NoVault
                 /\ vault'[n].owner # vault[n].owner)
              => /\ sns[n] = vault'[n].owner
                 /\ policy'[n].destinations = {sns[n]}
                 /\ policy'[n].policy_nonce > policy[n].policy_nonce]_vars
  <2> SUFFICES ASSUME TypeOK, AccountsCoupled, Next, NEW m \in Names
               PROVE  Takeover(m)
    BY DEF Takeover
  <2>1. PICK n \in Names : Environment(n) \/ \E u \in Users : Instruction(n, u)
    BY DEF Next
  <2>2. CASE m # n
    BY <2>1, <2>2, OneNameAtATime DEF Takeover
  <2>3. CASE m = n /\ Environment(n)
    BY <2>3 DEF Environment, SnsTransfer, Deposit, Takeover
  <2>4. CASE m = n /\ \E u \in Users : Instruction(n, u)
    BY <2>4, InstructionTakeover
  <2>5. QED
    BY <2>1, <2>2, <2>3, <2>4
<1>2. QED
  BY <1>1, TypeCorrect, AccountsStayCoupled, PTL DEF Spec, OwnerFollowsRegistry

-----------------------------------------------------------------------------
(***************************************************************************)
(* The version of withdraw_direct that reserves the rent                   *)
(***************************************************************************)

\* A vault that exists has its authority.
AuthorityStays == \A n \in Names : "vault" \in live[n] => "authority" \in live[n]

\* While rent is reserved, a vault that is live after an instruction has its authority.
LEMMA ReservedRentKeepsAuthority ==
    ASSUME ReservesRent, TypeOK, AuthorityStays,
           NEW n \in Names, NEW u \in Users, Instruction(n, u)
    PROVE  "vault" \in live'[n] => "authority" \in live'[n]
<1> USE DEF AuthorityStays, TypeOK
<1>1. CASE InitializeVault(n, u)
  BY <1>1 DEF InitializeVault, Accounts
<1>2. CASE CloseVault(n, u)
  BY <1>2 DEF CloseVault
<1>3. ASSUME NEW destination \in Users,
             NEW amount \in 0..lamports[n]["authority"],
             WithdrawDirect(n, u, destination, amount)
      PROVE  "vault" \in live'[n] => "authority" \in live'[n]
  <2>1. lamports[n]["authority"] \in Nat
    BY DEF Accounts
  <2>2. amount <= lamports[n]["authority"] - RentExempt
    BY <1>3 DEF WithdrawDirect, Withdrawable
  <2>3. lamports[n]["authority"] - amount # 0
    BY <2>1, <2>2, NumbersAssumption
  <2>4. live'[n] = live[n]
    BY <1>3, <2>3 DEF WithdrawDirect
  <2>5. QED
    BY <2>4
<1>4. CASE live' = live
  BY <1>4
<1>5. QED
  BY <1>1, <1>2, <1>3, <1>4
  DEF Instruction, MarkDomainTransferred, ReclaimDomain, ClaimVault

\* So it has after any step.
LEMMA StepKeepsAuthority ==
    ASSUME ReservesRent
    PROVE  TypeOK /\ AuthorityStays /\ [Next]_vars => AuthorityStays'
<1> SUFFICES ASSUME TypeOK, AuthorityStays, [Next]_vars,
                    NEW m \in Names, "vault" \in live'[m]
             PROVE  "authority" \in live'[m]
  BY DEF AuthorityStays
<1>1. ASSUME NEW n \in Names, Environment(n) \/ \E u \in Users : Instruction(n, u)
      PROVE  "authority" \in live'[m]
  <2>1. CASE m # n
    BY <1>1, <2>1, OneNameAtATime DEF AuthorityStays
  <2>2. CASE m = n /\ Environment(n)
    BY <2>2 DEF Environment, SnsTransfer, Deposit, AuthorityStays
  <2>3. CASE m = n /\ \E u \in Users : Instruction(n, u)
    BY <2>3, ReservedRentKeepsAuthority
  <2>4. QED
    BY <1>1, <2>1, <2>2, <2>3
<1>2. CASE UNCHANGED vars
  BY <1>2 DEF vars, AuthorityStays
<1>3. QED
  BY <1>1, <1>2 DEF Next

\* Then nothing is locked in.
LEMMA NothingLockedIn ==
    ASSUME ReservesRent, TypeOK, AccountsCoupled, FlagMeansCustody, AuthorityStays
    PROVE  DomainReclaimable /\ FundsWithdrawable
<1>1. ASSUME NEW n \in Names, vault[n].domain_transferred
      PROVE  ReclaimDomainAccounts(n, vault[n].owner) /\ sns[n] = Authority(n)
  <2>1. vault[n] # NoVault
    BY <1>1 DEF NoVault
  <2>2. QED
    BY <1>1, <2>1
    DEF AccountsCoupled, AuthorityStays, FlagMeansCustody, ReclaimDomainAccounts
<1>2. ASSUME NEW n \in Names, "vault" \in live[n]
      PROVE  /\ WithdrawDirectAccounts(n, vault[n].owner)
             /\ lamports[n]["authority"] - RentExempt <= Withdrawable(n)
  <2>1. lamports[n]["authority"] \in Nat
    BY DEF TypeOK, Accounts
  <2>2. QED
    BY <1>2, <2>1, NumbersAssumption
    DEF AuthorityStays, WithdrawDirectAccounts, Withdrawable
<1>3. QED
  BY <1>1, <1>2 DEF DomainReclaimable, FundsWithdrawable

\* With the handler of instructions/withdraw_direct.rs, a name in custody can
\* always be reclaimed and what the authority holds above the rent minimum can
\* always be withdrawn.  With the handler lib.rs dispatches neither holds: the
\* run drained_authority is a counterexample.
THEOREM ReservedRentNeverLocksOut ==
    ASSUME ReservesRent
    PROVE  Spec => [](DomainReclaimable /\ FundsWithdrawable)
<1>1. Init => AuthorityStays
  BY DEF Init, AuthorityStays
<1>2. QED
  BY <1>1, StepKeepsAuthority, NothingLockedIn, TypeCorrect, AccountsStayCoupled,
     FlagIsNeverStale, PTL
  DEF Spec

-----------------------------------------------------------------------------
(***************************************************************************)
(* The program implements DomainCustody                                    *)
(***************************************************************************)

\* Every step of the program about n is a step of DomainCustody about n, or
\* changes nothing DomainCustody sees.
LEMMA InstructionRefines ==
    ASSUME TypeOK, AccountsCoupled, FlagMeansCustody,
           NEW n \in Names, NEW u \in Users, Instruction(n, u)
    PROVE  Custody!Step(n) \/ UNCHANGED <<sns, Keeper, Held>>
<1> USE DEF TypeOK, Keeper, Held
<1>1. CASE InitializeVault(n, u)
  <2>1. vault[n] = NoVault
    BY <1>1 DEF InitializeVault, InitializeVaultAccounts, AccountsCoupled
  <2>2. /\ vault[n].domain_transferred = FALSE
        /\ vault'[n].domain_transferred = FALSE
        /\ vault'[n].owner = u
    BY <1>1, <2>1 DEF InitializeVault, NoVault
  <2>3. \A m \in Names : m # n => vault'[m] = vault[m]
    BY <1>1 DEF InitializeVault
  <2>4. ~Held[n]
    BY <2>2
  <2>5. Held' = Held
    BY <2>2, <2>3
  <2>6. Keeper' = [Keeper EXCEPT ![n] = u]
    BY <2>2, <2>3
  <2>7. Custody!Enter(n, u)
    BY <1>1, <2>4, <2>5, <2>6 DEF Custody!Enter, InitializeVault
  <2>8. QED
    BY <2>7 DEF Custody!Step
<1>2. CASE MarkDomainTransferred(n, u)
  <2>1. vault[n] \in [owner : Users, domain_transferred : BOOLEAN]
    BY <1>2, OwnedVault DEF MarkDomainTransferred, MarkDomainTransferredAccounts
  <2>2. /\ ~Held[n] /\ Keeper[n] # NoUser
        /\ Held' = [Held EXCEPT ![n] = TRUE]
        /\ Keeper' = Keeper
    BY <1>2, <2>1, KeysAssumption
    DEF MarkDomainTransferred, MarkDomainTransferredAccounts
  <2>3. Custody!Admit(n)
    BY <1>2, <2>2 DEF Custody!Admit, MarkDomainTransferred
  <2>4. QED
    BY <2>3 DEF Custody!Step
<1>3. ASSUME NEW destination \in Keys, ReclaimDomain(n, u, destination)
      PROVE  Custody!Step(n)
  <2>1. vault[n] \in [owner : Users, domain_transferred : BOOLEAN]
    BY <1>3, OwnedVault DEF ReclaimDomain, ReclaimDomainAccounts
  <2>2. /\ Held[n]
        /\ Held' = [Held EXCEPT ![n] = FALSE]
        /\ Keeper' = Keeper
    BY <1>3, <2>1 DEF ReclaimDomain, ReclaimDomainAccounts
  <2>3. Custody!Release(n, destination)
    BY <1>3, <2>2 DEF Custody!Release, ReclaimDomain
  <2>4. QED
    BY <2>3 DEF Custody!Step
<1>4. CASE CloseVault(n, u)
  <2>1. vault[n] \in [owner : Users, domain_transferred : BOOLEAN]
    BY <1>4, OwnedVault DEF CloseVault, CloseVaultAccounts
  <2>2. /\ vault[n].owner = u
        /\ vault[n].domain_transferred = FALSE
    BY <1>4, <2>1 DEF CloseVault, CloseVaultAccounts
  <2>3. vault'[n].domain_transferred = FALSE /\ vault'[n].owner = NoUser
    BY <1>4 DEF CloseVault, NoVault
  <2>4. \A m \in Names : m # n => vault'[m] = vault[m]
    BY <1>4 DEF CloseVault
  <2>5. ~Held[n] /\ Keeper[n] # NoUser
    BY <2>2, KeysAssumption
  <2>6. Held' = Held
    BY <2>2, <2>3, <2>4
  <2>7. Keeper' = [Keeper EXCEPT ![n] = NoUser]
    BY <2>3, <2>4
  <2>8. Custody!Leave(n)
    BY <1>4, <2>5, <2>6, <2>7 DEF Custody!Leave, CloseVault
  <2>9. QED
    BY <2>8 DEF Custody!Step
<1>5. CASE ClaimVault(n, u)
  <2>1. ~vault[n].domain_transferred
    BY <1>5, KeysAssumption DEF ClaimVault, FlagMeansCustody
  <2>2. vault[n] \in Vaults
    OBVIOUS
  <2>3. vault'[n].owner = u /\ ~vault'[n].domain_transferred
    BY <1>5, <2>1, <2>2 DEF ClaimVault, Vaults, NoVault
  <2>4. \A m \in Names : m # n => vault'[m] = vault[m]
    BY <1>5 DEF ClaimVault
  <2>5. Held' = Held
    BY <1>5, <2>1, <2>2, <2>4 DEF ClaimVault, Vaults, NoVault
  <2>6. Keeper' = [Keeper EXCEPT ![n] = u]
    BY <2>3, <2>4
  <2>7. Custody!Enter(n, u)
    BY <1>5, <2>1, <2>5, <2>6 DEF Custody!Enter, ClaimVault
  <2>8. QED
    BY <2>7 DEF Custody!Step
<1>6. ASSUME NEW destination \in Users,
             NEW amount \in 0..lamports[n]["authority"],
             WithdrawDirect(n, u, destination, amount)
      PROVE  UNCHANGED <<sns, Keeper, Held>>
  BY <1>6 DEF WithdrawDirect
<1>7. QED
  BY <1>1, <1>2, <1>3, <1>4, <1>5, <1>6 DEF Instruction

\* What happens outside the program is a step of the custody, or none of its concern.
LEMMA EnvironmentRefines ==
    ASSUME TypeOK, FlagMeansCustody, NEW n \in Names, Environment(n)
    PROVE  Custody!Step(n) \/ UNCHANGED <<sns, Keeper, Held>>
<1>1. ASSUME NEW to \in Keys, SnsTransfer(n, to)
      PROVE  Custody!Step(n)
  <2>1. ~Held[n] /\ Keeper' = Keeper /\ Held' = Held
    BY <1>1, KeysAssumption DEF SnsTransfer, Keeper, Held, FlagMeansCustody
  <2>2. Custody!Move(n, to)
    BY <1>1, <2>1 DEF SnsTransfer, Custody!Move
  <2>3. QED
    BY <2>2 DEF Custody!Step
<1>2. ASSUME NEW u \in Users, NEW p \in {"vault", "authority"},
             NEW amount \in 1..wallet[u], Deposit(u, n, p, amount)
      PROVE  UNCHANGED <<sns, Keeper, Held>>
  BY <1>2 DEF Deposit, Keeper, Held
<1>3. QED
  BY <1>1, <1>2 DEF Environment

\* Every step is one of the custody, or leaves it as it is.
LEMMA StepRefines ==
    TypeOK /\ AccountsCoupled /\ FlagMeansCustody /\ [Next]_vars
        => [Custody!Next]_(Custody!vars)
<1> SUFFICES ASSUME TypeOK, AccountsCoupled, FlagMeansCustody, [Next]_vars
             PROVE  Custody!Next \/ UNCHANGED <<sns, Keeper, Held>>
  BY DEF Custody!vars
<1>1. ASSUME NEW n \in Names, Environment(n)
      PROVE  Custody!Next \/ UNCHANGED <<sns, Keeper, Held>>
  BY <1>1, EnvironmentRefines DEF Custody!Next
<1>2. ASSUME NEW n \in Names, NEW u \in Users, Instruction(n, u)
      PROVE  Custody!Next \/ UNCHANGED <<sns, Keeper, Held>>
  BY <1>2, InstructionRefines DEF Custody!Next
<1>3. CASE UNCHANGED vars
  BY <1>3 DEF vars, Keeper, Held
<1>4. QED
  BY <1>1, <1>2, <1>3 DEF Next

\* The initial states correspond.
LEMMA InitRefines == Init => Custody!Init
  BY DEF Init, Custody!Init, Keeper, Held, NoVault

\* The program keeps the promise of DomainCustody for every name: one keeper
\* from the moment a name is admitted until it is released.
THEOREM ProgramImplementsCustody == Spec => ImplementsCustody
  BY InitRefines, StepRefines, TypeCorrect, AccountsStayCoupled, FlagIsNeverStale, PTL
  DEF Spec, Custody!Spec, ImplementsCustody

-----------------------------------------------------------------------------
(***************************************************************************)
(* The composition with delegates, policy updates and Umbra deposits       *)
(***************************************************************************)

\* Every record of a policy validates, that of a missing account among them.
PoliciesValid == \A n \in Names : Validate(policy[n].settings, policy[n].destinations)

-----------------------------------------------------------------------------
(***************************************************************************)
(* Types                                                                   *)
(***************************************************************************)
LEMMA DelegationInitTyped == DelegationInit => DelegationTypeOK
  BY InitTyped, DelegationAssumption DEF DelegationInit, DelegationTypeOK

\* A step of the lifecycle keeps the types of the composition.
LEMMA LifecycleTyped ==
    ASSUME DelegationTypeOK, Next, UNCHANGED delegationVars
    PROVE  DelegationTypeOK'
<1>1. TypeOK'
  BY InstructionTyped, EnvironmentTyped DEF DelegationTypeOK, Next
<1> QED
  BY <1>1 DEF DelegationTypeOK, delegationVars

\* add_delegate keeps the types,
LEMMA AddDelegateTyped ==
    ASSUME DelegationTypeOK, NEW n \in Names, NEW u \in Users, NEW d \in Users,
           NEW expires_at \in 1..MaxTime + 1, NEW permissions \in SUBSET Permissions,
           AddDelegate(n, u, d, expires_at, permissions)
    PROVE  DelegationTypeOK'
<1> DEFINE s == [granted_by |-> u, expires_at |-> expires_at, permissions |-> permissions]
<1>1. s \in Sessions
  BY DelegationAssumption DEF Sessions
<1> HIDE DEF s
<1>2. session' = [session EXCEPT ![n][d] = s]
  BY DEF AddDelegate, s
<1>3. session' \in [Names -> [Users -> Sessions \cup {NoSession}]]
  BY <1>1, <1>2 DEF DelegationTypeOK
<1>4. wallet' \in [Users -> Nat]
  BY NumbersAssumption DEF AddDelegate, AddDelegateAccounts, DelegationTypeOK, TypeOK
<1> QED
  BY <1>3, <1>4 DEF AddDelegate, DelegationTypeOK, TypeOK

\* and so do revoke_delegate,
LEMMA RevokeDelegateTyped ==
    ASSUME DelegationTypeOK, NEW n \in Names, NEW u \in Users, NEW d \in Users,
           RevokeDelegate(n, u, d)
    PROVE  DelegationTypeOK'
<1>1. session' \in [Names -> [Users -> Sessions \cup {NoSession}]]
  BY DEF RevokeDelegate, DelegationTypeOK
<1>2. wallet' \in [Users -> Nat]
  BY NumbersAssumption DEF RevokeDelegate, DelegationTypeOK, TypeOK
<1> QED
  BY <1>1, <1>2 DEF RevokeDelegate, DelegationTypeOK, TypeOK

\* update_policy,
LEMMA UpdatePolicyTyped ==
    ASSUME DelegationTypeOK, NEW n \in Names, NEW u \in Users,
           NEW settings \in SettingsChoices, NEW destinations \in SUBSET Users,
           UpdatePolicy(n, u, settings, destinations)
    PROVE  DelegationTypeOK'
<1>1. policy[n] \in Policies
  BY DEF DelegationTypeOK, TypeOK
<1>2. policy[n].policy_nonce + 1 \in 0..MaxNonce
  BY <1>1, NumbersAssumption DEF UpdatePolicy, Policies
<1>3. [settings |-> settings, destinations |-> destinations,
       policy_nonce |-> policy[n].policy_nonce + 1] \in Policies
  BY <1>2, DelegationAssumption DEF Policies
<1>4. policy' \in [Names -> Policies]
  BY <1>3 DEF UpdatePolicy, DelegationTypeOK, TypeOK
<1> QED
  BY <1>4 DEF UpdatePolicy, DelegationTypeOK, TypeOK, delegationVars

\* deposit_to_umbra
LEMMA DepositToUmbraTyped ==
    ASSUME DelegationTypeOK, NEW n \in Names, NEW u \in Users,
           NEW amount \in 1..lamports[n]["vault"], DepositToUmbra(n, u, amount)
    PROVE  DelegationTypeOK'
<1>1. lamports[n]["vault"] \in Nat
  BY DEF DelegationTypeOK, TypeOK, Accounts
<1>2. lamports[n]["vault"] - amount \in Nat /\ umbra + amount \in Nat
  BY <1>1 DEF DelegationTypeOK
<1> QED
  BY <1>2 DEF DepositToUmbra, DelegationTypeOK, TypeOK, Accounts

\* and the passing of time,
LEMMA TickTyped ==
    ASSUME DelegationTypeOK, Tick
    PROVE  DelegationTypeOK'
  BY DelegationAssumption DEF Tick, DelegationTypeOK, TypeOK, vars

\* hence every step.
LEMMA DelegationStepTyped == DelegationTypeOK /\ [DelegationNext]_allVars => DelegationTypeOK'
<1> SUFFICES ASSUME DelegationTypeOK, [DelegationNext]_allVars PROVE DelegationTypeOK'
  OBVIOUS
<1>1. ASSUME NEW n \in Names, NEW u \in Users, DelegationInstruction(n, u)
      PROVE  DelegationTypeOK'
  BY <1>1, AddDelegateTyped, RevokeDelegateTyped, UpdatePolicyTyped, DepositToUmbraTyped
     DEF DelegationInstruction
<1>2. CASE UNCHANGED allVars
  BY <1>2 DEF allVars, vars, delegationVars, DelegationTypeOK, TypeOK
<1> QED
  BY <1>1, <1>2, LifecycleTyped, TickTyped DEF DelegationNext

\* Every state of the composition is well typed: no balance falls below zero, and the nonce stays
\* in its width, with delegates acting between the instructions of owners.
THEOREM DelegationTypeCorrect == DelegationSpec => []DelegationTypeOK
  BY DelegationInitTyped, DelegationStepTyped, PTL DEF DelegationSpec

-----------------------------------------------------------------------------
(***************************************************************************)
(* Policies                                                                *)
(***************************************************************************)

\* The policy of a new vault and that of a missing account validate.
LEMMA DefaultsValidate ==
    /\ Validate(DefaultPolicy, {})
    /\ \A u : Validate(DefaultPolicy, {u})
<1>1. ASSUME NEW destinations, Cardinality(destinations) \in {0, 1}
      PROVE  Validate(DefaultPolicy, destinations)
  <2>1. Cardinality(destinations) <= MaxDestinations
    BY <1>1, DelegationAssumption
  <2> QED
    BY <2>1, NumbersAssumption, Zenon DEF Validate
<1>2. Cardinality({}) = 0
  BY FS_EmptySet
<1>3. ASSUME NEW u PROVE Cardinality({u}) = 1
  BY FS_Singleton
<1>4. Validate(DefaultPolicy, {})
  BY <1>1, <1>2
<1>5. ASSUME NEW u PROVE Validate(DefaultPolicy, {u})
  <2>1. Cardinality({u}) \in {0, 1}
    BY <1>3
  <2> QED
    BY <1>1, <2>1
<1> QED
  BY <1>4, <1>5, Zenon

\* What one step may do to a policy: nothing, start or end it with its vault, take new
\* destinations with a new nonce, or take validated fields with a new nonce.
PolicyStep(n) ==
    \/ policy'[n] = policy[n]
    \/ /\ live[n] = {} /\ \E u \in Users :
              policy'[n] = [settings |-> DefaultPolicy, destinations |-> {u}, policy_nonce |-> 0]
    \/ live'[n] = {} /\ policy'[n] = NoPolicy
    \/ /\ policy'[n].policy_nonce > policy[n].policy_nonce
       /\ \/ \E u \in Users : /\ policy'[n].destinations = {u}
                              /\ policy'[n].settings = policy[n].settings
          \/ Validate(policy'[n].settings, policy'[n].destinations)

\* An instruction of the lifecycle leaves a policy alone, makes the default one or closes it.
LEMMA LifecyclePolicyStep ==
    ASSUME DelegationTypeOK, NEW m \in Names, NEW u \in Users, Instruction(m, u),
           NEW n \in Names
    PROVE  PolicyStep(n)
<1>1. policy \in [Names -> Policies] /\ live \in [Names -> SUBSET Accounts]
  BY DEF DelegationTypeOK, TypeOK
<1>2. CASE InitializeVault(m, u)
  BY <1>1, <1>2 DEF InitializeVault, InitializeVaultAccounts, PolicyStep
<1>3. CASE CloseVault(m, u)
  BY <1>1, <1>3 DEF CloseVault, PolicyStep
<1>4. CASE ClaimVault(m, u)
  <2>1. policy[m] \in Policies /\ policy[m].policy_nonce \in Nat
    BY <1>1, NumbersAssumption DEF Policies
  <2> DEFINE p == [policy[m] EXCEPT !.destinations = {u},
                                    !.policy_nonce = policy[m].policy_nonce + 1]
  <2>2. /\ p.destinations = {u} /\ p.settings = policy[m].settings
        /\ p.policy_nonce = policy[m].policy_nonce + 1
    BY <2>1 DEF Policies
  <2>3. policy' = [policy EXCEPT ![m] = p]
    BY <1>4 DEF ClaimVault
  <2> HIDE DEF p
  <2>4. policy'[m] = p /\ (n # m => policy'[n] = policy[n])
    BY <1>1, <2>3
  <2> QED
    BY <2>1, <2>2, <2>4 DEF PolicyStep
<1>5. CASE MarkDomainTransferred(m, u)
  BY <1>5 DEF MarkDomainTransferred, PolicyStep
<1>6. ASSUME NEW destination, ReclaimDomain(m, u, destination)
      PROVE  PolicyStep(n)
  BY <1>6 DEF ReclaimDomain, PolicyStep
<1>7. ASSUME NEW destination, NEW amount, WithdrawDirect(m, u, destination, amount)
      PROVE  PolicyStep(n)
  BY <1>7 DEF WithdrawDirect, PolicyStep
<1> QED
  BY <1>2, <1>3, <1>4, <1>5, <1>6, <1>7 DEF Instruction

\* update_policy counts the nonce up with every change it makes.
LEMMA UpdatePolicyStep ==
    ASSUME DelegationTypeOK, NEW m \in Names, NEW u, NEW settings, NEW destinations,
           UpdatePolicy(m, u, settings, destinations), NEW n \in Names
    PROVE  PolicyStep(n)
<1>1. policy \in [Names -> Policies]
  BY DEF DelegationTypeOK, TypeOK
<1>2. policy[m].policy_nonce \in Nat
  BY <1>1, NumbersAssumption DEF Policies
<1> DEFINE p == [settings |-> settings, destinations |-> destinations,
                 policy_nonce |-> policy[m].policy_nonce + 1]
<1>3. /\ p.settings = settings /\ p.destinations = destinations
      /\ p.policy_nonce = policy[m].policy_nonce + 1
  OBVIOUS
<1>4. policy' = [policy EXCEPT ![m] = p] /\ Validate(settings, destinations)
  BY DEF UpdatePolicy
<1> HIDE DEF p
<1>5. policy'[m] = p /\ (n # m => policy'[n] = policy[n])
  BY <1>1, <1>4
<1> QED
  BY <1>2, <1>3, <1>4, <1>5 DEF PolicyStep

\* Those are all the steps that a policy takes.
LEMMA EveryPolicyStep ==
    ASSUME DelegationTypeOK, [DelegationNext]_allVars, NEW n \in Names
    PROVE  PolicyStep(n)
<1>1. CASE Next
  <2>1. ASSUME NEW m \in Names, Environment(m) PROVE PolicyStep(n)
    BY <2>1 DEF Environment, SnsTransfer, Deposit, PolicyStep
  <2> QED
    BY <1>1, <2>1, LifecyclePolicyStep DEF Next
<1>2. ASSUME NEW m \in Names, NEW u \in Users, DelegationInstruction(m, u)
      PROVE  PolicyStep(n)
  <2>1. ASSUME NEW settings, NEW destinations, UpdatePolicy(m, u, settings, destinations)
        PROVE  PolicyStep(n)
    BY <2>1, UpdatePolicyStep
  <2>2. CASE UNCHANGED policy
    BY <2>2 DEF PolicyStep
  <2> QED
    BY <1>2, <2>1, <2>2
       DEF DelegationInstruction, AddDelegate, RevokeDelegate, DepositToUmbra, vars
<1>3. CASE UNCHANGED policy
  BY <1>3 DEF PolicyStep
<1> QED
  BY <1>1, <1>2, <1>3 DEF DelegationNext, Tick, allVars, vars

\* So it stays valid.
LEMMA StepKeepsValid ==
    DelegationTypeOK /\ PoliciesValid /\ [DelegationNext]_allVars => PoliciesValid'
<1> SUFFICES ASSUME DelegationTypeOK, PoliciesValid, [DelegationNext]_allVars, NEW n \in Names
             PROVE  Validate(policy'[n].settings, policy'[n].destinations)
  BY DEF PoliciesValid, Validate
<1>1. Validate(policy[n].settings, policy[n].destinations)
  BY DEF PoliciesValid
<1>2. PolicyStep(n)
  BY EveryPolicyStep
<1>3. CASE policy'[n] = policy[n]
  BY <1>1, <1>3
<1>4. CASE \E u \in Users :
              policy'[n] = [settings |-> DefaultPolicy, destinations |-> {u}, policy_nonce |-> 0]
  <2>1. PICK u \in Users :
            policy'[n] = [settings |-> DefaultPolicy, destinations |-> {u}, policy_nonce |-> 0]
    BY <1>4
  <2>2. policy'[n].settings = DefaultPolicy /\ policy'[n].destinations = {u}
    BY <2>1
  <2> QED
    BY <2>2, DefaultsValidate
<1>5. CASE policy'[n] = NoPolicy
  <2>1. policy'[n].settings = DefaultPolicy /\ policy'[n].destinations = {}
    BY <1>5 DEF NoPolicy
  <2> QED
    BY <2>1, DefaultsValidate
<1>6. CASE \E u \in Users : /\ policy'[n].destinations = {u}
                            /\ policy'[n].settings = policy[n].settings
  <2>1. PICK u \in Users : /\ policy'[n].destinations = {u}
                           /\ policy'[n].settings = policy[n].settings
    BY <1>6
  <2>2. Cardinality({u}) = 1
    BY FS_Singleton
  <2> QED
    BY <1>1, <2>1, <2>2, DelegationAssumption DEF Validate
<1> QED
  BY <1>2, <1>3, <1>4, <1>5, <1>6 DEF PolicyStep

\* A policy always validates, whoever wrote which of its fields last: owner, delegate, or
\* claim_vault, which does not validate (update_policy.rs, claim_vault.rs).
THEOREM PoliciesStayValid == DelegationSpec => []PolicyValid
<1>1. DelegationInit => DelegationTypeOK /\ PoliciesValid
  <2> SUFFICES ASSUME DelegationInit PROVE PoliciesValid
    BY DelegationInitTyped
  <2>1. \A n \in Names : policy[n].settings = DefaultPolicy /\ policy[n].destinations = {}
    BY DEF DelegationInit, Init, NoPolicy
  <2> QED
    BY <2>1, DefaultsValidate DEF PoliciesValid
<1>2. DelegationTypeOK /\ PoliciesValid /\ [DelegationNext]_allVars
          => DelegationTypeOK' /\ PoliciesValid'
  BY DelegationStepTyped, StepKeepsValid
<1>3. PoliciesValid => PolicyValid
  BY DEF PoliciesValid, PolicyValid
<1> QED
  BY <1>1, <1>2, <1>3, PTL DEF DelegationSpec

\* While a vault exists, a policy that changes gets a larger nonce, whichever handler changed it.
THEOREM NonceTellsPoliciesApart == DelegationSpec => NonceCountsChanges
<1>1. DelegationTypeOK /\ [DelegationNext]_allVars =>
        [\A n \in Names :
            ("policy" \in live[n] /\ "policy" \in live'[n] /\ policy'[n] # policy[n])
            => policy'[n].policy_nonce > policy[n].policy_nonce]_allVars
  <2> SUFFICES ASSUME DelegationTypeOK, DelegationNext, NEW n \in Names,
                      "policy" \in live[n], "policy" \in live'[n], policy'[n] # policy[n]
               PROVE  policy'[n].policy_nonce > policy[n].policy_nonce
    BY DEF allVars
  <2>1. PolicyStep(n)
    BY EveryPolicyStep
  <2> QED
    BY <2>1 DEF PolicyStep
<1> QED
  BY <1>1, DelegationInitTyped, DelegationStepTyped, PTL DEF DelegationSpec, NonceCountsChanges

-----------------------------------------------------------------------------
(***************************************************************************)
(* The lifecycle goes on under the delegates                               *)
(***************************************************************************)

\* An instruction of a delegate, and the clock, leave the accounts and the record alone, and
\* take no account below its rent.
LEMMA DelegateKeepsAccounts ==
    ASSUME DelegationTypeOK, AccountsCoupled,
           Tick \/ \E n \in Names, u \in Users : DelegationInstruction(n, u)
    PROVE  AccountsCoupled' /\ UNCHANGED <<sns, live, vault>>
<1>1. ASSUME NEW n \in Names, NEW u \in Users, NEW amount \in 1..lamports[n]["vault"],
             DepositToUmbra(n, u, amount)
      PROVE  AccountsCoupled' /\ UNCHANGED <<sns, live, vault>>
  <2>1. lamports \in [Names -> [Accounts -> Nat]]
    BY DEF DelegationTypeOK, TypeOK
  <2>2. lamports'[n]["vault"] >= RentExempt
    BY <1>1, <2>1, NumbersAssumption DEF DepositToUmbra, UmbraSpendable, Accounts
  <2>3. \A m \in Names, p \in Accounts : (m # n \/ p # "vault") => lamports'[m][p] = lamports[m][p]
    BY <1>1, <2>1 DEF DepositToUmbra
  <2>4. UNCHANGED <<sns, live, vault>> /\ live \in [Names -> SUBSET Accounts]
    BY <1>1 DEF DepositToUmbra, DelegationTypeOK, TypeOK
  <2> QED
    BY <2>2, <2>3, <2>4 DEF AccountsCoupled, Accounts
<1>2. CASE UNCHANGED <<sns, live, vault, lamports>>
  BY <1>2 DEF AccountsCoupled
<1> QED
  BY <1>1, <1>2
     DEF DelegationInstruction, AddDelegate, RevokeDelegate, UpdatePolicy, Tick, vars

\* What a step of the composition is to the lifecycle.
LEMMA LifecycleStep ==
    ASSUME DelegationTypeOK, AccountsCoupled, [DelegationNext]_allVars
    PROVE  [Next]_vars \/ (AccountsCoupled' /\ UNCHANGED <<sns, live, vault>>)
  BY DelegateKeepsAccounts DEF DelegationNext, allVars

\* What holds of the lifecycle's accounts holds with delegates about,
LEMMA DelegationStepCoupled ==
    DelegationTypeOK /\ AccountsCoupled /\ [DelegationNext]_allVars => AccountsCoupled'
  BY LifecycleStep, StepCoupled DEF DelegationTypeOK

\* and so does what holds of its flags.
LEMMA DelegationStepFlagged ==
    DelegationTypeOK /\ AccountsCoupled /\ FlagMeansCustody /\ [DelegationNext]_allVars
        => FlagMeansCustody'
<1>1. FlagMeansCustody /\ UNCHANGED <<sns, vault>> => FlagMeansCustody'
  BY DEF FlagMeansCustody
<1> QED
  BY <1>1, LifecycleStep, StepFlagged DEF DelegationTypeOK

\* The initial state is one of the lifecycle.
LEMMA DelegationInitial ==
    DelegationInit => Init /\ AccountsCoupled /\ FlagMeansCustody /\ AuthorityStays
  BY DEF DelegationInit, Init, AccountsCoupled, FlagMeansCustody, AuthorityStays, NoVault

\* What lets a name be reclaimed and funds be withdrawn is not in a delegate's hands: whatever
\* sessions are granted and used, and deposits made to Umbra, the owner of the vault finds every
\* account the handlers ask for (with the withdraw_direct of instructions/withdraw_direct.rs).
THEOREM DelegatesLockNothingIn ==
    ASSUME ReservesRent
    PROVE  DelegationSpec => [](DomainReclaimable /\ FundsWithdrawable)
<1>1. DelegationTypeOK /\ AccountsCoupled /\ AuthorityStays /\ [DelegationNext]_allVars
        => AuthorityStays'
  <2>1. AuthorityStays /\ UNCHANGED live => AuthorityStays'
    BY DEF AuthorityStays
  <2> QED
    BY <2>1, LifecycleStep, StepKeepsAuthority DEF DelegationTypeOK
<1>2. DelegationTypeOK => TypeOK
  BY DEF DelegationTypeOK
<1> QED
  BY <1>1, <1>2, DelegationInitial, DelegationInitTyped, DelegationStepTyped,
     DelegationStepCoupled, DelegationStepFlagged, NothingLockedIn, PTL
  DEF DelegationSpec

\* With delegates and Umbra deposits the program still implements DomainCustody: no session,
\* whatever it permits, moves a name or its keeper.
THEOREM DelegationImplementsCustody == DelegationSpec => ImplementsCustody
<1>1. DelegationTypeOK /\ AccountsCoupled /\ FlagMeansCustody /\ [DelegationNext]_allVars
        => [Custody!Next]_(Custody!vars)
  <2>1. UNCHANGED <<sns, vault>> => UNCHANGED Custody!vars
    BY DEF Custody!vars, Keeper, Held
  <2> QED
    BY <2>1, LifecycleStep, StepRefines DEF DelegationTypeOK
<1> QED
  BY <1>1, DelegationInitial, InitRefines, DelegationInitTyped, DelegationStepTyped,
     DelegationStepCoupled, DelegationStepFlagged, PTL
  DEF DelegationSpec, Custody!Spec, ImplementsCustody

-----------------------------------------------------------------------------
(***************************************************************************)
(* Lamports are conserved                                                  *)
(***************************************************************************)

\* Lamports in wallets and at the addresses of names.
Liquid == SumFunction(wallet) + SumFunction([n \in Names |-> SumFunction(lamports[n])])

\* The lamports at the addresses of one name, as a sum of three.
LEMMA ThreeAccounts ==
    ASSUME NEW f \in [Accounts -> Nat]
    PROVE  SumFunction(f) = f["vault"] + f["authority"] + f["policy"]
<1>1. SumFunctionOnSet(f, {}) = 0
  BY SumEmpty
<1>2. IsFiniteSet({}) /\ IsFiniteSet({"policy"}) /\ IsFiniteSet({"policy", "authority"})
  <2>1. IsFiniteSet({}) /\ IsFiniteSet({"policy"})
    BY FS_EmptySet, FS_Singleton
  <2>2. IsFiniteSet({"policy"} \cup {"authority"})
    BY <2>1, FS_AddElement
  <2>3. {"policy"} \cup {"authority"} = {"policy", "authority"}
    OBVIOUS
  <2> QED
    BY <2>1, <2>2, <2>3
<1>3. f["vault"] \in Int /\ f["authority"] \in Int /\ f["policy"] \in Int
  BY DEF Accounts
<1>4. SumFunctionOnSet(f, {} \cup {"policy"}) = f["policy"] + SumFunctionOnSet(f, {})
  BY <1>2, <1>3, SumAdd
<1>5. SumFunctionOnSet(f, {"policy"} \cup {"authority"})
        = f["authority"] + SumFunctionOnSet(f, {"policy"})
  BY <1>2, <1>3, SumAdd
<1>6. SumFunctionOnSet(f, {"policy", "authority"} \cup {"vault"})
        = f["vault"] + SumFunctionOnSet(f, {"policy", "authority"})
  BY <1>2, <1>3, SumAdd
<1>7. /\ {} \cup {"policy"} = {"policy"}
      /\ {"policy"} \cup {"authority"} = {"policy", "authority"}
      /\ {"policy", "authority"} \cup {"vault"} = DOMAIN f
  BY DEF Accounts
<1>8. SumFunction(f) = f["vault"] + (f["authority"] + (f["policy"] + 0))
  BY <1>1, <1>4, <1>5, <1>6, <1>7 DEF SumFunction
<1> QED
  BY <1>3, <1>8

\* The lamports in wallets and accounts are a number.
LEMMA LiquidInt ==
    ASSUME DelegationTypeOK
    PROVE  Liquid \in Int
<1> DEFINE held == [m \in Names |-> SumFunction(lamports[m])]
<1>1. wallet \in [Users -> Nat] /\ lamports \in [Names -> [Accounts -> Nat]]
  BY DEF DelegationTypeOK, TypeOK
<1>2. SumFunction(wallet) \in Int
  BY <1>1, KeysAreFinite, SumInt DEF SumFunction
<1>3. \A m \in Names : held[m] \in Int
  <2>1. ASSUME NEW f \in [Accounts -> Nat] PROVE SumFunction(f) \in Int
    BY <2>1, ThreeAccounts DEF Accounts
  <2> QED
    BY <1>1, <2>1
<1>4. DOMAIN held = Names /\ Liquid = SumFunction(wallet) + SumFunction(held)
  BY DEF Liquid
<1> HIDE DEF held
<1>5. SumFunction(held) \in Int
  BY <1>3, <1>4, KeysAreFinite, SumInt DEF SumFunction
<1> QED
  BY <1>2, <1>4, <1>5

\* A step about one wallet and one name changes what there is by what it changes there.
LEMMA LiquidChange ==
    ASSUME DelegationTypeOK, DelegationTypeOK', NEW u \in Users, NEW n \in Names,
           \A v \in Users \ {u} : wallet'[v] = wallet[v],
           \A m \in Names \ {n} : lamports'[m] = lamports[m]
    PROVE  Liquid' = Liquid + (wallet'[u] - wallet[u])
                            + (SumFunction(lamports'[n]) - SumFunction(lamports[n]))
<1> DEFINE held  == [m \in Names |-> SumFunction(lamports[m])]
           held1 == [m \in Names |-> SumFunction(lamports'[m])]
<1>1. /\ wallet \in [Users -> Nat] /\ wallet' \in [Users -> Nat]
      /\ lamports \in [Names -> [Accounts -> Nat]] /\ lamports' \in [Names -> [Accounts -> Nat]]
  BY DEF DelegationTypeOK, TypeOK
<1>2. SumFunctionOnSet(wallet', Users) = SumFunctionOnSet(wallet, Users) - wallet[u] + wallet'[u]
  BY <1>1, KeysAreFinite, SumChange
<1>3. \A m \in Names : held[m] \in Int /\ held1[m] \in Int
  <2>1. ASSUME NEW f \in [Accounts -> Nat] PROVE SumFunction(f) \in Int
    BY <2>1, ThreeAccounts DEF Accounts
  <2> QED
    BY <1>1, <2>1
<1>4. \A m \in Names \ {n} : held1[m] = held[m]
  OBVIOUS
<1>5. held[n] = SumFunction(lamports[n]) /\ held1[n] = SumFunction(lamports'[n])
  OBVIOUS
<1>6. SumFunction(held) = SumFunctionOnSet(held, Names)
      /\ SumFunction(held1) = SumFunctionOnSet(held1, Names)
  BY DEF SumFunction
<1>7. /\ Liquid = SumFunctionOnSet(wallet, Users) + SumFunction(held)
      /\ Liquid' = SumFunctionOnSet(wallet', Users) + SumFunction(held1)
  <2>1. SumFunction(wallet) = SumFunctionOnSet(wallet, Users)
    BY <1>1 DEF SumFunction
  <2>2. SumFunction(wallet') = SumFunctionOnSet(wallet', Users)
    BY <1>1 DEF SumFunction
  <2> QED
    BY <2>1, <2>2 DEF Liquid
<1> HIDE DEF held, held1
<1>8. SumFunctionOnSet(held1, Names) = SumFunctionOnSet(held, Names) - held[n] + held1[n]
  BY <1>3, <1>4, KeysAreFinite, SumChange
<1>9. /\ SumFunctionOnSet(held, Names) \in Int /\ SumFunctionOnSet(wallet, Users) \in Int
      /\ wallet[u] \in Int /\ wallet'[u] \in Int
  BY <1>1, <1>3, KeysAreFinite, SumInt
<1> QED
  BY <1>2, <1>3, <1>5, <1>6, <1>7, <1>8, <1>9

\* An instruction of the lifecycle moves lamports between a wallet and the accounts of a name.
LEMMA InstructionConserves ==
    ASSUME DelegationTypeOK, DelegationTypeOK', NEW n \in Names, NEW u \in Users, Instruction(n, u)
    PROVE  Liquid' = Liquid
<1>1. /\ wallet \in [Users -> Nat] /\ wallet' \in [Users -> Nat]
      /\ lamports \in [Names -> [Accounts -> Nat]] /\ lamports' \in [Names -> [Accounts -> Nat]]
  BY DEF DelegationTypeOK, TypeOK
<1>2. ASSUME NEW v \in Users, \A w \in Users \ {v} : wallet'[w] = wallet[w],
             \A m \in Names \ {n} : lamports'[m] = lamports[m],
             wallet'[v] + (lamports'[n]["vault"] + lamports'[n]["authority"] + lamports'[n]["policy"])
               = wallet[v] + (lamports[n]["vault"] + lamports[n]["authority"] + lamports[n]["policy"])
      PROVE  Liquid' = Liquid
  <2>1. Liquid' = Liquid + (wallet'[v] - wallet[v])
                         + (SumFunction(lamports'[n]) - SumFunction(lamports[n]))
    BY <1>2, LiquidChange
  <2>2. /\ SumFunction(lamports[n])
             = lamports[n]["vault"] + lamports[n]["authority"] + lamports[n]["policy"]
        /\ SumFunction(lamports'[n])
             = lamports'[n]["vault"] + lamports'[n]["authority"] + lamports'[n]["policy"]
    BY <1>1, ThreeAccounts
  <2>3. Liquid \in Int
    BY LiquidInt
  <2>4. /\ \A p \in Accounts : lamports[n][p] \in Int /\ lamports'[n][p] \in Int
        /\ wallet[v] \in Int /\ wallet'[v] \in Int
    BY <1>1
  <2>5. (wallet'[v] - wallet[v]) + (SumFunction(lamports'[n]) - SumFunction(lamports[n])) = 0
    BY <1>2, <2>2, <2>4 DEF Accounts
  <2>6. SumFunction(lamports'[n]) \in Int /\ SumFunction(lamports[n]) \in Int
    BY <2>2, <2>4 DEF Accounts
  <2> QED
    BY <2>1, <2>3, <2>4, <2>5, <2>6
<1>3. CASE UNCHANGED <<wallet, lamports>>
  BY <1>3 DEF Liquid
<1>4. CASE InitializeVault(n, u)
  <2>1. \A p \in Accounts : lamports'[n][p] = lamports[n][p] + Missing(lamports[n][p])
    BY <1>1, <1>4 DEF InitializeVault
  <2>2. \A p \in Accounts : Missing(lamports[n][p]) \in Nat /\ lamports[n][p] \in Nat
    BY <1>1, MissingIsEnough
  <2>3. wallet'[u] = wallet[u] - InitCost(n) /\ wallet[u] \in Nat
    BY <1>1, <1>4 DEF InitializeVault
  <2>4. /\ \A w \in Users \ {u} : wallet'[w] = wallet[w]
        /\ \A m \in Names \ {n} : lamports'[m] = lamports[m]
    BY <1>1, <1>4 DEF InitializeVault
  <2>5. wallet'[u] + (lamports'[n]["vault"] + lamports'[n]["authority"] + lamports'[n]["policy"])
          = wallet[u] + (lamports[n]["vault"] + lamports[n]["authority"] + lamports[n]["policy"])
    BY <2>1, <2>2, <2>3 DEF InitCost, Accounts
  <2> QED
    BY <1>2, <2>4, <2>5
<1>5. CASE CloseVault(n, u)
  <2>1. \A p \in Accounts : lamports'[n][p] = 0
    BY <1>1, <1>5 DEF CloseVault
  <2>2. \A p \in Accounts : lamports[n][p] \in Nat
    BY <1>1
  <2>3. /\ wallet[u] \in Nat
        /\ wallet'[u] = wallet[u] + lamports[n]["vault"] + lamports[n]["authority"]
                          + lamports[n]["policy"]
    BY <1>1, <1>5 DEF CloseVault
  <2>4. /\ \A w \in Users \ {u} : wallet'[w] = wallet[w]
        /\ \A m \in Names \ {n} : lamports'[m] = lamports[m]
    BY <1>1, <1>5 DEF CloseVault
  <2>5. wallet'[u] + (lamports'[n]["vault"] + lamports'[n]["authority"] + lamports'[n]["policy"])
          = wallet[u] + (lamports[n]["vault"] + lamports[n]["authority"] + lamports[n]["policy"])
    BY <2>1, <2>2, <2>3 DEF Accounts
  <2> QED
    BY <1>2, <2>4, <2>5
<1>6. ASSUME NEW destination \in Users, NEW amount \in 0..lamports[n]["authority"],
             WithdrawDirect(n, u, destination, amount)
      PROVE  Liquid' = Liquid
  <2>1. /\ lamports'[n]["authority"] = lamports[n]["authority"] - amount
        /\ \A p \in Accounts \ {"authority"} : lamports'[n][p] = lamports[n][p]
    BY <1>1, <1>6 DEF WithdrawDirect, Accounts
  <2>2. (\A p \in Accounts : lamports[n][p] \in Nat) /\ amount \in Int
    BY <1>1
  <2>3. wallet[destination] \in Nat /\ wallet'[destination] = wallet[destination] + amount
    BY <1>1, <1>6 DEF WithdrawDirect
  <2>4. /\ \A w \in Users \ {destination} : wallet'[w] = wallet[w]
        /\ \A m \in Names \ {n} : lamports'[m] = lamports[m]
    BY <1>1, <1>6 DEF WithdrawDirect
  <2>5. wallet'[destination]
          + (lamports'[n]["vault"] + lamports'[n]["authority"] + lamports'[n]["policy"])
          = wallet[destination]
              + (lamports[n]["vault"] + lamports[n]["authority"] + lamports[n]["policy"])
    BY <2>1, <2>2, <2>3 DEF Accounts
  <2> QED
    BY <1>2, <2>4, <2>5
<1> QED
  BY <1>3, <1>4, <1>5, <1>6 DEF Instruction, MarkDomainTransferred, ReclaimDomain, ClaimVault

\* So do transfers.
LEMMA EnvironmentConserves ==
    ASSUME DelegationTypeOK, DelegationTypeOK', NEW n \in Names, Environment(n)
    PROVE  Liquid' = Liquid
<1>1. CASE UNCHANGED <<wallet, lamports>>
  BY <1>1 DEF Liquid
<1>2. ASSUME NEW u \in Users, NEW p \in {"vault", "authority"}, NEW amount \in 1..wallet[u],
             Deposit(u, n, p, amount)
      PROVE  Liquid' = Liquid
  <2>1. /\ wallet \in [Users -> Nat]
        /\ lamports \in [Names -> [Accounts -> Nat]] /\ lamports' \in [Names -> [Accounts -> Nat]]
    BY DEF DelegationTypeOK, TypeOK
  <2>2. amount \in Nat /\ p \in Accounts
    BY <2>1 DEF Accounts
  <2>3. wallet'[u] = wallet[u] - amount
    BY <1>2, <2>1 DEF Deposit
  <2>4. /\ \A w \in Users \ {u} : wallet'[w] = wallet[w]
        /\ \A m \in Names \ {n} : lamports'[m] = lamports[m]
    BY <1>2, <2>1 DEF Deposit
  <2>5. /\ lamports'[n][p] = lamports[n][p] + amount
        /\ \A q \in Accounts \ {p} : lamports'[n][q] = lamports[n][q]
    BY <1>2, <2>1, <2>2 DEF Deposit
  <2>6. \A q \in Accounts : lamports[n][q] \in Nat
    BY <2>1
  <2>7. SumFunction(lamports'[n]) = SumFunction(lamports[n]) + amount
    <3>1. /\ SumFunction(lamports[n])
               = lamports[n]["vault"] + lamports[n]["authority"] + lamports[n]["policy"]
          /\ SumFunction(lamports'[n])
               = lamports'[n]["vault"] + lamports'[n]["authority"] + lamports'[n]["policy"]
      BY <2>1, ThreeAccounts
    <3> QED
      BY <2>2, <2>5, <2>6, <3>1 DEF Accounts
  <2>8. SumFunction(lamports[n]) \in Int
    BY <2>1, <2>6, ThreeAccounts DEF Accounts
  <2>9. Liquid' = Liquid + (wallet'[u] - wallet[u])
                         + (SumFunction(lamports'[n]) - SumFunction(lamports[n]))
    BY <2>4, LiquidChange
  <2> QED
    BY <2>1, <2>2, <2>3, <2>7, <2>8, <2>9, LiquidInt
<1> QED
  BY <1>1, <1>2 DEF Environment, SnsTransfer

\* The sessions are finitely many, and one more or less when one is created or removed.
LEMMA SessionsFinite ==
    IsFiniteSet(SessionAccounts) /\ Cardinality(SessionAccounts) \in Nat
<1>1. IsFiniteSet(Names \X Users)
  BY KeysAreFinite, FS_Product
<1>2. SessionAccounts \subseteq Names \X Users
  BY DEF SessionAccounts
<1> QED
  BY <1>1, <1>2, FS_Subset, FS_CardinalityType

\* A session that is granted is one account more,
LEMMA SessionAdded ==
    ASSUME DelegationTypeOK, NEW n \in Names, NEW d \in Users, NEW s, s # NoSession,
           session[n][d] = NoSession, session' = [session EXCEPT ![n][d] = s]
    PROVE  Cardinality(SessionAccounts') = Cardinality(SessionAccounts) + 1
<1>1. session \in [Names -> [Users -> Sessions \cup {NoSession}]]
  BY DEF DelegationTypeOK
<1>2. SessionAccounts' = SessionAccounts \cup {<<n, d>>}
  BY <1>1 DEF SessionAccounts
<1>3. <<n, d>> \notin SessionAccounts
  BY DEF SessionAccounts
<1> QED
  BY <1>2, <1>3, SessionsFinite, FS_AddElement

\* one that is revoked one account less.
LEMMA SessionRemoved ==
    ASSUME DelegationTypeOK, NEW n \in Names, NEW d \in Users,
           session[n][d] # NoSession, session' = [session EXCEPT ![n][d] = NoSession]
    PROVE  Cardinality(SessionAccounts') = Cardinality(SessionAccounts) - 1
<1>1. session \in [Names -> [Users -> Sessions \cup {NoSession}]]
  BY DEF DelegationTypeOK
<1>2. SessionAccounts' = SessionAccounts \ {<<n, d>>}
  BY <1>1 DEF SessionAccounts
<1>3. <<n, d>> \in SessionAccounts
  BY DEF SessionAccounts
<1> QED
  BY <1>2, <1>3, SessionsFinite, FS_RemoveElement

\* A session is paid for and paid back at the rent it holds, and a deposit to Umbra leaves what
\* it takes from the vault in the pool.
LEMMA DelegateConserves ==
    ASSUME DelegationTypeOK, DelegationTypeOK', NEW n \in Names, NEW u \in Users,
           DelegationInstruction(n, u)
    PROVE  Supply' = Supply
<1> DEFINE rents == Cardinality(SessionAccounts)
<1>1. /\ wallet \in [Users -> Nat] /\ wallet' \in [Users -> Nat]
      /\ lamports \in [Names -> [Accounts -> Nat]] /\ lamports' \in [Names -> [Accounts -> Nat]]
      /\ umbra \in Nat
  BY DEF DelegationTypeOK, TypeOK
<1>2. \A m \in Names : SumFunction(lamports[m]) \in Int /\ SumFunction(lamports'[m]) \in Int
  <2>1. ASSUME NEW f \in [Accounts -> Nat] PROVE SumFunction(f) \in Int
    BY <2>1, ThreeAccounts DEF Accounts
  <2> QED
    BY <1>1, <2>1
<1>3. /\ Supply = Liquid + umbra + RentExempt * rents
      /\ Supply' = Liquid' + umbra' + RentExempt * rents'
  BY DEF Supply, Liquid
<1>4. Liquid \in Int /\ rents \in Nat /\ RentExempt \in Nat
  BY LiquidInt, SessionsFinite, NumbersAssumption
<1>5. wallet[u] \in Int
  BY <1>1
<1>6. ASSUME NEW d \in Users, NEW expires_at \in 1..MaxTime + 1,
             NEW permissions \in SUBSET Permissions, AddDelegate(n, u, d, expires_at, permissions)
      PROVE  Supply' = Supply
  <2> DEFINE s == [granted_by |-> u, expires_at |-> expires_at, permissions |-> permissions]
  <2>1. s # NoSession
    <3>1. s.granted_by = u /\ NoSession.granted_by = NoUser
      BY DEF NoSession
    <3> QED
      BY <3>1, KeysAssumption
  <2> HIDE DEF s
  <2>2. session' = [session EXCEPT ![n][d] = s] /\ session[n][d] = NoSession
    BY <1>6 DEF AddDelegate, AddDelegateAccounts, s
  <2>3. rents' = rents + 1
    BY <2>1, <2>2, SessionAdded
  <2>4. /\ wallet'[u] = wallet[u] - RentExempt /\ umbra' = umbra
        /\ \A w \in Users \ {u} : wallet'[w] = wallet[w]
        /\ \A m \in Names : lamports'[m] = lamports[m]
    BY <1>1, <1>6 DEF AddDelegate
  <2>5. Liquid' = Liquid - RentExempt
    BY <1>2, <1>4, <1>5, <2>4, LiquidChange
  <2> HIDE DEF rents
  <2> QED
    BY <1>1, <1>3, <1>4, <2>3, <2>4, <2>5
<1>7. ASSUME NEW d \in Users, RevokeDelegate(n, u, d)
      PROVE  Supply' = Supply
  <2>1. rents' = rents - 1
    BY <1>7, SessionRemoved DEF RevokeDelegate
  <2>2. /\ wallet'[u] = wallet[u] + RentExempt /\ umbra' = umbra
        /\ \A w \in Users \ {u} : wallet'[w] = wallet[w]
        /\ \A m \in Names : lamports'[m] = lamports[m]
    BY <1>1, <1>7 DEF RevokeDelegate
  <2>3. Liquid' = Liquid + RentExempt
    BY <1>2, <1>4, <1>5, <2>2, LiquidChange
  <2> HIDE DEF rents
  <2> QED
    BY <1>1, <1>3, <1>4, <2>1, <2>2, <2>3
<1>8. ASSUME NEW amount \in 1..lamports[n]["vault"], DepositToUmbra(n, u, amount)
      PROVE  Supply' = Supply
  <2>1. /\ \A p \in Accounts \ {"vault"} : lamports'[n][p] = lamports[n][p]
        /\ lamports'[n]["vault"] = lamports[n]["vault"] - amount
        /\ \A m \in Names \ {n} : lamports'[m] = lamports[m]
        /\ UNCHANGED <<wallet, session>> /\ umbra' = umbra + amount
    BY <1>1, <1>8 DEF DepositToUmbra, Accounts
  <2>2. amount \in Nat /\ \A p \in Accounts : lamports[n][p] \in Nat
    BY <1>1 DEF Accounts
  <2>3. /\ SumFunction(lamports[n])
             = lamports[n]["vault"] + lamports[n]["authority"] + lamports[n]["policy"]
        /\ SumFunction(lamports'[n])
             = lamports'[n]["vault"] + lamports'[n]["authority"] + lamports'[n]["policy"]
    BY <1>1, ThreeAccounts
  <2>4. SumFunction(lamports'[n]) = SumFunction(lamports[n]) - amount
    BY <2>1, <2>2, <2>3 DEF Accounts
  <2>5. Liquid' = Liquid - amount
    BY <1>2, <1>4, <1>5, <2>1, <2>2, <2>4, LiquidChange
  <2>6. rents' = rents
    BY <2>1 DEF SessionAccounts
  <2> HIDE DEF rents
  <2> QED
    BY <1>1, <1>3, <1>4, <2>1, <2>2, <2>5, <2>6
<1>9. ASSUME UNCHANGED <<wallet, lamports, session, umbra>>
      PROVE  Supply' = Supply
  BY <1>9 DEF Supply, SessionAccounts
<1> QED
  BY <1>6, <1>7, <1>8, <1>9 DEF DelegationInstruction, UpdatePolicy, delegationVars

\* No instruction and no interleaving of owners, delegates and depositors creates or destroys
\* lamports: what wallets, accounts, sessions and the pool hold is what the wallets started with.
THEOREM NoLamportsAppear == DelegationSpec => []LamportsConserved
<1>1. DelegationInit => LamportsConserved
  <2> SUFFICES ASSUME DelegationInit PROVE Supply = SumFunction(InitialWallet)
    BY DEF LamportsConserved
  <2>1. /\ wallet = InitialWallet /\ umbra = 0
        /\ \A n \in Names : lamports[n] = [p \in Accounts |-> 0]
    BY DEF DelegationInit, Init
  <2> DEFINE held == [n \in Names |-> SumFunction(lamports[n])]
  <2>2. ASSUME NEW n \in Names PROVE held[n] = 0
    <3> DEFINE empty == [p \in Accounts |-> 0]
    <3>1. empty \in [Accounts -> Nat] /\ \A p \in Accounts : empty[p] = 0
      OBVIOUS
    <3>2. held[n] = SumFunction(empty)
      BY <2>1
    <3> HIDE DEF empty
    <3> QED
      BY <3>1, <3>2, ThreeAccounts DEF Accounts
  <2>3. SumFunction(held) = 0
    <3> DEFINE none == [n \in Names |-> 0]
    <3>1. SumFunctionOnSet(held, Names) = SumFunctionOnSet(none, Names)
      BY <2>2, KeysAreFinite, SumSame
    <3>2. SumFunctionOnSet(none, Names) = 0
      BY KeysAreFinite, SumZero
    <3> QED
      BY <3>1, <3>2 DEF SumFunction
  <2>4. Cardinality(SessionAccounts) = 0
    <3>1. SessionAccounts = {}
      BY DEF DelegationInit, SessionAccounts
    <3> QED
      BY <3>1, FS_EmptySet
  <2>5. SumFunction(InitialWallet) \in Int
    BY NumbersAssumption, KeysAreFinite, SumInt DEF SumFunction
  <2>6. Supply = SumFunction(InitialWallet) + SumFunction(held) + umbra
                   + RentExempt * Cardinality(SessionAccounts)
    BY <2>1 DEF Supply
  <2> HIDE DEF held
  <2> QED
    BY <2>1, <2>3, <2>4, <2>5, <2>6, NumbersAssumption
<1>2. DelegationTypeOK /\ DelegationTypeOK' /\ LamportsConserved /\ [DelegationNext]_allVars
        => LamportsConserved'
  <2> SUFFICES ASSUME DelegationTypeOK, DelegationTypeOK', [DelegationNext]_allVars
               PROVE  Supply' = Supply
    BY DEF LamportsConserved
  <2>1. ASSUME Next, UNCHANGED delegationVars PROVE Supply' = Supply
    <3>1. Liquid' = Liquid
      BY <2>1, InstructionConserves, EnvironmentConserves DEF Next
    <3>2. UNCHANGED <<umbra, SessionAccounts>>
      BY <2>1 DEF delegationVars, SessionAccounts
    <3> QED
      BY <3>1, <3>2 DEF Supply, Liquid
  <2>2. CASE UNCHANGED <<wallet, lamports, session, umbra>>
    BY <2>2 DEF Supply, SessionAccounts
  <2> QED
    BY <2>1, <2>2, DelegateConserves DEF DelegationNext, Tick, allVars, vars, delegationVars
<1> QED
  BY <1>1, <1>2, DelegationTypeCorrect, PTL DEF DelegationSpec
=============================================================================
