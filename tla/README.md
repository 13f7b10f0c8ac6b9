# Hydentity: specifications and proofs

TLA+ models of [hydentity](../src/README.md), a vault for SNS (`.sol`) names on Solana: an Anchor
program that holds a name and its funds, MPC circuits that plan and approve private withdrawals, a
TypeScript SDK and a Next.js app. The models are translated from the code; where a document, a
comment and the code disagree, the model follows the code, and the section on disagreements says so.
Three of them have a run that shows them.

## The system

| Part | State | Operations | What is hard | What makes it correct |
|---|---|---|---|---|
| Lifecycle program (`programs/hydentity/src/lib.rs`) | three derived accounts per name: `NameVault` (owner, custody flag), `VaultAuthority` (the key a name in custody is registered to, and the balance `n.sol` resolves to), `PrivacyPolicy`; their lamports | the six dispatched instructions | the SNS record and the balances change under the program's feet; the flag caches another program's state; account lifetimes follow balances | the flag implies custody; one keeper while in custody; nothing in custody is stranded; money is conserved |
| Delegation handlers (`instructions/{update_policy, deposit_to_umbra, add_delegate, revoke_delegate}.rs`) | `DelegateSession` per name and delegate | compiled, not dispatched by `lib.rs` at this commit | sessions outlive owners and vaults; several writers of one policy; rent | stored policies validate; a nonce per version; rent is never spent |
| Plan circuits (`encrypted-ixs/{generate_plan, execute_split, query_balance}.rs`) | one `WithdrawalPlan` | generate, next split, approve, record, cancel, query | approve, transfer and record are three steps; cancellation and expiry fall in between; rounding | each split is paid once; record, status and report agree with the transfers; a plan ends |
| Configuration circuits (`store_config.rs`, `update_config.rs`) | one encrypted configuration | store, update, add, remove, rotate | updates field by field against the old values; a fixed array with a count | the configuration stays one that would be accepted; a change shows in the hash |
| Request and configuration accounts (`request_withdrawal.rs`, `store_private_config.rs`) | pending withdrawal, encrypted configuration | queue a computation, callback | not reachable at this commit | - |
| SDK generator (`policy-engine.ts`, `randomness.ts`) | none | splits and delays of a claim | dust floor and cap act in turn on one remainder | splits add up, none is dust, delays within bounds |
| SDK forwarders (`connection-forwarder.ts`, `relayer-forwarder.ts`) | an offset into a batch | send one, a batch, with delays, resume | errors without results, answers lost after a send, bodies that never come | what is reported was executed; order is kept; a call ends |
| App, names and vaults (`useHydentity.ts`, `useSnsDomains.ts`, the vault and setup pages, registration) | React state, caches of the chain | create, transfer in two transactions, reclaim, close, claim, register | failure between two steps, stale reads, overlapping fetches, wallets that change under a request | no name is left where no button reaches it; what is shown is the chain's |
| App, routing (`usePrivacyCash.ts`, `services/privacy-cash.ts`, `api/privacy-cash`) | a derived key, a service singleton on the server | initialise, route, pay out | two payments by two parties, lost answers, wrong keys | money on the derived key goes on |
| App, private configuration (`usePrivateConfig.ts`, the settings page, `PrivateConfigSetup.tsx`) | a form, a list, a hook | edit, save, wizard | two bounds that correct each other, errors by index, timers of earlier saves | values stay valid; a save is one at a time; what is stored displays as it was reviewed |
| App, withdrawal tracking (`useWithdrawals.ts`, `WithdrawalStatus.tsx`) | a list in memory | request, wait, cancel | waits that overlap cancellations, two instances of one hook | what is listed is real |

They interact through transactions and accounts: app and SDK send instructions; the program reads
the SNS record that the SNS program owns and calls it to give a name back; a withdrawal request
queues a computation that the MPC cluster answers with a callback; the cluster pays splits out of
the vault. Transactions and circuit calls are each atomic, so the interleavings that matter are
those between them, and, in the app, between two awaits.

`PROJECT.json` lists all components, the source lines behind each definition, and the hazards.

## Modules

| Module | What it is | Composed with |
|---|---|---|
| `HydentityProgram` | the lifecycle program: one action per instruction | |
| `DomainCustody` | what the lifecycle promises about a name: move, admit, release | refined by `HydentityProgram` |
| `VaultDelegation` | delegation, policy updates and Umbra deposits | `HydentityProgram` |
| `DomainTransferFlow` | one user's browser and its transactions | `HydentityProgram` |
| `WithdrawalPlan` | the plan circuits and the executors that call them | |
| `ConfigCircuits` | the circuits that keep the private configuration | |
| `ExecutionPlan` | the SDK's splits and delays | |
| `TransactionForwarding` | the SDK's two forwarders, a relayer and a caller | |
| `PrivacyRouting` | from the vault over a derived key into the pool | |
| `WithdrawalTracking` | private withdrawals as the app tracks them | |
| `PrivacySettings` | splits and delays as the hook validates, encodes and displays them | |
| `DelaySettings` | the settings form: splits, delays, presets | `PrivacySettings` |
| `PrivateConfig` | the hook that stores a configuration | `PrivacySettings` |
| `DestinationList` | the list of destinations and its errors | |
| `SettingsSave` | the save button of the settings page | `PrivateConfig`, `DestinationList` |
| `ConfigWizard` | the wizard of the private configuration | `PrivateConfig`, `DestinationList` |
| `SnsDomains` | the hook for the names of a wallet | |
| `SetupWizard` | the setup page and the creation of a vault | `SnsDomains`, `DestinationList` |
| `DomainRegistration` | the registration form in the setup page | `SnsDomains` |
| `HydentityProgram_proofs` | theorems | `HydentityProgram`, `VaultDelegation` |
| `DomainTransferFlow_proofs` | theorems | `DomainTransferFlow`, the proofs of the program |
| `ClusterCircuits_proofs` | theorems | `WithdrawalPlan`, `ConfigCircuits` |
| `Sdk_proofs` | theorems | `ExecutionPlan`, `TransactionForwarding` |
| `PrivateConfig_proofs` | theorems | `DelaySettings`, `SettingsSave`, `ConfigWizard` |
| `WithdrawalTracking_proofs` | theorems | `WithdrawalTracking` |
| `Setup_proofs` | theorems | `SetupWizard`, `DomainRegistration` |
| `SumTheorems` | lemmas: least numbers, induction, sums | the other proofs |
| `MC...` | instances for TLC | |
| `MCClusterCircuits` | one instance of both | `WithdrawalPlan`, `ConfigCircuits` |
| `MCSdk` | one instance of both | `ExecutionPlan`, `TransactionForwarding` |
| `MCSettingsPage` | one instance of both | `DelaySettings`, `SettingsSave` |
| `MCWithdrawals` | one instance of both | `PrivacyRouting`, `WithdrawalTracking` |
| `MCSetup` | one instance of both | `SetupWizard`, `DomainRegistration` |

The last five put two components side by side that share no step, and no variable but, in `MCSetup`, those of the hook `SnsDomains`, which a
behaviour has one of. Their variable `part`
says whose behaviour it is; the other component stays in one initial state. So what is checked of
either is what a run of its own would check, and nothing is claimed about the two together.
Fairness is stated for the component that moves: either it depends on `part`, or no action it
speaks of is enabled in the state that the other component stays in.

A definition whose comment begins with "Mutant" is a plausible slip of the code, kept beside the
definition it deviates from: put in its place, it makes a property fail that otherwise holds.

### HydentityProgram

`sns`, `live`, `vault`, `policy`, `lamports` and `wallet` are the owner field of the SNS record, the
existence of the three accounts of a name, their contents, the balances at their addresses and the
users' own balances. An instruction `X` is the action `X`; the `#[account(...)]` constraints that
Anchor checks before the body are `XAccounts`. An error rolls a transaction back, so a failed check
is a disabled action.

Three rules of the runtime matter and are modelled as external: an account that ends a transaction
with no lamports is deleted, one that would end below the rent-exempt minimum makes the transaction
fail (`RentState`), and `init` tops up an address that was funded beforehand (`Missing`). All
accounts have one rent minimum and transaction fees are left out.

`SnsTransfer` is the SNS program moving a name for its owner; a derived address cannot sign, so only
users transfer. `Deposit` is anyone sending lamports to the authority (where `n.sol` resolves) or to
the vault account (where the SDK reads the balance). `ReservesRent` selects between the two versions
of `withdraw_direct`: `FALSE` is the one in `lib.rs`, which is dispatched; `TRUE` is the handler in
`instructions/withdraw_direct.rs`, which keeps the rent minimum back.

Timestamps, bumps, deposit counters and events are left out: no handler reads them back.
`policy_nonce` is bounded by `MaxNonce`, as `checked_add` bounds it by 2^64 - 1.

### DomainCustody

A name may have a keeper and may be held for that keeper. While it is held, only a release moves it,
and the keeper is neither replaced nor forgotten; otherwise the user it is registered to moves it or
becomes its keeper. The refinement maps the keeper to the vault's owner and `held` to
`domain_transferred`. It is not obvious: `claim_vault` has no guard on the flag and would change the
keeper of a name in custody were the SNS record able to name a signer, and `close_vault` would forget
a name the vault holds were the flag ever wrong. A name registered to the authority with the flag
clear is not held in this sense, and the contract says nothing about it: a vault may be closed then.

### VaultDelegation

Sessions are keyed by name and delegate, never mentioned by a lifecycle instruction, and so survive
`claim_vault` and `close_vault`. `AddDelegate`, `RevokeDelegate`, `UpdatePolicy` and
`DepositToUmbra` are whole handlers with their account constraints; `Tick` is the clock sessions
expire by. The SPL-token branch of `deposit_to_umbra` is left out. Since `lib.rs` does not dispatch
these handlers at this commit, what this module shows is about the crate's code and not about a
deployed program. Nobody asks who granted a session (`Authorized`), so one granted before a sale is
good after it. `Supply` is all the lamports: in wallets, at the addresses of names, in sessions and in
the pool.

### WithdrawalPlan

`plan` is the encrypted plan, with a status, amounts, schedules and execution times; destinations,
signatures and the plan identifier are not read back by any circuit and left out. Splits are
numbered from 1. Amounts wrap at `U64`, as `u64` does. A random draw is any value of its range.

`ExecuteWithdrawalSplit` and `MarkSplitExecuted` are the two circuit calls around a transfer, which
is `Broadcast`, or `GiveUp` when it is not made. `job[w]` is what an executor has in hand between
them. The repository has the circuits and not the cluster that calls them, so the number of
executors is the constant `Workers`. `ErrorCode` makes the five checks in the order of their codes.
`Balances` are the balances a circuit may be told, and are not tied to what was paid before. Schedules
are stated as a relation between the delays drawn and the times (`Schedules`), amounts by a
recursive function of the number of splits. `Enough` says for which totals and numbers of splits no
subtraction of a split from what is left can wrap; `request_withdrawal` admits smaller ones too, and
run `cluster` has one. The amounts of such a plan wrap around, no balance pays the largest, and
`PlanCompletes` does not speak of it.

`SplitsSumToTotal` is what `generate_plan.rs` says of the amounts, and fails (run `splits_exceed`).
`PendingIsWhatIsNotPaid` compares the report of `query_encrypted_balance` with the transfers that were made,
which the circuit cannot see: it may be behind by those broadcast and not yet recorded, and by nothing else.

### DomainTransferFlow

The app's page for one name (`Page`) and one wallet (`Me`), on top of the lifecycle program. `view`
is what the last finished fetch shows (`none`: no vault of mine, `outside` and `inside`: where the
name is), `step[h]` and `tx[h]` how far a handler of `useHydentity.ts` is and what became of its
transaction, `fetch[f]` a `fetchVaults` under way with what it has read, `loose` transactions that
nobody waits for any more.

`Click` is a button that `page.tsx` shows and does not disable, with the simulation before the send;
the setup page's and the claim button count as buttons of a page that shows no vault. What lands is an
action of `HydentityProgram`, in the state of that moment: preflight is skipped, so a transaction
that simulated well may still fail. `PollStatus`, `PollHeight` and `PollError` are the ways out of
`pollForConfirmation`; the middle one may follow an executed transaction, because status and height
are read by two requests. `SubmitMark` and `SkipMark` are the second half of
`transferDomainToVault`, whose failure is swallowed. A fetch keeps what it read (the vault and the
SNS record at one moment; the code reads them one after the other) until it ends, so fetches overtake
each other. `Shown` is the page's effect on the list of vaults, which ignores an empty list.
`Elsewhere` is everybody else, the owner in another program included. The withdraw button is left
out: `drained_authority` shows what it can do.

### ConfigCircuits

`config` is the configuration the cluster keeps and `result` the success and error code of the last
circuit; nothing but the hash is visible outside, so `HashChanges` is about the one thing a client
can compare. `UpdatePrivateConfig` takes the groups of fields one after the other, as the code does:
destinations and count independently of each other, minimum and maximum each against the *old*
other bound. That the cluster runs one circuit at a time on the newest configuration is external.
Timestamps and the flag for automatic withdrawals are left out; a `Some` is a set with one element.

### ExecutionPlan

One step per draw and per turn of a loop of `generateSplitAmounts` and `generateDelays`: `count`,
`weigh`, `split`, `delay`, `done`, or `thrown` for a division by zero. The hashes that random values
are derived from are replaced by any value of the range they are reduced to. The invariants relate
the splits so far to what they leave, so they speak about the middle of the loop too.

### TransactionForwarding

One call at a time over a batch of `N` signed transactions. `status[t]` is what the chain made of
each, `asked` what the relayer was given, `results` what the call has collected. `Begin` is any of the
methods: one transaction, all, all with delays, or the rest from an offset. An error carries no
results; the caller looks at the chain and resumes with the first transaction not executed. The timer
of the relayer's request is cleared before the body is read: `Answered` and `BodyRead` are two
steps, with nothing but the relayer to lead from one to the other.

### PrivacyRouting

`authority`, `onkey`, `pool` and `outside` are the money; the rest is the hook (`key`, `ready`, `busy`,
`seeds`), the page's two handlers (`job`) and the service singleton (`service`), which remembers one
key for all requests. A `job` goes through the awaits of `handleWithdraw`: the vault pays the derived
key, then the server deposits what lies there. A call may be carried out and its answer lost, refused,
or carried out `late` when nobody waits any more. `inits` is the bag of initialisations under way, of the effect or
of the button: two of them overlap, and the failure of one takes back what the other set. Left out: a wallet extension that changes the account
without disconnecting, navigation inside the app without a reload, the
recovery functions offered in the console, fee estimates.

### WithdrawalTracking

`list[i]` is the list of one instance of the hook, `stage[p]` the await at which the request for plan `p`
is, `chain[p]` what became of it. A request whose answer is lost is one that was submitted and whose poll fails. Cancelling changes the list, and clears `isLoading` whatever is under
way. The modal that requests and the list that displays each call the hook and share nothing, so
`Instances` is a constant; the theorems hold for any number.

### DelaySettings

Two thumbs on a slider, two delays with a number and a unit, and the preset displayed. Each handler is
an action with the correction it makes to the other bound; the effect that derives the preset
is part of each. The numbers are the code's own.

### PrivacySettings, PrivateConfig, DestinationList, SettingsSave, ConfigWizard

`PrivacySettings` has what becomes of splits and delays: `Accepted` is `validateConfig`, `Encoded` the two bytes of a delay
in `configData`, `Decoded` the delay read off them, `FormatDuration` the number and unit that a delay is displayed
with, rounded. `EncodingLosesNothing` says that accepted delays survive the encoding.

`PrivateConfig` is `initializeConfig` from await to await: `key` (up to ten tries), `building`, `sent`,
`finalizing`; `transaction`, `late`, `account`, `queued` and `stored` are the chain and the cluster. It
ends in `Returns` or `Throws`, at which a form resumes. One call is under way at a time, which is what the
forms allow (`OneSaveAtATime`). `lib.rs` has no entry `store_private_config` at this commit; the model
takes the program to have the handler that the crate's sources have. `updateConfig` and
`fetchConfigStatus`, which no component calls, and a wallet switched in the middle of a save are
left out.

`DestinationList` has the errors as the JavaScript array with holes that they are: a spread fills
holes, `filter` drops them. `ErrorsMove` distinguishes the settings page from the wizard.

`SettingsSave` and `ConfigWizard` put a form around both. In `SettingsSave` each save leaves a timer that
resets the status three seconds later, whatever is shown by then. The page passes the wallet's
address where the hook wants the vault's (`VaultGiven`), so the program refuses every request, and only
mock mode ever says saved. In `ConfigWizard`, `Reviewed` is what the last step displays and `Requested` what is handed
to the hook; `StoredShowsAsReviewed` follows the configuration from there through validation and encoding to the
cluster and displays it again (`ShownAs`). It speaks of what is sent: the number of destinations, splits, delays and
the flag for automatic withdrawal. Threshold and destinations are not (Disagreements). No page uses the wizard or `WithdrawalStatus`.

### SnsDomains, SetupWizard, DomainRegistration

`SnsDomains` is the hook for the wallet's names: `fetching[w]` requests are under way for wallet `w`, and
an answer is applied whoever is connected then. The adapter catches every error and answers with the
names it has so far; `failed` remembers that it did. A name belongs to a wallet or to some other account
(`OtherOwner`).

`SetupWizard` is the setup page over it: five steps, a name chosen or entered and verified, destinations,
settings, and `initializeVault` from await to await, the fetch of the vaults at its end included. The answer to the
request that sends the transaction may be lost: the page goes back, and the transaction may be executed later
(`late`). `pollForConfirmation` asks for the status first
and then for the height, between which the transaction may be executed. `testMode` is a constant of a session,
since nothing calls `toggleTestMode`; in test mode the creation fails in simulation.

`DomainRegistration` is the form that the page mounts and unmounts as names come and go, and as the page shows something
else in its place (`hidden`: test mode, a name entered by hand, a later step); a job is one call of
`handleRegister`, which goes on without its form. The name may come to belong to another account than the one that
pays (`Registers`), and is then never listed; `RegisteredIsListed` speaks of names registered for the wallet that
paid. The caches in the browser's storage are left
out of both.

## Runs

| Run | Instance | Shows |
|---|---|---|
| `lifecycle` | 2 names, 2 users, 4 lamports each, rent 1, nonce up to 2 | coupling of accounts, flag, owner changes, and that the program implements `DomainCustody` |
| `delegation` | 1 name, 2 users, 3 lamports each, rent 1, kept back, nonce up to 2, clock up to 1 | policies validate, nonces tell versions apart, money is conserved, names in custody can be reclaimed and deposits withdrawn |
| `transfer_flow` | 1 name, 2 users, one handler besides Sync and one loose transaction at a time, fair | a half done transfer is finished or its vault closed; the page catches up with the chain; no handler takes a missing transaction for a success |
| `cluster` | plan: 1 executor, 2 or 3 splits, totals 3, 14 and 15, draws 0 and 1, clock up to 9, expiry after 6, fair; configuration: 2 owners, 2 addresses and slots, up to 2 splits, delays 1 and 2, versions modulo 3 | each split is paid at most once; record and status agree with the transfers, and the report is behind by those under way alone; a completed plan is final; a plan that can be paid in time is completed or cancelled; no sequence of updates leaves what `store_private_config` accepts; every change shows in the hash |
| `sdk` | plan: 4 kinds of policies, amounts around multiples of a dust of 10, weights 1, 3 and 10; forwarding: 3 transactions, every method, either forwarder, fair | splits add up and none is dust; what is returned was executed; a batch completes if resumed |
| `settings_page` | thumbs at 1, 4 and 10, numbers 0, 1, 9 and 75; 2 destinations, 2 timers, fair | the maximum keeps its distance; one save at a time; a status goes |
| `wizard` | 2 destinations, the presets and 2 settings entered (90 minutes to a week; a maximum beyond two bytes), 2 thresholds, 1 configuration on its way | destinations valid past the first step; what the cluster has got displays as it was reviewed |
| `setup` | page: 1 wallet, 2 names, 1 destination, 1 level and settings that are refused, fair; form: 2 wallets, 2 names of which 1 is entered, 2 jobs, fair | complete means there is a vault; creation ends; the form shows what it registers; what is registered for the payer is listed |
| `withdrawals` | routing: 1 wallet, 4 units, buffer 1, 2 initialisations, one late call, fair; tracking: 3 plans, 1 instance | the derived key is swept in the end; what is listed is real, nothing is pushed off |
| `drained_authority` | 1 name, 2 users, 8 lamports each, rent 2, the dispatched `withdraw_direct` | **violated**: withdrawing the whole balance deletes the authority, and the name cannot be reclaimed |
| `plan_cancelled` | as `cluster` | **violated**: splits of a cancelled plan are approved |
| `splits_exceed` | as `cluster`, totals 14 and 15 | **violated**: 15 in two splits is paid as 7 and 9 |

Why the bounds are enough. Two users are an old and a new owner, and a third party to each name's
dealings when there are two names; two names let the money of one end up with the other, and nothing
else relates names. Rent 1 with 3 or 4 lamports lets a user open a vault (3); rent 2 makes
the gap between empty and rent-exempt visible. Two nonce steps allow a sale and a resale, or an
update and a sale. For plans, 3 is less than two splits of the dust floor make, so that the amounts of three wrap around; 14 and 15 leave a remainder for three and for two splits, base amounts
of 4 to 7 make the perturbation 0 or 1 either way and the least delays let three splits
finish at the moment of expiry, the longest do not. For the page, one handler besides Sync and one loose
transaction already meet each other, the timer and all that happens elsewhere; rent for one vault
lets each user open one after the other.

In the circuits two slots have a first, a last and an only one, up to two splits make a minimum and a
maximum that are equal or apart, and the values entered lie on, inside and outside each limit; a version that
wraps after three makes two changes in a row fall on the same version but one, and the addresses share the
byte that the hash looks at. In the SDK's plan the amounts lie just below, at and just above the multiples of
the dust floor. Three transactions have a first, a middle and a last. Four units of money with a
buffer of one let a route fail with money on the key and the vault able or unable to pay
again. Three plans overlap in every way of two and one is left over. The delays typed are
zero, a unit, an odd number and one that does not fit in an hour. One fetch per wallet meets another of the
wallet before or after, and a job meets a second one. One late transaction suffices, since late ones only
add to a set. Of the levels of privacy one suffices, as none but the inverted settings is told from another. Two
initialisations of one wallet are those of two buttons, or of a button and the effect; with a wallet of its own each
would act on money that the other never touches.

Deadlock is not checked where users may stop, batches end, or wallets, nonces and clocks are
bounded; where a cfg does not say so, it is.

### Fairness

The app's waits (`settings_page`, `setup`): requests are
answered or time out, polls end, timers fire, the user signs or does not. This is what the code's own loops
and timers give; in `setup` also that blocks are produced, since a poll ends when the block
height has passed.

`transfer_flow`: besides, the timer is a `setInterval` that never stops, and a transaction that was
sent lands, fails or expires; not every read of the timer fails, is late or falls back on the vault's flag,
and `mark_domain_transferred` is not dropped for ever. The user presses Sync again and again while it
is offered: `LimboEnds` needs this, nothing in the code retries by itself.

`withdrawals`: the owner routes again and again while it is offered, and what is possible again and again
(the vault's payment, the deposit of all that is there) happens some time. `SweptInTheEnd` is conditional
on routing being offered again and again, which it need not be (Disagreements).

`sdk`: the caller's own steps, that a relayer ends the answers it begins (the code has no timer
there), that the caller resumes, the chain and the relayer get on with what they have, and that what is
tried again and again works some time.

`cluster`: time passes, and the executor, which is external, goes on with a split it may pay and does
not give up for ever. `PlanCompletes` speaks of plans whose splits fall due before they expire.

`delegation`, `lifecycle` and `wizard` check safety and assume nothing.

A violated run is listed in `PROJECT.json` under `findings` with the sentence the code disagrees with.

## Disagreements met while modelling

Where the code does something else than a document, a comment or a message of the repository says, the
models follow the code. `drained_authority`, `plan_cancelled` and `splits_exceed` are runs; the others can be read off
the modules named. Paths are below `src/`: `program` is `programs/hydentity/src`, `circuits` is
`programs/hydentity/encrypted-ixs`, `app` is `apps/hydentity-app/src`, `sdk` is
`packages/hydentity-sdk/src`.

Program and circuits:

* `HydentityProgram`: `claim_vault` (`program/lib.rs:225`, "Reset policy for new owner") replaces the destinations
  and keeps splits, delays, mode and `enabled` of the owner before.
* `VaultDelegation`: sessions are temporary permissions from "vault owners" (`program/state/delegate_session.rs:6`);
  `validate_permission` never looks at `granted_by`, so one granted by the owner before stays good.
* `WithdrawalPlan`: "Generate split amounts that sum to the total" (`circuits/generate_plan.rs:158`): the remainder
  of the division is in what remains for the last split, and added to one once more (213), so the splits exceed the
  total by it. `SplitsSumToTotal` is the sentence and fails in `splits_exceed`; `SplitsExceedByRemainder` is what holds.
* `WithdrawalPlan`: "Ensure minimum dust threshold" (`circuits/generate_plan.rs:198`): for totals that are small for
  their splits (not `Enough`) the floor can exceed what is left, and the subtraction after it (206) wraps; the plan
  then has a split that no balance pays, and never completes.
* `WithdrawalPlan`: "Track earliest upcoming split" (`circuits/generate_plan.rs:309`): the loop returns the schedule of
  the last one.
* `WithdrawalPlan`: "Each split can vary by ±20% from base" (`circuits/generate_plan.rs:178`): 16 random bits reduced by a
  range of millions stay at the lower end of it, and the last split gets what the others leave.
* `WithdrawalPlan`: "Pending/InProgress -> Expired (time passes)" (`circuits/execute_split.rs:250`): no circuit sets
  `Expired`.
* `ConfigCircuits`: "Unused slots are filled with zeros" and only the first `destination_count` are valid
  (`circuits/types.rs:33`): updates and rotations set destinations and count independently.
* `ConfigCircuits`: "New values must pass same validation as initial config" (`circuits/update_config.rs:39`): a new
  minimum is compared with the old maximum, and dropped with success reported.

SDK:

* `ExecutionPlan`: "Minimum number of splits" (`sdk/utils/randomness.ts:75`): the dust floor goes before it, unless
  `validateAmount` was called first.
* `ExecutionPlan`: "Maximum delay in seconds" (`sdk/utils/randomness.ts:153`): a claim that overrides one bound can
  invert the range, and delays then go up from the minimum.
* `TransactionForwarding`: "Relayer request timed out after" (`sdk/implementations/relayer-forwarder.ts:160`): the timer is
  cleared before the body is read, so a body that never ends holds the call and the batch.
* `TransactionForwarding`: from an offset "with fixed delay" (`sdk/interfaces/transaction-forwarder.ts:60`): the first
  transaction after the offset is not delayed.

App:

* `DomainTransferFlow`: "You can reclaim domain ownership at any time" (`docs/gitbook/getting-started/creating-a-vault.md:118`):
  Close Vault is not disabled while Transfer Domain runs (`app/app/vaults/[domain]/page.tsx:1263`), and closes the
  vault that the name is then in.
* `PrivacyRouting`: "Privacy features never lock you out of your funds" (`docs/gitbook/security.md:69`): after a failed
  deposit (`page.tsx:351`) only another route moves what lies on the derived key, and needs new money in the vault.
* `PrivacyRouting`: "same wallet always gets the same keypair" (`docs/gitbook/how-it-works/privacy-cash.md:43`): the
  hook (`app/hooks/usePrivacyCash.ts:169`) drops the key on a disconnection only. An account changed without one
  is not in the model.
* `WithdrawalTracking`: "Withdrawal was cancelled" (`app/hooks/useWithdrawals.ts:628`): a plan that arrives later (469)
  puts the withdrawal back in progress.
* `WithdrawalTracking`: the component "Displays active and completed withdrawals for a vault"
  (`app/components/WithdrawalStatus.tsx:14`): it has a list of its own, which the requesting modal does not fill.
* `DelaySettings`: "ensure max is at least MIN_DELAY_GAP greater" (`app/app/settings/page.tsx:193`): rounding to the largest
  unit takes the maximum below the minimum, as with 75 minutes.
* `DestinationList`: removing a destination moves the errors of others (`app/app/settings/page.tsx:291`): "Invalid Solana
  address" (328) under a valid one.
* `PrivateConfig`: "Config stored successfully via Arcium MPC" (`app/hooks/usePrivateConfig.ts:560`): said also after a
  wait that timed out or a computation that failed.
* `PrivateConfig`: "MPC will automatically initiate withdrawal when vault balance exceeds this amount"
  (`app/app/settings/page.tsx:1024`): of the automatic withdrawal the flag is sent and not the amount.
* `ConfigWizard`: "Review your settings before saving." (`app/components/PrivateConfigSetup.tsx:483`): shown are the threshold
  and every destination, sent are neither the one nor, but for eight bytes of the first, the others
  (`app/hooks/usePrivateConfig.ts:393`); delays are shown rounded, 90 minutes as "2 hr" (678).
* `SnsDomains`: "List of domains owned by the connected wallet" (`app/hooks/useSnsDomains.ts:30`): an answer is stored
  whoever is connected by then.
* `SnsDomains`: "Error message if fetch failed" (`app/hooks/useSnsDomains.ts:36`): the adapters catch every error, and
  the page never shows one (`app/app/setup/page.tsx:391`).
* `SetupWizard`: "Ownership will be verified before vault creation" (`app/app/setup/page.tsx:503`): the name can be edited
  during its verification.
* `SetupWizard`: "These addresses are encrypted with MPC and never exposed on-chain" (`app/app/setup/page.tsx:550`):
  what is confirmed, but for the name, is stored nowhere.
* `SetupWizard`: "Transaction expired: block height exceeded" (`app/lib/pollForConfirmation.ts:37`): status and height
  are two answers, between which the transaction may be executed.
* `DomainRegistration`: "Domain registered successfully!" (`app/components/DevnetDomainRegistration.tsx:175`): shown from
  the signature on, whatever becomes of the transaction.
* `DomainRegistration`: "the owner might be set to a different account" (`app/hooks/useDevnetDomainRegistration.ts:71`): the
  adapter asks for accounts by their owner (`app/adapters/sns-adapter.ts:112`), so such a name is never listed,
  although its registration is announced as a success and no fetch fails.
* `DomainRegistration`: "Error is already set by the hook" (`app/components/DevnetDomainRegistration.tsx:42`): not for a
  label refused before the `try` (`app/hooks/useDevnetDomainRegistration.ts:445`).

## Proofs

Every safety property of a passing run is proved, for every value of the constants that the named
assumptions and the hypotheses of its theorem admit. A theorem `Spec => []P` is proved from an inductive
invariant: it holds initially, each step keeps it (one proof step per action), and it implies `P`. What
the invariants add to the properties is said below; TLC checked each on an instance before it was
proved.

### Program: `HydentityProgram_proofs`

For any names, users and amounts, under `KeysAssumption` (a derived address is no user's key) and
`NumbersAssumption` (parameters are naturals, rent is positive, the default policy is well formed):

* `TypeCorrect`: `Spec => []TypeOK`.
* `AccountsStayCoupled`: the accounts of a name exist together and stay rent-exempt. Proved on top of
  `TypeOK`; the authority is the exception that `withdraw_direct` makes.
* `FlagIsNeverStale`: a set flag means that the SNS record names the vault's authority. It is inductive
  with `TypeOK` and `AccountsCoupled`: only users move names by `SnsTransfer`, the record names no user
  while the flag is set, and every instruction that moves the name clears the flag.
* `VaultFollowsRegistry`: an action property, from the same invariants.
* `ReservedRentNeverLocksOut`: with `ReservesRent` the vault authority is never deleted while its vault
  lives; the strengthening (`AuthorityStays`) says that vault and authority exist together. Without
  `ReservesRent` the property fails, and `drained_authority` shows how.
* `ProgramImplementsCustody`: initial states map to initial states, and every step to a step of
  `DomainCustody` or a stutter. `FlagMeansCustody` is what makes `ReclaimDomain` a `Release` and
  `ClaimVault` and `CloseVault` stutters.

For the composition with delegation, on top of the lemmas above:

* `DelegationTypeCorrect`: no balance below zero, no nonce out of its width.
* `PoliciesStayValid`: every stored policy validates. `claim_vault` writes a policy without validating
  it; the invariant carries because it keeps the settings and puts one destination.
* `NonceTellsPoliciesApart`: an action property: a policy changes only with a higher nonce while the
  vault exists.
* `DelegatesLockNothingIn`, under `ReservesRent`: `AuthorityStays` survives `deposit_to_umbra`, which
  leaves the rent where it is; so no delegate keeps an owner from the name or from the funds.
* `DelegationImplementsCustody`: the three invariants of the lifecycle hold in the composition, where a
  step is one of the program or touches neither the SNS record nor a vault's owner and flag.
* `NoLamportsAppear`: for finite sets of names and users `Supply` stays what it was. Each handler
  changes a sum in one or two places, and by how much is a lemma on sums (`SumChange`); the rest is
  arithmetic over what one transaction moves.

### Page: `DomainTransferFlow_proofs`

For any bounds on busy handlers and loose transactions:

* `FlowImplementsProgram`: the app's behaviours, forgetting the app, are the program's: `FlowSpec =>
  Spec`. Whatever is proved of the program therefore holds under the app; `FlowTypeCorrect` uses it so.
* `FlowTypeCorrect`: every variable keeps its type through handlers, polls, fetches and reloads.
* `SuccessesHappened`: a handler that goes on as after a success has a transaction that landed, but for
  the second transaction of a transfer, whose failure the code swallows. The strengthening
  (`FetchesAtEnd`) says that a handler fetches only as its last step, so the end of a fetch is never
  taken for the end of a wait.

### Circuits: `ClusterCircuits_proofs`

For plans of any length and any amounts, delays, draws, balances and clocks, under `ConfigAssumption`
(what `store_private_config` admits), `BoundsAssumption` and `IdleAssumption`:

* `PlansExceedByRemainder`, for any number of executors, draws and splits: where `Enough` is asked for, the splits of a
  plan take the remainder of the division more than the total, and nothing else; so they sum to it just where it
  divides evenly. By induction over the splits: as long as nothing wraps, what is left and what is taken make up the
  total, and no split takes more than its share and a fifth. `AsDrawn` says that a plan keeps its shape and the
  amounts it was drawn with, whoever approves, records or cancels. `LargeTotalsAreEnough` says when there is enough:
  from 25 times the dust floor on, for up to ten splits. With the constants of `generate_plan.rs` that is 250,000
  lamports, and 24 times would not do. TLC evaluates for each total of run `cluster` on which side it is
  (`SmallAndLargeTotals`). Of smaller amounts, which `request_withdrawal` admits (any above zero), the theorem says nothing:
  there the dust floor can exceed what is left, and the subtraction wraps.

The others take `OneExecutor` as a hypothesis, since two executors break what they rest on:

* `SplitsPaidOnce`: `Spec => []RecordMatchesTransfers`. The inductive invariant is `Shape /\ InHand /\
  Books`. `InHand` says that what an executor holds is a split still unexecuted: without it the record
  of a split could follow a payment that was recorded before. It needs check 2 of
  `execute_withdrawal_split` when the split is taken, and `OneExecutor` when it is recorded. No step
  depends on the status of the plan, so a cancellation does no harm here.
* `PendingIsBehindByUnrecorded`: what is reported as pending of an open plan is what the transfers made so far have left
  of it and, too much, those that are not yet recorded. By `Books` each recorded split was paid once, so the splits fall
  into those unpaid, those paid and recorded, and those paid and in hand; a second executor could pay one of them
  again, and the transfers would then exceed what the report gives up.
* `CompletedMeansAll`: the executed count is the number of splits executed, by the cardinality of the
  set of them, and Completed means that none is left, unless cancelled.
* `CompletedStays`: follows from it: nobody holds a split of a completed plan.
* `NextSplitPasses`: the split that `get_next_split` picks is the least that is due, which exists by the
  least number principle, and fails no check but expiry and balance.
* `WithdrawalPlanTypeCorrect`: the type, from all of the above: `AsDrawn` gives the amounts their width
  and `CompletedMeansAll` bounds the executed count.

Of the configuration, for any limits, sets of addresses and updates: `CircuitsTypeCorrect`,
`UpdatesStayValid` and `ChangesShow`.
`ChangesShow` rests on every circuit raising the version by one modulo a modulus greater than one.

### SDK: `Sdk_proofs`

* `PlanTypeCorrect`, `SplitsStayAboveDust`, `ValidatedAmountsAreSplit`, `DelaysAlwaysFit`, for any
  amounts, policies, weights and dust floor. The invariant says that while splits are made what remains
  is enough for the rest at the floor each.
* `SplitsMakeTheAmount`: `SumInv` says that in the middle of the loop the splits so far and what they
  leave make the amount, and that past it nothing is left.
* `ForwardingTypeCorrect`, `ReturnedIsExecuted`, `OrderIsKept`, for batches of any length. `Cursor` says
  that a call under way is at the transaction after those it has collected and, over a connection, that
  all behind it are executed.

### App

* `PrivateConfig_proofs`, settings: `SplitsAlwaysValid`, `PresetsStick`, `MaxUnitChangeKeepsGap` and
  `EncodingLosesNothing`, for any positions of the slider and any integers typed.
* `PrivateConfig_proofs`, saving: `SavesDoNotOverlap`, from `LoadingWhileWaiting`: the hook's
  `isLoading` is set just while the call waits for something, whichever of its awaits it is at and
  however it ends.
* `PrivateConfig_proofs`, wizard: `SubmittedDestinationsValid` and `StoredIsShownAsReviewed`, together
  with `LoadingWhileWaiting` one inductive invariant: a list that was valid when its step was left is
  untouched until the step is entered again, the arguments of a call are fixed when it starts on the last page, and
  what its transaction brought to the cluster is what it encoded. That the display of it is the same follows from
  `EncodingLosesNothing` and `Accepted`, whatever numbers are typed.
* `Setup_proofs`, page: `SetupTypeCorrect` and `AnnouncedVaultExists`, for any wallets, names and
  levels. The invariant has, besides the types: a verification under way finds the page on its first
  step; the vault under creation is for the name the page holds, or for none (a late fetch selects a
  name only where there is none); an executed transaction has left a vault.
* `Setup_proofs`, registration: `RegistrationIsDisplayed`, for any wallets, names and number of jobs: at
  most one job has the form (`OneRegistering`), jobs that go on without it tell it nothing.
* `WithdrawalTracking_proofs`: `TrackingTypeCorrect`, `ListedWasTakenOn`, `ListsOnlyGrow`, for any
  number of withdrawals and components. The strengthening is that what has not been submitted is not on
  the chain: a step that changes entries of list, chain and stages as `Entries` says keeps the
  invariant, and every step does.

### Sums: `SumTheorems`

The induction theorems of the library take a predicate as a parameter, which no prover here can
instantiate. A set serves instead: every set of naturals that is not empty has a least element (from the
well-foundedness of their order), so a set with 0 and every successor is all of `Nat`
(`InductionOnSet`), and likewise for the subsets of a finite set (`InductionOnSubsets`). From the
definition of the community modules' folds, which choose an element and go on with the rest, the lemmas
derive that the sum of a function over a finite set exists, that any element may be taken out first,
what a change in one place does to it, and how it splits over two halves of the set. The same induction
proves what `GenerateSplitAmounts`, a recursive function, computes.

### What is only model-checked

Liveness under fairness: `LimboEnds`, `ViewCatchesUp`, `PlanCompletes`, `BatchCompletes`, `StatusGoes`,
`CreationEnds`, `RegisteredIsListed`, `SweptInTheEnd`. `PrivacyRouting`, of which only liveness is
checked, has no theorem; `SnsDomains`, `DestinationList` and `PrivateConfig` are covered as parts of
what uses them.

Some theorems state properties that no run checks: `TypeCorrect`, `PlanTypeCorrect`,
`ForwardingTypeCorrect`, `CircuitsTypeCorrect`, `TrackingTypeCorrect`, `WithdrawalPlanTypeCorrect`,
`FlowImplementsProgram`, `SplitsAlwaysValid`, `PresetsStick`, `EncodingLosesNothing`,
`ValidatedAmountsAreSplit`, `DelaysAlwaysFit`, `OrderIsKept` and `PlansExceedByRemainder`. Their formulas
stand in the modules of the components, for TLC to evaluate whenever one of them is changed; since they
are proved, no run repeats them.

## Not modelled

* The request and configuration accounts (`request_withdrawal.rs`, `store_private_config.rs`): compiled
  behind the `arcium` feature or commented out of the build, without an entry in `lib.rs`;
  `request_withdrawal` as written slices 16 bytes out of an array of 8. What the app assumes of
  them is in `PrivateConfig` and `WithdrawalTracking`.
* The simplified circuits in `encrypted-ixs/src`: two halves at fixed delays, no state.
* The copies of lifecycle handlers under `instructions/` that `lib.rs` replaces.
* The SDK's clients, builders and addresses: wrappers around one instruction. `executePrivateClaim` cannot
  run, since `getPolicy` always returns `null`; `depositIntoMixer` is a placeholder.
* The claim page: it plays the steps of a claim with timers and sends nothing.
* The RPC proxy, the choice of the network (which reloads the page), layout and cards, animations (a page
  is taken to show the step it is in at once), wording, scripts.
* Parts of modelled components: the SPL-token branch of `deposit_to_umbra`; the choice of a destination for
  each split, `get_plan_summary` and `query_withdrawal_history`; on the vault page the withdraw button without routing, debug
  helpers; the console's recovery functions; overlapping executors, which `Workers` can express and for
  which `RecordMatchesTransfers` does not hold.

* In routing, a wallet extension that changes accounts without a disconnection; in the hook of the private
  configuration, its update and status functions, which no component calls.

Hazards without a property are of two kinds: those on which the code contradicts what the repository says of
it (Disagreements), where the property that would cover them fails; and two executors of one plan, on which
the repository is silent. Not listed as hazards are a page whose user has no vault left and a
name that stays selected after the wallet has changed, both of which simulation answers.

## What could follow

1. An abstract payout (a split is unpaid, in hand, or paid) that `WithdrawalPlan` implements.
2. A safety property of `PrivacyRouting`, that no money is lost between vault, derived key and pool, with its proof.
3. The request accounts and their callbacks, once the program has an entry for them.
