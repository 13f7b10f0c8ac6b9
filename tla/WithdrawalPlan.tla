--------------------------- MODULE WithdrawalPlan ---------------------------
(***************************************************************************)
(* A private withdrawal as the MPC circuits of                             *)
(* programs/hydentity/encrypted-ixs keep it: generate_plan.rs draws a plan *)
(* of splits, execute_split.rs approves a split, records it as executed or *)
(* cancels the plan, query_balance.rs reports what is pending.             *)
(*                                                                         *)
(* Each circuit call is atomic, but paying a split takes two of them with  *)
(* a transfer in between: execute_withdrawal_split approves, the cluster   *)
(* signs and broadcasts, mark_split_executed records.  Other calls, the    *)
(* owner's cancellation among them, can come in between.  The repository   *)
(* holds the circuits and not the cluster that calls them; its workers     *)
(* are external here, and their number is a parameter.                     *)
(*                                                                         *)
(* Amounts and delays are drawn from ArcisRNG; a draw is any value of its  *)
(* width.  Destinations, plan_id and signatures are left out: no circuit   *)
(* reads them back.  Splits are numbered from 1.                           *)
(***************************************************************************)
EXTENDS Integers, FiniteSets, FiniteSetsExt, Functions

CONSTANTS
    Workers,        \* executors of the cluster
    Idle,           \* a worker with nothing in hand
    Totals,         \* amounts a withdrawal is requested for
    Balances,       \* vault balances execute_withdrawal_split is told
    MinSplits, MaxSplits,   \* range of the stored configuration
    MinDelay, MaxDelay,     \* likewise
    Dust,           \* least amount of a split (10,000 in the code)
    KeepPerSplit,   \* left over for each later split (1,000)
    MaxRandom,      \* largest random draw for an amount (2^16 - 1)
    U64,            \* number of u64 values (2^64)
    Grace,          \* seconds a split may run early (60)
    Lifetime,       \* seconds until a plan expires (7 days)
    MaxTime         \* bound of the clock

VARIABLES
    plan,   \* the WithdrawalPlan, NoPlan before it is generated
    job,    \* job[w]: the split worker w has in hand, and how far it is
    paid,   \* paid[i]: transfers broadcast for split i
    now     \* Unix time as the circuits are told it

vars == <<plan, job, paid, now>>

\* store_private_config admits no other configuration.
ASSUME ConfigAssumption ==
    /\ MinSplits \in Nat \ {0} /\ MaxSplits \in Nat /\ MinSplits <= MaxSplits
    /\ MinDelay \in Nat /\ MaxDelay \in Nat /\ MinDelay <= MaxDelay

ASSUME BoundsAssumption ==
    /\ IsFiniteSet(Workers)
    /\ Totals \subseteq Nat /\ Balances \subseteq Nat
    /\ Dust \in Nat /\ KeepPerSplit \in Nat /\ MaxRandom \in Nat
    /\ U64 \in Nat \ {0} /\ Grace \in Nat /\ Lifetime \in Nat
    /\ MaxTime \in Nat \ {0}

Statuses == {"Pending", "InProgress", "Completed", "Cancelled"}
Splits   == [amount : Nat, scheduled_at : Nat, executed_at : Nat]
NoPlan   == [status |-> "None"]
Indices  == 1..MaxSplits
Jobs     == [split : Indices, executed_at : Nat \ {0}, broadcast : BOOLEAN]

ASSUME IdleAssumption == Idle \notin Jobs

(***************************************************************************)
(* generate_plan.rs                                                        *)
(***************************************************************************)

\* A split that is not the last: the base amount give or take a fifth, at most
\* what leaves KeepPerSplit for each of the `later` splits, and at least Dust,
\* in that order.
SplitAmount(base, remaining, later, random) ==
    LET range   == base \div 5
        drawn   == base - range + (random % (2 * range + 1))
        ceiling == (remaining - later * KeepPerSplit) % U64
        capped  == IF drawn > ceiling THEN ceiling ELSE drawn
    IN IF capped < Dust THEN Dust ELSE capped

\* Mutant: every split is drawn against the whole total.
AmountsOfWhole(total, count, random, bonus) ==
    [i \in 1..count |-> SplitAmount(total \div count, total, count - i, random[i])]

\* The last split gets what remains, and then split `bonus` gets the remainder
\* of the division on top: it is in what remains, too.
GenerateSplitAmounts(total, count, random, bonus) ==
    LET base == total \div count
        left[i \in 1..count] ==
            IF i = 1 THEN total
            ELSE (left[i - 1] - SplitAmount(base, left[i - 1], count - i + 1,
                                            random[i - 1])) % U64
    IN [i \in 1..count |->
           ((IF i = count THEN left[i]
                          ELSE SplitAmount(base, left[i], count - i, random[i]))
            + IF i = bonus THEN total % count ELSE 0) % U64]

\* The times of the splits: each delay is from one split to the next, and the first from now.
Schedules(count) ==
    {times \in [1..count -> now..(now + count * MaxDelay)] :
        \A i \in 1..count :
            times[i] - (IF i = 1 THEN now ELSE times[i - 1]) \in MinDelay..MaxDelay}

GenerateWithdrawalPlan(total, count, amounts, times) ==
    [status |-> "Pending", total_amount |-> total, split_count |-> count,
     splits |-> [i \in 1..count |-> [amount |-> amounts[i],
                                     scheduled_at |-> times[i], executed_at |-> 0]],
     expires_at |-> now + Lifetime, executed_count |-> 0]

Unexecuted == {i \in DOMAIN plan.splits : plan.splits[i].executed_at = 0}

\* Mutant: the first split that is left, due or not.
GetAnySplit ==
    [found |-> Unexecuted # {}, wait_until |-> 0,
     next_index |-> IF Unexecuted = {} THEN 0 ELSE Min(Unexecuted)]

\* get_next_split: the first split that is due; while none is, a time to wait
\* for, which each later split overwrites.
GetNextSplit ==
    LET due      == {i \in Unexecuted : plan.splits[i].scheduled_at <= now}
        upcoming == {i \in Unexecuted \ due : \A j \in due : i < j}
    IN [found      |-> due # {},
        next_index |-> IF due = {} THEN 0 ELSE Min(due),
        wait_until |-> IF upcoming = {} THEN 0
                       ELSE plan.splits[Max(upcoming)].scheduled_at]

(***************************************************************************)
(* execute_split.rs                                                        *)
(***************************************************************************)

\* Whether a split fails the check that reports error code `code`.
Fails(split, code, vault_balance) ==
    CASE code = 2 -> split.executed_at # 0
      [] code = 3 -> now > plan.expires_at
      [] code = 4 -> now < split.scheduled_at - Grace
      [] code = 5 -> vault_balance < split.amount

\* The error_code of execute_withdrawal_split, 0 for success: the checks are made
\* in the order of their codes.  The status of the plan is not checked.
ErrorCode(i, vault_balance) ==
    IF i \notin DOMAIN plan.splits THEN 1
    ELSE LET failed == {code \in 2..5 : Fails(plan.splits[i], code, vault_balance)}
         IN IF failed = {} THEN 0 ELSE Min(failed)

ExecuteWithdrawalSplit(w, i, vault_balance) ==
    /\ plan # NoPlan
    /\ job[w] = Idle
    /\ ErrorCode(i, vault_balance) = 0
    /\ job' = [job EXCEPT ![w] = [split |-> i, executed_at |-> now,
                                  broadcast |-> FALSE]]
    /\ UNCHANGED <<plan, paid, now>>

\* The cluster signs and sends the transfer, or gives up on it.
Broadcast(w) ==
    /\ job[w] # Idle /\ ~job[w].broadcast
    /\ job' = [job EXCEPT ![w].broadcast = TRUE]
    /\ paid' = [paid EXCEPT ![job[w].split] = @ + 1]
    /\ UNCHANGED <<plan, now>>

GiveUp(w) ==
    /\ job[w] # Idle /\ ~job[w].broadcast
    /\ job' = [job EXCEPT ![w] = Idle]
    /\ UNCHANGED <<plan, paid, now>>

\* Mutant: counts the split without recording when it was executed.
RecordedWithoutTime(i, executed_at) ==
    LET count == plan.executed_count + 1
    IN [plan EXCEPT !.executed_count = count,
                    !.status = IF count >= plan.split_count THEN "Completed"
                                                            ELSE "InProgress"]

\* Mutant: the count is compared before it is raised.
RecordedLate(i, executed_at) ==
    [plan EXCEPT !.splits[i].executed_at = executed_at,
                 !.executed_count = plan.executed_count + 1,
                 !.status = IF plan.executed_count >= plan.split_count
                            THEN "Completed" ELSE "InProgress"]

\* The plan after mark_split_executed.  Neither the status nor an earlier record
\* of the same split is checked.
Recorded(i, executed_at) ==
    LET count == plan.executed_count + 1
    IN [plan EXCEPT !.splits[i].executed_at = executed_at,
                    !.executed_count = count,
                    !.status = IF count >= plan.split_count THEN "Completed"
                                                            ELSE "InProgress"]

MarkSplitExecuted(w) ==
    /\ job[w] # Idle /\ job[w].broadcast
    /\ plan' = IF job[w].split \in DOMAIN plan.splits
               THEN Recorded(job[w].split, job[w].executed_at) ELSE plan
    /\ job' = [job EXCEPT ![w] = Idle]
    /\ UNCHANGED <<paid, now>>

\* Mutant: a completed plan can be cancelled as well.
CancelAnyPlan ==
    /\ plan # NoPlan
    /\ plan' = [plan EXCEPT !.status = "Cancelled"]
    /\ UNCHANGED <<job, paid, now>>

\* At the owner's request; anybody else's changes nothing.
CancelWithdrawalPlan ==
    /\ plan # NoPlan
    /\ plan.status # "Completed"
    /\ plan' = [plan EXCEPT !.status = "Cancelled"]
    /\ UNCHANGED <<job, paid, now>>

(***************************************************************************)
(* query_balance.rs                                                        *)
(***************************************************************************)
Amounts == [i \in DOMAIN plan.splits |-> plan.splits[i].amount]

\* Mutant: adds up every split of the plan.
PendingAmountOfAll ==
    IF plan.status \in {"Pending", "InProgress"}
    THEN SumFunction(Amounts) % U64 ELSE 0

\* pending_withdrawals of the BalanceInfo a user is shown.
PendingAmount ==
    IF plan.status \in {"Pending", "InProgress"}
    THEN SumFunctionOnSet(Amounts, Unexecuted) % U64 ELSE 0

-----------------------------------------------------------------------------
Init ==
    /\ plan = NoPlan
    /\ job = [w \in Workers |-> Idle]
    /\ paid = [i \in Indices |-> 0]
    /\ now = 1

\* generate_withdrawal_plan, for an amount request_withdrawal let through.  A
\* draw of the width of an index or a delay reaches every value of its range.
Generate ==
    /\ plan = NoPlan
    /\ \E total \in Totals, count \in MinSplits..MaxSplits :
       \E random \in [1..count -> 0..MaxRandom], bonus \in 1..count, times \in Schedules(count) :
             plan' = GenerateWithdrawalPlan(total, count,
                         GenerateSplitAmounts(total, count, random, bonus), times)
    /\ UNCHANGED <<job, paid, now>>

Tick ==
    /\ now < MaxTime
    /\ now' = now + 1
    /\ UNCHANGED <<plan, job, paid>>

Worker(w) ==
    \/ \E i \in Indices, vault_balance \in Balances :
          ExecuteWithdrawalSplit(w, i, vault_balance)
    \/ Broadcast(w)
    \/ GiveUp(w)
    \/ MarkSplitExecuted(w)

Next == Generate \/ CancelWithdrawalPlan \/ Tick \/ \E w \in Workers : Worker(w)

Spec == Init /\ [][Next]_vars

\* External: time passes, and an executor that finds a split it may pay takes it up, goes on with
\* it, and does not give up for ever.
Fairness ==
    /\ WF_vars(Generate) /\ WF_vars(Tick)
    /\ \A w \in Workers :
           /\ WF_vars(\E i \in Indices, b \in Balances : ExecuteWithdrawalSplit(w, i, b))
           /\ SF_vars(Broadcast(w)) /\ WF_vars(MarkSplitExecuted(w))

FairSpec == Spec /\ Fairness

(***************************************************************************)
(* Properties                                                              *)
(***************************************************************************)
Plans(count) ==
    [status : Statuses, total_amount : Totals, split_count : {count},
     splits : [1..count -> Splits], expires_at : Nat, executed_count : 0..count]

\* Every variable holds a value of its type; executed_count never passes
\* split_count.
TypeOK ==
    /\ plan = NoPlan \/ \E count \in MinSplits..MaxSplits : plan \in Plans(count)
    /\ job \in [Workers -> Jobs \cup {Idle}]
    /\ paid \in [Indices -> Nat]
    /\ now \in 1..MaxTime

\* The plan's record of a split agrees with the transfers that were made: one
\* if it is recorded as executed or a worker is about to record it, else none.
\* No split is paid twice, whatever is cancelled, refused or given up meanwhile.
RecordMatchesTransfers ==
    plan # NoPlan => \A i \in DOMAIN plan.splits :
        paid[i] = (IF i \in Unexecuted THEN 0 ELSE 1)
                  + Cardinality({w \in Workers : /\ job[w] # Idle
                                                 /\ job[w].split = i
                                                 /\ job[w].broadcast})

\* A plan is Completed just when every split is executed, unless it is cancelled,
\* and executed_count counts the executed splits.
CompletedWhenAllExecuted ==
    plan # NoPlan =>
        /\ plan.executed_count = plan.split_count - Cardinality(Unexecuted)
        /\ plan.status = "Completed" => Unexecuted = {}
        /\ Unexecuted = {} => plan.status \in {"Completed", "Cancelled"}

\* The split get_next_split picks is one execute_withdrawal_split approves, if
\* the plan has not expired and the vault has the money.
NextSplitIsApproved ==
    plan # NoPlan /\ GetNextSplit.found =>
        \A vault_balance \in Balances :
            ErrorCode(GetNextSplit.next_index, vault_balance) \in {0, 3, 5}

\* What the transfers broadcast so far took out of the vault.
Transferred == SumFunction([i \in DOMAIN plan.splits |-> paid[i] * plan.splits[i].amount])

\* Splits whose transfer is broadcast and not yet recorded.
Unrecorded ==
    {i \in DOMAIN plan.splits :
        \E w \in Workers : job[w] # Idle /\ job[w].split = i /\ job[w].broadcast}

\* What a user is told is pending of an open plan is what the transfers made so far have left of
\* it, and too much by just the transfers that are broadcast and not yet recorded: the report is
\* behind by those and by nothing else, whatever is refused, given up or expires meanwhile.
PendingIsWhatIsNotPaid ==
    plan # NoPlan /\ plan.status \in {"Pending", "InProgress"} =>
        PendingAmount = (SumFunction(Amounts) - Transferred
                         + SumFunctionOnSet(Amounts, Unrecorded)) % U64

\* A plan that is completed stays as it is: no cancellation, no late call.
CompletedIsFinal ==
    [][plan # NoPlan /\ plan.status = "Completed" => UNCHANGED plan]_vars

\* "Generate split amounts that sum to the total", as generate_plan.rs says.
SplitsSumToTotal == plan # NoPlan => SumFunction(Amounts) = plan.total_amount

\* The most that is drawn for one split: its share and a fifth.
Most(total, count) == total \div count + (total \div count) \div 5

\* Enough is asked for to be split so often: what is left before each split is never less than
\* what generate_split_amounts takes to be left of it, the least amount and something for each
\* later split.  request_withdrawal takes any amount above zero; where this does not hold, the
\* subtraction of a split from what is left can wrap.
Enough(total, count) ==
    /\ total + count <= U64
    /\ Dust <= Most(total, count)
    /\ \A i \in 1..(count - 1) :
         LET left == total - (i - 1) * Most(total, count)
         IN  Dust <= left /\ (count - i) * KeepPerSplit <= left

\* Where there is enough, the splits take the remainder of the division more than was asked for,
\* and nothing else: it is in what remains for the last split, and paid on top of one.
SplitsExceedByRemainder ==
    plan # NoPlan /\ Enough(plan.total_amount, plan.split_count) =>
        SumFunction(Amounts) = plan.total_amount + (plan.total_amount % plan.split_count)

\* A plan whose splits the vault can pay, and which fall due before it expires and before the
\* bound of the clock, is carried out or cancelled in the end: no check locks a split out, no
\* failed transfer blocks another, and a record that comes late, after a cancellation even,
\* completes the plan or leaves it open to completion.
PlanCompletes ==
    (plan # NoPlan /\ MaxTime <= plan.expires_at
         /\ \A i \in DOMAIN plan.splits :
                /\ plan.splits[i].scheduled_at <= MaxTime
                /\ \E b \in Balances : plan.splits[i].amount <= b)
    ~> (plan # NoPlan /\ plan.status \in {"Completed", "Cancelled"})

\* No split is approved once the plan is cancelled.
CancelledPlanApprovesNothing ==
    [][plan # NoPlan /\ plan.status = "Cancelled" =>
          \A w \in Workers : job[w] = Idle => job'[w] = Idle]_vars
=============================================================================
