--------------------------- MODULE ExecutionPlan ---------------------------
(***************************************************************************)
(* The plan of a private claim that the SDK draws from a policy:           *)
(* PolicyEngine.generateExecutionPlan over generateSplitAmounts and        *)
(* generateDelays, one step for each draw and for each turn of a loop.     *)
(*                                                                         *)
(* Random values are derived from a seed: any value may come out.  BigInt  *)
(* division by zero throws; a remainder has the sign of the dividend,      *)
(* which is never negative, whatever the sign of the divisor.              *)
(***************************************************************************)
EXTENDS Integers, Sequences, Functions

CONSTANTS
    Totals,      \* amounts that are claimed
    Policies,    \* minSplits, maxSplits, minDelay and maxDelay (in seconds)
    Ratios,      \* what a split's weight may be: 1..1000 in the code
    Dust         \* DUST_THRESHOLD_LAMPORTS

Policy == [minSplits : Nat, maxSplits : Nat, minDelay : Nat, maxDelay : Nat]

ASSUME TotalsAssumption == Totals \subseteq Nat
ASSUME PoliciesAssumption == Policies \subseteq Policy
ASSUME RatiosAssumption == Ratios \subseteq Nat \ {0}
ASSUME DustAssumption == Dust \in Nat \ {0}

VARIABLES
    total, policy,          \* the arguments
    phase,                   \* "count", "weigh", "split", "delay", "done", or "thrown"
    actualSplits,
    ratios, totalRatio,
    amounts, remaining,     \* the splits so far, and what they leave
    delays

args == <<total, policy>>
weights == <<actualSplits, ratios, totalRatio>>
planVars == <<args, phase, weights, amounts, remaining, delays>>

-----------------------------------------------------------------------------
\* What low + random % range may be.
Drawn(low, range) == low..(low + (IF range > 0 THEN range ELSE -range) - 1)

Lesser(a, b) == IF a <= b THEN a ELSE b
Greater(a, b) == IF a >= b THEN a ELSE b

\* PolicyEngine.validateAmount, which the generator does not call.
ValidateAmount(amount, minSplits) == amount >= Dust * minSplits

SplitRange == policy.maxSplits - policy.minSplits + 1
DelayRange == policy.maxDelay - policy.minDelay

-----------------------------------------------------------------------------
(***************************************************************************)
(* generateSplitAmounts                                                    *)
(***************************************************************************)

\* How many splits: a draw from the policy's range, or as many as stay above the floor.
Count ==
    /\ phase = "count" /\ SplitRange # 0
    /\ \E numSplits \in Drawn(policy.minSplits, SplitRange) :
           actualSplits' = Lesser(numSplits, total \div Dust)
    /\ IF actualSplits' <= 1
       THEN phase' = "delay" /\ amounts' = <<total>> /\ remaining' = 0
       ELSE phase' = "weigh" /\ UNCHANGED <<amounts, remaining>>
    /\ UNCHANGED <<args, ratios, totalRatio, delays>>

Weigh ==
    /\ phase = "weigh"
    /\ \E r \in Ratios :
           /\ ratios' = Append(ratios, r)
           /\ totalRatio' = totalRatio + r
    /\ phase' = IF Len(ratios') = actualSplits THEN "split" ELSE "weigh"
    /\ UNCHANGED <<args, actualSplits, amounts, remaining, delays>>

\* What the splits after the next one need at least.
FloorOfRest == Dust * (actualSplits - Len(amounts) - 1)

\* Mutant: the cap leaves nothing for the splits to come.
AmountCappedByRemaining ==
    Lesser(Greater((total * ratios[Len(amounts) + 1]) \div totalRatio, Dust), remaining)

\* The next split: in proportion to its weight, raised to the floor, and then cut to
\* leave the others theirs.
NextAmount ==
    Lesser(Greater((total * ratios[Len(amounts) + 1]) \div totalRatio, Dust),
           remaining - FloorOfRest)

\* Mutant: the last split gets its proportion, as the others.
SplitAllByRatio ==
    /\ phase = "split"
    /\ Len(amounts) < actualSplits
    /\ LET amount == NextAmount
       IN  /\ amounts' = Append(amounts, amount)
           /\ remaining' = remaining - amount
    /\ phase' = IF Len(amounts') = actualSplits THEN "delay" ELSE "split"
    /\ UNCHANGED <<args, weights, delays>>

\* A turn of the loop; the last split gets the remainder.
Split ==
    /\ phase = "split"
    /\ LET last == Len(amounts) = actualSplits - 1
           amount == IF last THEN remaining ELSE NextAmount
       IN  /\ amounts' = Append(amounts, amount)
           /\ remaining' = remaining - amount
           /\ phase' = IF last THEN "delay" ELSE "split"
    /\ UNCHANGED <<args, weights, delays>>

-----------------------------------------------------------------------------
(***************************************************************************)
(* generateDelays                                                          *)
(***************************************************************************)

\* A delay between each split and the next; the plan is complete when there is none left.
Delay ==
    /\ phase = "delay"
    /\ IF Len(delays) >= Len(amounts) - 1
       THEN phase' = "done" /\ UNCHANGED delays
       ELSE /\ DelayRange + 1 # 0
            /\ \E d \in Drawn(policy.minDelay, DelayRange + 1) : delays' = Append(delays, d)
            /\ UNCHANGED phase
    /\ UNCHANGED <<args, weights, amounts, remaining>>

\* A range of no values: the remainder by zero throws.
Throw ==
    /\ \/ phase = "count" /\ SplitRange = 0
       \/ phase = "delay" /\ Len(delays) < Len(amounts) - 1 /\ DelayRange + 1 = 0
    /\ phase' = "thrown"
    /\ UNCHANGED <<args, weights, amounts, remaining, delays>>

-----------------------------------------------------------------------------
PlanInit ==
    /\ total \in Totals /\ policy \in Policies
    /\ phase = "count"
    /\ actualSplits = 0 /\ ratios = <<>> /\ totalRatio = 0
    /\ amounts = <<>> /\ remaining = total
    /\ delays = <<>>

PlanNext == Count \/ Weigh \/ Split \/ Delay \/ Throw

PlanSpec == PlanInit /\ [][PlanNext]_planVars

-----------------------------------------------------------------------------
(***************************************************************************)
(* Properties                                                              *)
(***************************************************************************)

\* Every variable holds a value of its type.
PlanTypeOK ==
    /\ total \in Totals /\ policy \in Policies
    /\ phase \in {"count", "weigh", "split", "delay", "done", "thrown"}
    /\ actualSplits \in Nat
    /\ ratios \in Seq(Ratios) /\ totalRatio \in Nat
    /\ amounts \in Seq(Nat) /\ remaining \in Nat
    /\ delays \in Seq(Nat)

\* No split of several is below the floor: raising one to it never takes the others' part.
SplitsAboveDust ==
    phase \in {"delay", "done"} /\ Len(amounts) > 1 =>
        \A i \in 1..Len(amounts) : amounts[i] >= Dust

\* The splits make the amount: nothing of it is lost or paid twice.
SplitsAddUp == phase \in {"delay", "done"} => SumFunction(amounts) = total

\* An amount that validateAmount accepts is split as often as the policy asks at least.
ValidatedIsSplit ==
    phase = "done" /\ policy.minSplits >= 1 /\ ValidateAmount(total, policy.minSplits) =>
        Len(amounts) >= policy.minSplits

\* A policy as the program stores it: its ranges are not inverted.
PolicyInOrder == policy.minSplits <= policy.maxSplits /\ policy.minDelay <= policy.maxDelay

\* With such a policy, there is one delay between any two splits, within the range.
DelaysFit ==
    phase = "done" /\ PolicyInOrder =>
        /\ Len(delays) = Len(amounts) - 1
        /\ \A i \in 1..Len(delays) : delays[i] \in policy.minDelay..policy.maxDelay
=============================================================================
