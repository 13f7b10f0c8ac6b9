----------------------------- MODULE Sdk_proofs -----------------------------
(***************************************************************************)
(* Proofs about the SDK.                                                   *)
(*                                                                         *)
(* The plan of a claim (ExecutionPlan), for every amount, policy, weight   *)
(* and floor: the running remainder always keeps the floor for each split  *)
(* to come, so raising a split to the floor and cutting it back never undo *)
(* each other, and the splits add up to the amount.                        *)
(*                                                                         *)
(* The forwarders (TransactionForwarding), for batches of any length and   *)
(* callers that resume any number of times.                                *)
(***************************************************************************)
EXTENDS ExecutionPlan, TransactionForwarding, SumTheorems

-----------------------------------------------------------------------------
(***************************************************************************)
(* Arithmetic                                                              *)
(***************************************************************************)

\* As many splits as the quotient allows take no more than the amount.
LEMMA QuotientFits ==
    ASSUME NEW t \in Nat, NEW n \in Nat, n <= t \div Dust PROVE Dust * n <= t
  BY DustAssumption, SMT

\* An amount of n times the floor allows n splits.
LEMMA QuotientReaches ==
    ASSUME NEW t \in Nat, NEW n \in Nat, t >= Dust * n PROVE n <= t \div Dust
  BY DustAssumption, SMT

\* A number divided by the least amount is a number.
LEMMA QuotientIsNat == ASSUME NEW t \in Nat PROVE t \div Dust \in Nat
  BY DustAssumption, SMT

\* The floor of n + 1 splits is that of n and one more.
LEMMA OneMore == ASSUME NEW n \in Int PROVE Dust * n = Dust * (n - 1) + Dust /\ Dust * n \in Int
  BY DustAssumption, SMT

\* The floors of some splits make a number.
LEMMA FloorsPositive == ASSUME NEW n \in Nat PROVE Dust * n \in Nat
  BY DustAssumption, SMT

-----------------------------------------------------------------------------
(***************************************************************************)
(* The inductive invariant                                                 *)
(***************************************************************************)

\* Before the first split: nothing is drawn that the count has not asked for.
FreshInv ==
    /\ phase \in {"count", "weigh"} => amounts = <<>> /\ remaining = total
    /\ phase = "count" => ratios = <<>>
    /\ phase = "weigh" => Len(ratios) < actualSplits

\* The weights are all drawn when they are divided by, and their sum is not zero.
WeightInv ==
    /\ Len(ratios) > 0 => totalRatio > 0
    /\ phase = "split" => Len(ratios) = actualSplits /\ Len(amounts) < actualSplits

\* What remains is at least the floor of every split to come.
RoomInv ==
    /\ phase \in {"weigh", "split"} =>
           actualSplits >= 2 /\ remaining >= Dust * (actualSplits - Len(amounts))
    /\ phase = "split" => \A k \in 1..Len(amounts) : amounts[k] >= Dust

\* The count reaches the policy's minimum, and the splits reach the count.
CountInv ==
    /\ phase \in {"weigh", "split"} /\ policy.minSplits >= 1
            /\ ValidateAmount(total, policy.minSplits) => actualSplits >= policy.minSplits
    /\ phase \in {"delay", "done"} => Len(amounts) >= 1
    /\ phase \in {"delay", "done"} /\ policy.minSplits >= 1
            /\ ValidateAmount(total, policy.minSplits) => Len(amounts) >= policy.minSplits

\* The delays drawn so far.
DelayInv ==
    /\ phase \in {"count", "weigh", "split"} => delays = <<>>
    /\ phase = "delay" => Len(delays) <= Len(amounts) - 1
    /\ phase = "done" => Len(delays) = Len(amounts) - 1
    /\ PolicyInOrder =>
           \A k \in 1..Len(delays) : delays[k] \in policy.minDelay..policy.maxDelay

PlanInv == PlanTypeOK /\ FreshInv /\ WeightInv /\ RoomInv /\ SplitsAboveDust /\ CountInv /\ DelayInv

\* The policy's fields are numbers.
LEMMA PolicyFields ==
    ASSUME policy \in Policies
    PROVE  /\ policy.minSplits \in Nat /\ policy.maxSplits \in Nat
           /\ policy.minDelay \in Nat /\ policy.maxDelay \in Nat
  BY PoliciesAssumption DEF Policy

\* At first nothing is drawn.
LEMMA PlanInitEstablishes == PlanInit => PlanInv
<1> SUFFICES ASSUME PlanInit PROVE PlanInv
  OBVIOUS
<1> USE DEF PlanInit
<1>1. PlanTypeOK
  BY TotalsAssumption DEF PlanTypeOK
<1>2. FreshInv /\ WeightInv /\ RoomInv /\ SplitsAboveDust /\ CountInv /\ DelayInv
  BY DEF FreshInv, WeightInv, RoomInv, SplitsAboveDust, CountInv, DelayInv
<1> QED
  BY <1>1, <1>2 DEF PlanInv

-----------------------------------------------------------------------------
(***************************************************************************)
(* Each step keeps it                                                      *)
(***************************************************************************)

\* The number of splits is one that the amount allows.
LEMMA CountStep == PlanInv /\ Count => PlanInv'
<1> SUFFICES ASSUME PlanInv, Count PROVE PlanInv'
  OBVIOUS
<1> USE DEF PlanInv
<1>0. /\ policy.minSplits \in Nat /\ policy.maxSplits \in Nat
      /\ policy.minDelay \in Nat /\ policy.maxDelay \in Nat
      /\ total \in Nat /\ total \div Dust \in Nat
  BY PolicyFields, TotalsAssumption, QuotientIsNat DEF PlanTypeOK
<1>1. PICK n \in Drawn(policy.minSplits, SplitRange) : actualSplits' = Lesser(n, total \div Dust)
  BY DEF Count
<1>2. n \in Nat /\ n >= policy.minSplits
  BY <1>0, <1>1, SMT DEF Drawn, SplitRange
<1>3. actualSplits' \in Nat /\ actualSplits' <= total \div Dust
  BY <1>0, <1>1, <1>2, SMT DEF Lesser
<1>4. Dust * actualSplits' <= total
  BY <1>0, <1>3, QuotientFits
<1>5. ValidateAmount(total, policy.minSplits) => actualSplits' >= policy.minSplits
  BY <1>0, <1>1, <1>2, QuotientReaches, SMT DEF ValidateAmount, Lesser
<1>6. CASE actualSplits' <= 1
  <2>1. /\ phase' = "delay" /\ amounts' = <<total>> /\ remaining' = 0
        /\ UNCHANGED <<args, ratios, totalRatio, delays>>
    BY <1>6 DEF Count
  <2>2. Len(amounts') = 1 /\ amounts'[1] = total /\ amounts' \in Seq(Nat)
    BY <2>1, <1>0
  <2>3. PlanTypeOK'
    BY <2>1, <2>2, <1>3 DEF PlanTypeOK, args
  <2>4. FreshInv' /\ WeightInv' /\ RoomInv' /\ SplitsAboveDust'
    BY <2>1, <2>2, SMT DEF FreshInv, WeightInv, RoomInv, SplitsAboveDust
  <2>5. CountInv'
    BY <2>1, <2>2, <1>0, <1>3, <1>5, <1>6, SMT DEF CountInv, ValidateAmount, args
  <2>6. DelayInv'
    BY <2>1, <2>2, SMT DEF DelayInv, PolicyInOrder, args, Count
  <2> QED
    BY <2>3, <2>4, <2>5, <2>6
<1>7. CASE ~(actualSplits' <= 1)
  <2>1. phase' = "weigh" /\ UNCHANGED <<args, ratios, totalRatio, delays, amounts, remaining>>
    BY <1>7 DEF Count
  <2>2. phase = "count"
    BY DEF Count
  <2>3. PlanTypeOK'
    BY <2>1, <1>3 DEF PlanTypeOK, args
  <2>4. FreshInv' /\ WeightInv' /\ SplitsAboveDust'
    BY <2>1, <2>2, <1>3, <1>7, SMT DEF FreshInv, WeightInv, SplitsAboveDust, args
  <2>5. RoomInv'
    BY <2>1, <2>2, <1>3, <1>4, <1>7, SMT DEF FreshInv, RoomInv, args
  <2>6. CountInv'
    BY <2>1, <1>5, SMT DEF CountInv, ValidateAmount, args
  <2>7. DelayInv'
    BY <2>1, <2>2, SMT DEF DelayInv, PolicyInOrder, args
  <2> QED
    BY <2>3, <2>4, <2>5, <2>6, <2>7
<1> QED
  BY <1>6, <1>7

\* A weight is drawn for the next split.
LEMMA WeighStep == PlanInv /\ Weigh => PlanInv'
<1> SUFFICES ASSUME PlanInv, Weigh PROVE PlanInv'
  OBVIOUS
<1> USE DEF PlanInv
<1>1. PICK r \in Ratios : ratios' = Append(ratios, r) /\ totalRatio' = totalRatio + r
  BY DEF Weigh
<1>2. /\ phase = "weigh" /\ UNCHANGED <<args, actualSplits, amounts, remaining, delays>>
      /\ phase' = IF Len(ratios') = actualSplits THEN "split" ELSE "weigh"
  BY DEF Weigh
<1>3. r \in Nat /\ r > 0 /\ totalRatio \in Nat
  BY RatiosAssumption, SMT DEF PlanTypeOK
<1>4. ratios' \in Seq(Ratios) /\ Len(ratios') = Len(ratios) + 1
  BY <1>1 DEF PlanTypeOK
<1>5. PlanTypeOK'
  BY <1>1, <1>2, <1>3, <1>4 DEF PlanTypeOK, args
<1>6. Len(ratios) \in Nat /\ actualSplits \in Nat
  BY DEF PlanTypeOK
<1>7. FreshInv'
  BY <1>2, <1>4, <1>6, SMT DEF FreshInv, args
<1>8. WeightInv'
  BY <1>1, <1>2, <1>3, <1>4, <1>6, SMT DEF WeightInv, FreshInv, RoomInv
<1>9. RoomInv' /\ SplitsAboveDust'
  BY <1>2, SMT DEF RoomInv, SplitsAboveDust, FreshInv
<1>10. CountInv' /\ DelayInv'
  BY <1>2, SMT DEF CountInv, DelayInv, ValidateAmount, PolicyInOrder, args
<1> QED
  BY <1>5, <1>7, <1>8, <1>9, <1>10

\* The next split is above the floor, and leaves the rest theirs.
LEMMA NextAmountFits ==
    ASSUME PlanInv, phase = "split", Len(amounts) # actualSplits - 1
    PROVE  /\ NextAmount \in Nat /\ NextAmount >= Dust
           /\ remaining - NextAmount >= Dust * (actualSplits - (Len(amounts) + 1))
<1> USE DEF PlanInv
<1>1. /\ Len(amounts) \in Nat /\ actualSplits \in Nat /\ Len(amounts) + 1 < actualSplits
      /\ remaining \in Nat /\ total \in Nat /\ totalRatio \in Nat /\ totalRatio > 0
      /\ Dust \in Nat
  BY TotalsAssumption, DustAssumption, SMT DEF PlanTypeOK, WeightInv, RoomInv
<1>2. ratios[Len(amounts) + 1] \in Nat
  <2>1. Len(ratios) = actualSplits /\ ratios \in Seq(Ratios)
    BY DEF PlanTypeOK, WeightInv
  <2>2. Len(amounts) + 1 \in 1..Len(ratios)
    BY <1>1, <2>1, SMT
  <2>3. ratios[Len(amounts) + 1] \in Ratios
    BY <2>1, <2>2
  <2> QED
    BY <2>3, RatiosAssumption
<1> DEFINE share == (total * ratios[Len(amounts) + 1]) \div totalRatio
           left == actualSplits - Len(amounts)
<1>3. total * ratios[Len(amounts) + 1] \in Nat
  BY <1>1, <1>2, SMT
<1>4. share \in Nat
  <2> SUFFICES ASSUME NEW n \in Nat, NEW d \in Nat, d > 0 PROVE n \div d \in Nat
    BY <1>1, <1>3
  <2> QED
    BY SMT
<1>5. remaining >= Dust * left
  BY DEF RoomInv
<1>6. Dust * left = Dust * (left - 1) + Dust /\ Dust * (left - 1) \in Int
  <2>1. left \in Int /\ left - 1 \in Int
    BY <1>1
  <2> HIDE DEF left
  <2> QED
    BY <2>1, OneMore
<1>7. FloorOfRest = Dust * (left - 1) /\ actualSplits - (Len(amounts) + 1) = left - 1
  BY <1>1, SMT DEF FloorOfRest
<1>8. NextAmount = Lesser(Greater(share, Dust), remaining - Dust * (left - 1))
  BY <1>7 DEF NextAmount
<1> HIDE DEF share, left
<1>9. /\ NextAmount \in Nat /\ NextAmount >= Dust
      /\ remaining - NextAmount >= Dust * (left - 1)
  BY <1>1, <1>4, <1>5, <1>6, <1>8, SMT DEF Lesser, Greater
<1> QED
  BY <1>7, <1>9

\* A split gets its share, and the later ones keep their floors.
LEMMA SplitStep == PlanInv /\ Split => PlanInv'
<1> SUFFICES ASSUME PlanInv, Split PROVE PlanInv'
  OBVIOUS
<1> USE DEF PlanInv
<1>1. phase = "split" /\ UNCHANGED <<args, weights, delays>>
  BY DEF Split
<1>2. /\ Len(amounts) \in Nat /\ actualSplits \in Nat /\ remaining \in Nat /\ Dust \in Nat
      /\ Len(amounts) < actualSplits /\ actualSplits >= 2
  BY <1>1, DustAssumption, SMT DEF PlanTypeOK, WeightInv, RoomInv
<1>3. CASE Len(amounts) = actualSplits - 1
  <2>1. amounts' = Append(amounts, remaining) /\ phase' = "delay" /\ remaining' = 0
    BY <1>2, <1>3, SMT DEF Split
  <2>2. remaining >= Dust
    <3>1. Dust * (actualSplits - Len(amounts)) = Dust
      BY <1>2, <1>3, SMT
    <3> QED
      BY <1>1, <3>1 DEF RoomInv
  <2>3. /\ amounts' \in Seq(Nat) /\ Len(amounts') = actualSplits
        /\ \A k \in 1..Len(amounts') : amounts'[k] >= Dust
    BY <1>1, <1>2, <1>3, <2>1, <2>2, SMT DEF PlanTypeOK, RoomInv
  <2>4. PlanTypeOK'
    BY <1>1, <2>1, <2>3 DEF PlanTypeOK, args, weights
  <2>5. FreshInv' /\ WeightInv' /\ RoomInv' /\ SplitsAboveDust'
    BY <1>1, <2>1, <2>3, SMT DEF FreshInv, WeightInv, RoomInv, SplitsAboveDust, weights
  <2>6. CountInv'
    BY <1>1, <1>2, <2>1, <2>3, SMT DEF CountInv, ValidateAmount, args
  <2>7. DelayInv'
    BY <1>1, <1>2, <2>1, <2>3, SMT DEF DelayInv, PolicyInOrder, args
  <2> QED
    BY <2>4, <2>5, <2>6, <2>7
<1>4. CASE Len(amounts) # actualSplits - 1
  <2>1. /\ amounts' = Append(amounts, NextAmount) /\ phase' = "split"
        /\ remaining' = remaining - NextAmount
    BY <1>4 DEF Split
  <2>2. /\ NextAmount \in Nat /\ NextAmount >= Dust
        /\ remaining' >= Dust * (actualSplits - (Len(amounts) + 1))
    BY <1>1, <1>4, <2>1, NextAmountFits
  <2>3. /\ amounts' \in Seq(Nat) /\ Len(amounts') = Len(amounts) + 1
        /\ \A k \in 1..Len(amounts') : amounts'[k] >= Dust
    <3>1. amounts \in Seq(Nat) /\ \A k \in 1..Len(amounts) : amounts[k] >= Dust
      BY <1>1 DEF PlanTypeOK, RoomInv
    <3> HIDE DEF NextAmount
    <3>2. amounts' \in Seq(Nat) /\ Len(amounts') = Len(amounts) + 1
      BY <2>1, <2>2, <3>1
    <3>3. ASSUME NEW k \in 1..Len(amounts') PROVE amounts'[k] >= Dust
      BY <2>1, <2>2, <3>1, <3>2, <3>3, SMT
    <3> QED
      BY <3>2, <3>3
  <2>4. remaining' \in Nat
    <3>1. Dust * (actualSplits - (Len(amounts) + 1)) \in Nat
      <4>1. actualSplits - (Len(amounts) + 1) \in Nat
        BY <1>2, SMT
      <4> QED
        BY <4>1, FloorsPositive
    <3> QED
      BY <1>2, <2>1, <2>2, <3>1, SMT
  <2>5. PlanTypeOK'
    BY <1>1, <2>1, <2>3, <2>4 DEF PlanTypeOK, args, weights
  <2>6. FreshInv' /\ WeightInv' /\ SplitsAboveDust'
    BY <1>1, <1>2, <1>4, <2>1, <2>3, SMT DEF FreshInv, WeightInv, SplitsAboveDust, weights
  <2>7. RoomInv'
    BY <1>1, <1>2, <2>1, <2>2, <2>3 DEF RoomInv, weights
  <2>8. CountInv' /\ DelayInv'
    BY <1>1, <2>1, SMT DEF CountInv, ValidateAmount, DelayInv, PolicyInOrder, args, weights
  <2> QED
    BY <2>5, <2>6, <2>7, <2>8
<1> QED
  BY <1>3, <1>4

\* A delay is drawn for the next split.
LEMMA DelayStep == PlanInv /\ Delay => PlanInv'
<1> SUFFICES ASSUME PlanInv, Delay PROVE PlanInv'
  OBVIOUS
<1> USE DEF PlanInv
<1>1. phase = "delay" /\ UNCHANGED <<args, weights, amounts, remaining>>
  BY DEF Delay
<1>2. /\ policy.minSplits \in Nat /\ policy.maxSplits \in Nat
      /\ policy.minDelay \in Nat /\ policy.maxDelay \in Nat
  BY PolicyFields DEF PlanTypeOK
<1>3. Len(delays) \in Nat /\ Len(amounts) \in Nat /\ Len(delays) <= Len(amounts) - 1
  BY <1>1, SMT DEF PlanTypeOK, DelayInv
<1>4. phase' \in {"delay", "done"}
  BY <1>1 DEF Delay
<1>5. FreshInv' /\ WeightInv' /\ RoomInv'
  BY <1>1, <1>4, SMT DEF FreshInv, WeightInv, RoomInv, weights
<1>6. SplitsAboveDust' /\ CountInv'
  BY <1>1, <1>4, SMT DEF SplitsAboveDust, CountInv, ValidateAmount, args
<1>7. CASE Len(delays) >= Len(amounts) - 1
  <2>1. phase' = "done" /\ UNCHANGED delays
    BY <1>7 DEF Delay
  <2>2. PlanTypeOK'
    BY <1>1, <2>1 DEF PlanTypeOK, args, weights
  <2>3. DelayInv'
    BY <1>1, <1>3, <1>7, <2>1, SMT DEF DelayInv, PolicyInOrder, args
  <2> QED
    BY <1>5, <1>6, <2>2, <2>3
<1>8. CASE ~(Len(delays) >= Len(amounts) - 1)
  <2>1. /\ phase' = "delay" /\ DelayRange + 1 # 0
        /\ \E d \in Drawn(policy.minDelay, DelayRange + 1) : delays' = Append(delays, d)
    BY <1>1, <1>8 DEF Delay
  <2>2. PICK d \in Drawn(policy.minDelay, DelayRange + 1) : delays' = Append(delays, d)
    BY <2>1
  <2>3. /\ d \in Nat
        /\ PolicyInOrder => d \in policy.minDelay..policy.maxDelay
    BY <1>2, <2>2, SMT DEF Drawn, DelayRange, PolicyInOrder
  <2>4. /\ delays' \in Seq(Nat) /\ Len(delays') = Len(delays) + 1
    BY <2>2, <2>3 DEF PlanTypeOK
  <2>5. PlanTypeOK'
    BY <1>1, <2>1, <2>4 DEF PlanTypeOK, args, weights
  <2>6. DelayInv'
    BY <1>1, <1>3, <1>8, <2>1, <2>2, <2>3, <2>4, SMT
    DEF DelayInv, PolicyInOrder, args, PlanTypeOK
  <2> QED
    BY <1>5, <1>6, <2>5, <2>6
<1> QED
  BY <1>7, <1>8

\* A request that is refused makes no plan.
LEMMA ThrowStep == PlanInv /\ Throw => PlanInv'
<1> SUFFICES ASSUME PlanInv, Throw PROVE PlanInv'
  OBVIOUS
<1>1. phase' = "thrown" /\ UNCHANGED <<args, weights, amounts, remaining, delays>>
  BY DEF Throw
<1>2. PlanTypeOK'
  BY <1>1 DEF PlanInv, PlanTypeOK, args, weights
<1>3. FreshInv' /\ WeightInv' /\ RoomInv' /\ SplitsAboveDust' /\ CountInv' /\ DelayInv'
  BY <1>1, SMT DEF PlanInv, FreshInv, WeightInv, RoomInv, SplitsAboveDust, CountInv, DelayInv,
                   PolicyInOrder, args, weights
<1> QED
  BY <1>2, <1>3 DEF PlanInv

\* The invariant of the plan.
LEMMA PlanInvIsInvariant == PlanSpec => []PlanInv
<1>1. PlanInit => PlanInv
  BY PlanInitEstablishes
<1>2. PlanInv /\ [PlanNext]_planVars => PlanInv'
  <2> SUFFICES ASSUME PlanInv, [PlanNext]_planVars PROVE PlanInv'
    OBVIOUS
  <2>1. CASE UNCHANGED planVars
    BY <2>1 DEF PlanInv, PlanTypeOK, FreshInv, WeightInv, RoomInv, SplitsAboveDust, CountInv, DelayInv,
                ValidateAmount, PolicyInOrder, planVars, args, weights
  <2>2. CASE Count
    BY <2>2, CountStep
  <2>3. CASE Weigh
    BY <2>3, WeighStep
  <2>4. CASE Split
    BY <2>4, SplitStep
  <2>5. CASE Delay
    BY <2>5, DelayStep
  <2>6. CASE Throw
    BY <2>6, ThrowStep
  <2> QED
    BY <2>1, <2>2, <2>3, <2>4, <2>5, <2>6 DEF PlanNext
<1> QED
  BY <1>1, <1>2, PTL DEF PlanSpec

-----------------------------------------------------------------------------
\* Amounts, remainders, weights and delays stay natural numbers: the cap and the remainder of
\* generateSplitAmounts never go below zero.
THEOREM PlanTypeCorrect == PlanSpec => []PlanTypeOK
<1>1. PlanInv => PlanTypeOK
  BY DEF PlanInv
<1> QED
  BY <1>1, PlanInvIsInvariant, PTL

\* No split of several is below the dust floor, for any amount, policy and weights.
THEOREM SplitsStayAboveDust == PlanSpec => []SplitsAboveDust
<1>1. PlanInv => SplitsAboveDust
  BY DEF PlanInv
<1> QED
  BY <1>1, PlanInvIsInvariant, PTL

\* What validateAmount accepts, generateSplitAmounts splits as often as the policy asks.
THEOREM ValidatedAmountsAreSplit == PlanSpec => []ValidatedIsSplit
<1>1. PlanInv => ValidatedIsSplit
  BY DEF PlanInv, CountInv, ValidatedIsSplit
<1> QED
  BY <1>1, PlanInvIsInvariant, PTL

\* generateDelays answers one delay less than there are splits, each in the policy's range.
THEOREM DelaysAlwaysFit == PlanSpec => []DelaysFit
<1>1. PlanInv => DelaysFit
  BY DEF PlanInv, DelayInv, DelaysFit
<1> QED
  BY <1>1, PlanInvIsInvariant, PTL

\* Nothing is lost under way: the splits so far and what they leave make the amount, and
\* the last split, or the only one, leaves nothing.
SumInv ==
    /\ SumFunction(amounts) + remaining = total
    /\ phase \in {"delay", "done"} => remaining = 0

\* The splits are integers, of which an appended one adds to the sum.
LEMMA SumOfSplits ==
    ASSUME PlanTypeOK, NEW a \in Nat
    PROVE  /\ SumFunction(amounts) \in Int
           /\ SumFunction(Append(amounts, a)) = SumFunction(amounts) + a
<1>1. amounts \in Seq(Int) /\ a \in Int
  <2>1. amounts \in Seq(Nat)
    BY DEF PlanTypeOK
  <2> QED
    BY <2>1
<1> QED
  BY <1>1, SumAppend

\* A claim starts with the whole amount left.
LEMMA SumStarts == PlanInit => SumInv
  BY SumEmptySequence, TotalsAssumption DEF PlanInit, SumInv

\* Each step takes from what is left what it adds to the splits.
LEMMA SumSteps == PlanInv /\ SumInv /\ [PlanNext]_planVars => SumInv'
<1> SUFFICES ASSUME PlanInv, SumInv, [PlanNext]_planVars PROVE SumInv'
  OBVIOUS
<1>1. PlanTypeOK /\ total \in Nat /\ remaining \in Nat
  BY TotalsAssumption DEF PlanInv, PlanTypeOK
<1>2. CASE Count
  <2>1. UNCHANGED total /\ phase = "count" /\ amounts = << >> /\ remaining = total
    BY <1>2 DEF Count, PlanInv, FreshInv, args
  <2>2. CASE phase' = "delay" /\ amounts' = <<total>> /\ remaining' = 0
    <3>1. amounts' = Append(amounts, total)
      BY <2>1, <2>2
    <3>2. SumFunction(amounts') = SumFunction(amounts) + total
      BY <1>1, <3>1, SumOfSplits
    <3>3. SumFunction(amounts) = 0
      BY <2>1, SumEmptySequence
    <3> QED
      BY <1>1, <2>1, <2>2, <3>2, <3>3 DEF SumInv
  <2>3. CASE phase' = "weigh" /\ UNCHANGED <<amounts, remaining>>
    BY <2>1, <2>3 DEF SumInv
  <2> QED
    BY <1>2, <2>2, <2>3 DEF Count
<1>3. CASE Weigh
  BY <1>3 DEF Weigh, SumInv, args
<1>4. CASE Split
  <2> DEFINE last == Len(amounts) = actualSplits - 1
             amount == IF last THEN remaining ELSE NextAmount
  <2>1. /\ UNCHANGED total /\ phase = "split"
        /\ amounts' = Append(amounts, amount) /\ remaining' = remaining - amount
        /\ phase' = IF last THEN "delay" ELSE "split"
    BY <1>4 DEF Split, args
  <2>2. amount \in Nat
    BY <1>1, <2>1, NextAmountFits
  <2>3. last => remaining' = 0
    BY <1>1, <2>1
  <2> HIDE DEF amount, last
  <2>4. SumFunction(amounts) \in Int /\ SumFunction(amounts') = SumFunction(amounts) + amount
    BY <1>1, <2>1, <2>2, SumOfSplits
  <2> QED
    BY <1>1, <2>1, <2>2, <2>3, <2>4 DEF SumInv
<1>5. CASE Delay
  BY <1>5 DEF Delay, SumInv, args
<1>6. CASE Throw
  BY <1>6 DEF Throw, SumInv, args
<1>7. CASE UNCHANGED planVars
  BY <1>7 DEF planVars, SumInv, args
<1> QED
  BY <1>2, <1>3, <1>4, <1>5, <1>6, <1>7 DEF PlanNext

\* For any amount, policy and weights, the splits of generateSplitAmounts add up to the amount:
\* what the floor adds to one split, the cap and the last split take from the others.
THEOREM SplitsMakeTheAmount == PlanSpec => []SplitsAddUp
<1>1. PlanInv /\ SumInv => SplitsAddUp
  <2>1. ASSUME PlanInv, SumInv, phase \in {"delay", "done"} PROVE SumFunction(amounts) = total
    <3>1. SumFunction(amounts) \in Int
      BY <2>1, SumOfSplits DEF PlanInv
    <3> QED
      BY <2>1, <3>1 DEF SumInv
  <2> QED
    BY <2>1 DEF SplitsAddUp
<1> QED
  BY <1>1, PlanInvIsInvariant, SumStarts, SumSteps, PTL DEF PlanSpec

\* A call under way is at a transaction of the batch, has collected those since its offset, and,
\* over a connection, has only executed ones behind it.
Cursor ==
    step \in {"next", "awake", "confirming", "posted", "reading"} =>
        /\ i \in Batch /\ offset < i
        /\ Len(results) = i - offset - 1
        /\ kind = "connection" => \A u \in 1..(i - 1) : status[u] = "executed"

\* Only the connection waits for a confirmation, and only a relayer for an answer.
Waiting ==
    /\ step = "confirming" => kind = "connection"
    /\ step \in {"posted", "reading"} \/ asked # {} => kind = "relayer"

ForwardInv == TypeOK /\ ResultsAreExecuted /\ KeepsOrder /\ Cursor /\ Waiting

USE NAssumption

-----------------------------------------------------------------------------
\* Nothing is sent before a call.
LEMMA ForwardInitEstablishes == Init => ForwardInv
<1> SUFFICES ASSUME Init PROVE ForwardInv
  OBVIOUS
<1> USE DEF Init, Batch, NoCode
<1>1. TypeOK
  <2>1. 0 \in 0..N /\ 1 \in 1..(N + 1) /\ <<>> \in Seq(Batch)
    BY SMT
  <2>2. status \in [Batch -> {"unsent", "pending", "executed", "failed", "expired"}]
    OBVIOUS
  <2> QED
    BY <2>1, <2>2 DEF TypeOK
<1>2. ResultsAreExecuted /\ Cursor /\ Waiting
  BY SMT DEF ResultsAreExecuted, Cursor, Waiting
<1>3. KeepsOrder
  BY SMT DEF KeepsOrder
<1> QED
  BY <1>1, <1>2, <1>3 DEF ForwardInv

\* A call that begins at an offset up to which all is executed, or at the first transaction.
LEMMA BeginStep ==
    ASSUME ForwardInv, NEW from \in 0..(N - 1), NEW before \in SUBSET Batch, Begin(from, before),
           \A u \in 1..from : status[u] = "executed"
    PROVE  ForwardInv'
<1> USE DEF ForwardInv
<1>1. /\ step' = "next" /\ offset' = from /\ i' = from + 1 /\ sleeps' = before
      /\ results' = <<>> /\ code' = NoCode
      /\ UNCHANGED <<options, status, asked>>
  BY SMT DEF Begin
<1>2. from \in 0..N /\ from + 1 \in Batch /\ from < from + 1 /\ (from + 1) - from - 1 = 0
  BY SMT DEF Batch
<1>3. TypeOK'
  BY <1>1, <1>2, SMT DEF TypeOK, options, Batch
<1>4. ResultsAreExecuted'
  BY <1>1, <1>2, SMT DEF ResultsAreExecuted
<1>5. KeepsOrder' /\ Waiting'
  BY <1>1 DEF KeepsOrder, Waiting, options
<1>6. Cursor'
  <2>1. (from + 1) - 1 = from
    BY SMT
  <2> QED
    BY <1>1, <1>2, <2>1 DEF Cursor, options
<1> QED
  BY <1>3, <1>4, <1>5, <1>6

\* An error ends a call and leaves what it had collected; what was executed stays so.
LEMMA ThrowsStep ==
    ASSUME ForwardInv, step # "returned",
           NEW c \in {"INVALID_DELAY_ARRAY", "SEND_TRANSACTION_ERROR", "UNKNOWN_ERROR",
                      "TRANSACTION_FAILED", "RELAYER_TIMEOUT", "RELAYER_FAILED"},
           Throws(c), UNCHANGED <<options, asked>>,
           status' \in [Batch -> {"unsent", "pending", "executed", "failed", "expired"}],
           \A t \in Batch : status[t] = "executed" => status'[t] = "executed",
           KeepsOrder'
    PROVE  ForwardInv'
<1> USE DEF ForwardInv
<1>1. step' = "thrown" /\ code' = c /\ UNCHANGED <<offset, i, sleeps, results>>
  BY DEF Throws
<1>2. TypeOK'
  BY <1>1 DEF TypeOK, options
<1>3. ResultsAreExecuted'
  <2>1. \A k \in 1..Len(results) : results[k] \in Batch
    BY DEF TypeOK
  <2> QED
    BY <1>1, <2>1 DEF ResultsAreExecuted, options
<1>4. Cursor' /\ Waiting'
  BY <1>1 DEF Cursor, Waiting, options
<1> QED
  BY <1>2, <1>3, <1>4

\* A signature is collected of a transaction that has been executed, or that a relayer took.
LEMMA CollectedStep ==
    ASSUME ForwardInv, step \in {"confirming", "reading"}, kind = "connection" => status[i] = "executed",
           Collected, UNCHANGED <<options, status, asked>>
    PROVE  ForwardInv'
<1> USE DEF ForwardInv
<1>1. /\ i \in Batch /\ offset \in 0..N /\ offset < i /\ Len(results) = i - offset - 1
      /\ results \in Seq(Batch)
      /\ kind = "connection" => \A u \in 1..(i - 1) : status[u] = "executed"
  BY DEF Cursor, TypeOK
<1>2. /\ results' = Append(results, i) /\ i' = i + 1
      /\ step' = IF i = N THEN "returned" ELSE "next"
      /\ UNCHANGED <<offset, sleeps, code>>
  BY DEF Collected
<1>3. results' \in Seq(Batch) /\ Len(results') = i - offset
  BY <1>1, <1>2, SMT DEF Batch
<1>4. TypeOK'
  BY <1>1, <1>2, <1>3, SMT DEF TypeOK, options, Batch
<1>5. ResultsAreExecuted'
  <2>1. Len(results') <= N - offset' /\ (step' = "returned" => Len(results') = N - offset')
    BY <1>1, <1>2, <1>3, SMT DEF Batch
  <2>2. ASSUME NEW k \in 1..Len(results')
        PROVE  results'[k] = offset' + k /\ (kind' = "connection" => status'[results'[k]] = "executed")
    <3>1. CASE k = i - offset
      <4>1. results'[k] = i /\ offset' + k = i
        BY <1>1, <1>2, <3>1, SMT DEF Batch
      <4> QED
        BY <4>1 DEF options
    <3>2. CASE k # i - offset
      <4>1. k \in 1..Len(results) /\ results'[k] = results[k]
        BY <1>1, <1>2, <1>3, <3>2, SMT DEF Batch
      <4> QED
        BY <4>1, <1>2 DEF ResultsAreExecuted, options
    <3> QED
      BY <3>1, <3>2
  <2> QED
    BY <2>1, <2>2 DEF ResultsAreExecuted
<1>6. KeepsOrder' /\ Waiting'
  BY <1>2 DEF KeepsOrder, Waiting, options
<1>7. Cursor'
  <2>1. CASE i = N
    BY <1>2, <2>1 DEF Cursor
  <2>2. CASE i # N
    <3>1. i' \in Batch /\ offset' < i' /\ Len(results') = i' - offset' - 1
      BY <1>1, <1>2, <1>3, <2>2, SMT DEF Batch
    <3>2. ASSUME kind = "connection", NEW u \in 1..(i' - 1) PROVE status[u] = "executed"
      <4>1. u \in 1..(i - 1) \/ u = i
        BY <1>1, <1>2, <3>2, SMT DEF Batch
      <4> QED
        BY <1>1, <3>2, <4>1
    <3> QED
      BY <3>1, <3>2 DEF Cursor, options
  <2> QED
    BY <2>1, <2>2
<1> QED
  BY <1>4, <1>5, <1>6, <1>7

\* A transaction that goes out over a connection is pending at most; all before it are executed.
LEMMA SubmittedStep ==
    ASSUME ForwardInv, step \in {"next", "awake"}, kind = "connection", status' = Submitted(i)
    PROVE  /\ status' \in [Batch -> {"unsent", "pending", "executed", "failed", "expired"}]
           /\ \A t \in Batch : status[t] = "executed" => status'[t] = "executed"
           /\ \A t \in Batch : status'[t] \in {"pending", "executed", "failed"} =>
                  \A u \in 1..(t - 1) : status'[u] = "executed"
<1> USE DEF ForwardInv
<1>1. i \in Batch /\ \A u \in 1..(i - 1) : status[u] = "executed"
  BY DEF Cursor
<1>2. status \in [Batch -> {"unsent", "pending", "executed", "failed", "expired"}]
  BY DEF TypeOK
<1>3. /\ status' \in [Batch -> {"unsent", "pending", "executed", "failed", "expired"}]
      /\ \A t \in Batch : t # i => status'[t] = status[t]
      /\ \A t \in Batch : status[t] = "executed" => status'[t] = "executed"
  BY <1>1, <1>2 DEF Submitted
<1>4. ASSUME NEW t \in Batch, status'[t] \in {"pending", "executed", "failed"},
             NEW u \in 1..(t - 1)
      PROVE  status'[u] = "executed"
  <2>1. u \in Batch
    BY SMT DEF Batch
  <2>2. CASE t = i
    BY <1>1, <1>3, <2>1, <2>2
  <2>3. CASE t # i
    BY <1>3, <1>4, <2>1, <2>3 DEF KeepsOrder
  <2> QED
    BY <2>2, <2>3
<1> QED
  BY <1>3, <1>4

\* Where SendNow is.
LEMMA SendingCall ==
    ASSUME SendNow
    PROVE  step \in {"next", "awake"} /\ UNCHANGED options
  BY DEF SendNow

\* A step of the chain or the relayer that keeps what is executed, and the order.
LEMMA ChainStep ==
    ASSUME ForwardInv, UNCHANGED <<options, call, asked>>,
           status' \in [Batch -> {"unsent", "pending", "executed", "failed", "expired"}],
           \A t \in Batch : status[t] = "executed" => status'[t] = "executed",
           KeepsOrder'
    PROVE  ForwardInv'
<1> USE DEF ForwardInv
<1>1. TypeOK' /\ Waiting'
  BY DEF TypeOK, Waiting, options, call
<1>2. ResultsAreExecuted'
  <2>1. results \in Seq(Batch)
    BY DEF TypeOK
  <2>2. \A k \in 1..Len(results) : results[k] \in Batch
    BY <2>1
  <2> QED
    BY <2>2 DEF ResultsAreExecuted, options, call
<1>3. Cursor'
  <2>1. i \in Batch => \A u \in 1..(i - 1) : u \in Batch
    BY SMT DEF Batch
  <2> QED
    BY <2>1 DEF Cursor, options, call
<1> QED
  BY <1>1, <1>2, <1>3

-----------------------------------------------------------------------------
(***************************************************************************)
(* Each step keeps the invariant                                           *)
(***************************************************************************)

\* A call begins with the transactions it is given, or with those it is resumed with.
LEMMA CallStep ==
    ASSUME ForwardInv,
           \/ ForwardTransactions \/ ForwardTransactionsWithDelay
           \/ \E given \in DelayArrays : ForwardTransactionsWithDelays(given)
           \/ Resume
    PROVE  ForwardInv'
<1>1. 0 \in 0..(N - 1) /\ {} \in SUBSET Batch /\ 2..N \in SUBSET Batch
  BY SMT DEF Batch
<1>2. \A u \in 1..0 : status[u] = "executed"
  BY SMT
<1>3. CASE ForwardTransactions
  BY <1>1, <1>2, <1>3, BeginStep DEF ForwardTransactions
<1>4. CASE ForwardTransactionsWithDelay
  BY <1>1, <1>2, <1>4, BeginStep DEF ForwardTransactionsWithDelay
<1>5. CASE \E given \in DelayArrays : ForwardTransactionsWithDelays(given)
  <2>1. PICK given \in DelayArrays : ForwardTransactionsWithDelays(given)
    BY <1>5
  <2> DEFINE before == {t \in 2..N : Len(given) > 0 /\ given[t - 1]}
  <2>2. Begin(0, before)
    BY <2>1 DEF ForwardTransactionsWithDelays
  <2>3. before \in SUBSET Batch
    BY <1>1
  <2> HIDE DEF before
  <2> QED
    BY <1>1, <1>2, <2>2, <2>3, BeginStep
<1>6. CASE Resume
  <2>1. PICK t \in Batch : /\ \A u \in 1..(t - 1) : status[u] = "executed"
                           /\ ForwardTransactionsFromOffset(t - 1)
    BY <1>6 DEF Resume
  <2>2. t - 1 \in 0..(N - 1) /\ ((t - 1) + 2)..N \in SUBSET Batch
    BY SMT DEF Batch
  <2>3. Begin(t - 1, ((t - 1) + 2)..N)
    BY <2>1 DEF ForwardTransactionsFromOffset
  <2> QED
    BY <2>1, <2>2, <2>3, BeginStep
<1> QED
  BY <1>3, <1>4, <1>5, <1>6

\* An error that leaves everything but the call alone.
LEMMA PlainErrorStep ==
    ASSUME ForwardInv, step # "returned",
           NEW c \in {"INVALID_DELAY_ARRAY", "SEND_TRANSACTION_ERROR", "UNKNOWN_ERROR",
                      "TRANSACTION_FAILED", "RELAYER_TIMEOUT", "RELAYER_FAILED"},
           Throws(c), UNCHANGED <<options, status, asked>>
    PROVE  ForwardInv'
<1>1. /\ status' \in [Batch -> {"unsent", "pending", "executed", "failed", "expired"}]
      /\ \A t \in Batch : status[t] = "executed" => status'[t] = "executed"
  BY DEF ForwardInv, TypeOK
<1>2. KeepsOrder'
  BY DEF ForwardInv, KeepsOrder, options
<1> QED
  BY <1>1, <1>2, ThrowsStep

\* Waiting sends nothing.
LEMMA SleepStep == ASSUME ForwardInv, Sleep PROVE ForwardInv'
<1>1. /\ step' = "awake" /\ step = "next"
      /\ UNCHANGED <<options, offset, i, sleeps, results, code, status, asked>>
  BY DEF Sleep
<1>2. TypeOK'
  BY <1>1 DEF ForwardInv, TypeOK, options
<1>3. ResultsAreExecuted' /\ KeepsOrder' /\ Cursor' /\ Waiting'
  BY <1>1 DEF ForwardInv, ResultsAreExecuted, KeepsOrder, Cursor, Waiting, options
<1> QED
  BY <1>2, <1>3 DEF ForwardInv

\* The next transaction is submitted,
LEMMA SendStep == ASSUME ForwardInv, Send PROVE ForwardInv'
<1>1. kind = "connection" /\ SendNow /\ asked' = asked
  BY DEF Send
<1>2. step \in {"next", "awake"} /\ UNCHANGED options
  BY <1>1, SendingCall
<1>3. CASE Throws("SEND_TRANSACTION_ERROR") /\ status' = status
  <2>1. /\ status' \in [Batch -> {"unsent", "pending", "executed", "failed", "expired"}]
        /\ \A t \in Batch : status[t] = "executed" => status'[t] = "executed"
        /\ KeepsOrder'
    BY <1>2, <1>3 DEF ForwardInv, TypeOK, KeepsOrder, options
  <2> QED
    BY <1>1, <1>2, <1>3, <2>1, ThrowsStep
<1>4. CASE step' = "confirming" /\ status' = Submitted(i)
           /\ UNCHANGED <<offset, i, sleeps, results, code>>
  <2>1. /\ status' \in [Batch -> {"unsent", "pending", "executed", "failed", "expired"}]
        /\ \A t \in Batch : status[t] = "executed" => status'[t] = "executed"
        /\ KeepsOrder'
    BY <1>1, <1>2, <1>4, SubmittedStep DEF KeepsOrder
  <2>2. TypeOK'
    BY <1>1, <1>2, <1>4, <2>1 DEF ForwardInv, TypeOK, options
  <2>3. ResultsAreExecuted'
    <3>1. \A k \in 1..Len(results) : results[k] \in Batch
      BY DEF ForwardInv, TypeOK
    <3> QED
      BY <1>2, <1>4, <2>1, <3>1 DEF ForwardInv, ResultsAreExecuted, options
  <2>4. Cursor' /\ Waiting'
    <3>1. i \in Batch => \A u \in 1..(i - 1) : u \in Batch
      BY SMT DEF Batch
    <3> QED
      BY <1>1, <1>2, <1>4, <2>1, <3>1 DEF ForwardInv, Cursor, Waiting, options
  <2> QED
    BY <2>1, <2>2, <2>3, <2>4 DEF ForwardInv
<1> QED
  BY <1>3, <1>4 DEF Send

\* or submitted without the caller's learning of it,
LEMMA SendLostStep == ASSUME ForwardInv, SendLost PROVE ForwardInv'
<1>1. /\ kind = "connection" /\ SendNow /\ asked' = asked /\ Throws("UNKNOWN_ERROR")
      /\ status' = status \/ status' = Submitted(i)
  BY DEF SendLost
<1>2. step \in {"next", "awake"} /\ UNCHANGED options
  BY <1>1, SendingCall
<1>3. /\ status' \in [Batch -> {"unsent", "pending", "executed", "failed", "expired"}]
      /\ \A t \in Batch : status[t] = "executed" => status'[t] = "executed"
      /\ KeepsOrder'
  <2>1. CASE status' = status
    BY <1>2, <2>1 DEF ForwardInv, TypeOK, KeepsOrder, options
  <2>2. CASE status' = Submitted(i)
    BY <1>1, <1>2, <2>2, SubmittedStep DEF KeepsOrder
  <2> QED
    BY <1>1, <2>1, <2>2
<1> QED
  BY <1>1, <1>2, <1>3, ThrowsStep

\* or posted to the relayer.
LEMMA PostStep == ASSUME ForwardInv, Post PROVE ForwardInv'
<1>1. /\ kind = "relayer" /\ SendNow /\ asked' = asked \cup {i} /\ step' = "posted"
      /\ UNCHANGED <<offset, i, sleeps, results, code, status>>
  BY DEF Post
<1>2. step \in {"next", "awake"} /\ UNCHANGED options
  BY <1>1, SendingCall
<1>3. i \in Batch
  BY <1>2 DEF ForwardInv, Cursor
<1>4. TypeOK'
  BY <1>1, <1>2, <1>3 DEF ForwardInv, TypeOK, options
<1>5. ResultsAreExecuted' /\ KeepsOrder' /\ Cursor' /\ Waiting'
  BY <1>1, <1>2 DEF ForwardInv, ResultsAreExecuted, KeepsOrder, Cursor, Waiting, options
<1> QED
  BY <1>4, <1>5 DEF ForwardInv

\* A success is recorded for a transaction that was executed, or that the relayer took.
LEMMA AnswerStep == ASSUME ForwardInv, Confirmed \/ BodyRead PROVE ForwardInv'
<1>1. CASE Confirmed
  <2>1. step = "confirming" /\ UNCHANGED <<options, status, asked>>
    BY <1>1 DEF Confirmed
  <2>2. CASE status[i] = "executed" /\ Collected
    BY <2>1, <2>2, CollectedStep
  <2>3. CASE Throws("TRANSACTION_FAILED")
    BY <2>1, <2>3, PlainErrorStep
  <2> QED
    BY <1>1, <2>2, <2>3 DEF Confirmed
<1>2. CASE BodyRead
  <2>1. /\ step = "reading" /\ UNCHANGED <<options, status, asked>>
        /\ kind = "relayer"
    BY <1>2 DEF BodyRead, ForwardInv, Waiting
  <2>2. CASE Collected
    BY <2>1, <2>2, CollectedStep
  <2>3. CASE Throws("RELAYER_FAILED")
    BY <2>1, <2>3, PlainErrorStep
  <2> QED
    BY <1>2, <2>2, <2>3 DEF BodyRead
<1> QED
  BY <1>1, <1>2

\* A failure ends the call and adds no success.
LEMMA GivenUpStep ==
    ASSUME ForwardInv, Unconfirmed \/ NotAnswered \/ \E given \in DelayArrays : WrongDelays(given)
    PROVE  ForwardInv'
<1>1. CASE Unconfirmed
  BY <1>1, PlainErrorStep DEF Unconfirmed
<1>2. CASE NotAnswered
  BY <1>2, PlainErrorStep DEF NotAnswered
<1>3. CASE \E given \in DelayArrays : WrongDelays(given)
  BY <1>3, PlainErrorStep DEF WrongDelays
<1> QED
  BY <1>1, <1>2, <1>3

\* The relayer has answered; its answer is still to be read.
LEMMA AnsweredStep == ASSUME ForwardInv, Answered PROVE ForwardInv'
<1>1. /\ step = "posted" /\ step' = "reading"
      /\ UNCHANGED <<offset, i, sleeps, results, code, options, status, asked>>
  BY DEF Answered
<1>2. TypeOK'
  BY <1>1 DEF ForwardInv, TypeOK, options
<1>3. ResultsAreExecuted' /\ KeepsOrder' /\ Cursor' /\ Waiting'
  BY <1>1 DEF ForwardInv, ResultsAreExecuted, KeepsOrder, Cursor, Waiting, options
<1> QED
  BY <1>2, <1>3 DEF ForwardInv

\* A transaction that was executed stays executed.
LEMMA StatusStep ==
    ASSUME ForwardInv, NEW t \in Batch, RelayerSubmits(t) \/ Lands(t) \/ Expires(t)
    PROVE  ForwardInv'
<1> USE DEF ForwardInv
<1>1. status \in [Batch -> {"unsent", "pending", "executed", "failed", "expired"}]
  BY DEF TypeOK
<1>2. UNCHANGED <<options, call, asked>>
  BY DEF RelayerSubmits, Lands, Expires
<1>3. PICK s \in {"pending", "executed", "failed", "expired"} :
           status' = [status EXCEPT ![t] = s]
  BY <1>1 DEF RelayerSubmits, Lands, Expires, Submitted
<1>4. status[t] # "executed"
  BY DEF RelayerSubmits, Lands, Expires
<1>5. status' \in [Batch -> {"unsent", "pending", "executed", "failed", "expired"}]
  BY <1>1, <1>3
<1>6. \A u \in Batch : status[u] = "executed" => status'[u] = "executed"
  BY <1>1, <1>3, <1>4
<1>7. KeepsOrder'
  <2> SUFFICES ASSUME kind = "connection", NEW v \in Batch,
                      status'[v] \in {"pending", "executed", "failed"}, NEW u \in 1..(v - 1)
               PROVE  status'[u] = "executed"
    BY <1>2 DEF KeepsOrder, options
  <2>1. u \in Batch
    BY SMT DEF Batch
  <2>2. status[v] \in {"pending", "executed", "failed"}
    <3>1. CASE v # t
      BY <1>1, <1>3, <3>1
    <3>2. CASE v = t
      BY <1>1, <3>2 DEF Waiting, RelayerSubmits, Lands, Expires
    <3> QED
      BY <3>1, <3>2
  <2> QED
    BY <1>6, <2>1, <2>2 DEF KeepsOrder
<1> QED
  BY <1>2, <1>5, <1>6, <1>7, ChainStep

\* The invariant of the forwarding.
LEMMA ForwardInvIsInvariant == Spec => []ForwardInv
<1>1. Init => ForwardInv
  BY ForwardInitEstablishes
<1>2. ForwardInv /\ [Next]_vars => ForwardInv'
  <2> SUFFICES ASSUME ForwardInv, [Next]_vars PROVE ForwardInv'
    OBVIOUS
  <2>1. CASE UNCHANGED vars
    BY <2>1 DEF ForwardInv, TypeOK, ResultsAreExecuted, KeepsOrder, Cursor, Waiting,
                vars, options, call
  <2>2. CASE Next
    BY <2>2, CallStep, SleepStep, SendStep, SendLostStep, PostStep, AnswerStep, GivenUpStep,
       AnsweredStep, StatusStep DEF Next
  <2> QED
    BY <2>1, <2>2
<1> QED
  BY <1>1, <1>2, PTL DEF Spec

-----------------------------------------------------------------------------
\* Every reachable state is well typed, for batches of any length.
THEOREM ForwardingTypeCorrect == Spec => []TypeOK
<1>1. ForwardInv => TypeOK
  BY DEF ForwardInv
<1> QED
  BY <1>1, ForwardInvIsInvariant, PTL

\* What a connection returns has been executed: the signatures of a call, in the order of the
\* batch and without a gap.
THEOREM ReturnedIsExecuted == Spec => []ResultsAreExecuted
<1>1. ForwardInv => ResultsAreExecuted
  BY DEF ForwardInv
<1> QED
  BY <1>1, ForwardInvIsInvariant, PTL

\* Over a connection the transactions of a batch are executed in its order, whatever is lost,
\* late, or resumed.
THEOREM OrderIsKept == Spec => []KeepsOrder
<1>1. ForwardInv => KeepsOrder
  BY DEF ForwardInv
<1> QED
  BY <1>1, ForwardInvIsInvariant, PTL
=============================================================================
