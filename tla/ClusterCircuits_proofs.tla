----------------------- MODULE ClusterCircuits_proofs -----------------------
(***************************************************************************)
(* Proofs about the circuits of the cluster.                               *)
(*                                                                         *)
(* A withdrawal's plan (WithdrawalPlan), for any number of splits, amounts,*)
(* draws, schedules and balances.  Its shape, and that no step but Generate*)
(* touches an amount, hold for any number of executors; that a split is    *)
(* paid once needs that there is one (OneExecutor).  The amounts come from *)
(* a recursive function, whose sum is found by induction over the splits.  *)
(*                                                                         *)
(* A vault's configuration (ConfigCircuits), for any limits, addresses and *)
(* updates: it stays one that the store accepts, and every accepted change *)
(* shows in the hash.  Both are inductive together with the types.         *)
(***************************************************************************)
EXTENDS WithdrawalPlan, ConfigCircuits, SumTheorems

-----------------------------------------------------------------------------
(***************************************************************************)
(* The amounts of a plan                                                   *)
(***************************************************************************)

\* What generate_split_amounts has left before split i, if it had `left` before the one
\* before.
NextLeft(total, count, random, left, i) ==
    (left - SplitAmount(total \div count, left, count - i + 1, random[i - 1])) % U64

\* The function g is what is left before each of the first n splits.
IsLeft(g, n, total, count, random) ==
    g = [i \in 1..n |-> IF i = 1 THEN total ELSE NextLeft(total, count, random, g[i - 1], i)]

\* The amount of split i, with `left` before it and without the remainder.
Drawn(total, count, random, left, i) ==
    IF i = count THEN left ELSE SplitAmount(total \div count, left, count - i, random[i])

\* There is such a function, whatever the amounts: it grows by one split at a time.
LEMMA LeftExists ==
    ASSUME NEW total, NEW count \in Nat, NEW random
    PROVE  \E g : IsLeft(g, count, total, count, random)
<1> DEFINE Q == {n \in Nat : \E g : IsLeft(g, n, total, count, random)}
<1>1. 0 \in Q
  <2> DEFINE g == [i \in 1..0 |-> total]
  <2>1. IsLeft(g, 0, total, count, random)
    BY DEF IsLeft
  <2> QED
    BY <2>1
<1>2. ASSUME NEW n \in Q PROVE n + 1 \in Q
  <2>1. n \in Nat
    OBVIOUS
  <2>2. PICK g : IsLeft(g, n, total, count, random)
    OBVIOUS
  <2> DEFINE value(f, i) == IF i = 1 THEN total ELSE NextLeft(total, count, random, f[i - 1], i)
             h == [i \in 1..(n + 1) |-> IF i = n + 1 THEN value(g, i) ELSE g[i]]
  <2>3. \A i \in 1..n : g[i] = value(g, i)
    BY <2>2 DEF IsLeft
  <2>4. \A i \in 1..n : h[i] = g[i]
    BY <2>1
  <2>5. \A i \in 1..(n + 1) : h[i] = value(g, i)
    BY <2>1, <2>3
  <2>6. \A i \in 1..(n + 1) : i # 1 => h[i - 1] = g[i - 1]
    BY <2>1, <2>4
  <2>7. DOMAIN h = 1..(n + 1) /\ h = [i \in 1..(n + 1) |-> h[i]]
    OBVIOUS
  <2> HIDE DEF h
  <2>8. \A i \in 1..(n + 1) : value(h, i) = value(g, i)
    BY <2>6
  <2>9. h = [i \in 1..(n + 1) |-> value(h, i)]
    BY <2>5, <2>7, <2>8
  <2>10. IsLeft(h, n + 1, total, count, random)
    BY <2>9 DEF IsLeft
  <2> QED
    BY <2>1, <2>10
<1> HIDE DEF Q
<1>3. Q = Nat
  <2>1. Q \subseteq Nat
    BY DEF Q
  <2> QED
    BY <1>1, <1>2, <2>1, InductionOnSet
<1> QED
  BY <1>3 DEF Q

\* The amounts are drawn from what g says is left.
AreDrawn(g, total, count, random, bonus) ==
    /\ IsLeft(g, count, total, count, random)
    /\ GenerateSplitAmounts(total, count, random, bonus)
       = [i \in 1..count |-> (Drawn(total, count, random, g[i], i)
                              + IF i = bonus THEN total % count ELSE 0) % U64]

\* generate_split_amounts: what is left before each split, and what is drawn of it.
LEMMA AmountsAreDrawn ==
    ASSUME NEW total, NEW count \in Nat, NEW random, NEW bonus
    PROVE  \E g : AreDrawn(g, total, count, random, bonus)
<1> DEFINE g == CHOOSE h : IsLeft(h, count, total, count, random)
<1>1. IsLeft(g, count, total, count, random)
  <2>1. \E h : IsLeft(h, count, total, count, random)
    BY LeftExists
  <2> QED
    BY <2>1, Zenon
<1>2. GenerateSplitAmounts(total, count, random, bonus)
      = [i \in 1..count |-> (Drawn(total, count, random, g[i], i)
                             + IF i = bonus THEN total % count ELSE 0) % U64]
  BY Zenon DEF GenerateSplitAmounts, IsLeft, NextLeft, Drawn
<1> HIDE DEF g
<1> QED
  BY <1>1, <1>2 DEF AreDrawn

\* A drawn amount is a natural number, also where the subtraction has wrapped around.
LEMMA SplitAmountType ==
    ASSUME NEW base \in Nat, NEW remaining \in Nat, NEW later \in Nat, NEW random \in Nat
    PROVE  SplitAmount(base, remaining, later, random) \in Nat
<1> DEFINE range   == base \div 5
           drawn   == base - range + (random % (2 * range + 1))
           ceiling == (remaining - later * KeepPerSplit) % U64
<1>1. range \in Nat /\ range <= base
  OBVIOUS
<1>2. drawn \in Nat
  <2>1. 2 * range + 1 \in Nat \ {0}
    BY <1>1
  <2>2. random % (2 * range + 1) \in Nat
    BY <2>1
  <2> HIDE DEF range
  <2> QED
    BY <1>1, <2>2
<1>3. ceiling \in Nat
  <2>1. later * KeepPerSplit \in Nat
    BY BoundsAssumption
  <2>2. remaining - later * KeepPerSplit \in Int
    BY <2>1
  <2> QED
    BY <2>2, BoundsAssumption
<1>4. SplitAmount(base, remaining, later, random)
      = LET capped == IF drawn > ceiling THEN ceiling ELSE drawn
        IN  IF capped < Dust THEN Dust ELSE capped
  BY DEF SplitAmount
<1> HIDE DEF drawn, ceiling
<1> QED
  BY <1>2, <1>3, <1>4, BoundsAssumption

\* So is what is left before any split.
LEMMA LeftType ==
    ASSUME NEW total \in Nat, NEW count \in Nat \ {0}, NEW random \in [1..count -> Nat],
           NEW g, IsLeft(g, count, total, count, random), NEW i \in 1..count
    PROVE  g[i] \in Nat
<1> DEFINE Q == {n \in Nat : n + 1 <= count => g[n + 1] \in Nat}
<1>1. 0 \in Q
  BY DEF IsLeft
<1>2. ASSUME NEW n \in Q PROVE n + 1 \in Q
  <2> SUFFICES ASSUME n + 2 <= count PROVE g[n + 2] \in Nat
    OBVIOUS
  <2>1. n \in Nat /\ g[n + 1] \in Nat
    OBVIOUS
  <2>2. g[n + 2] = NextLeft(total, count, random, g[n + 1], n + 2)
    <3>1. n + 2 \in 1..count /\ n + 2 # 1 /\ (n + 2) - 1 = n + 1
      BY <2>1
    <3> QED
      BY <3>1 DEF IsLeft
  <2> DEFINE amount == SplitAmount(total \div count, g[n + 1], count - (n + 2) + 1,
                                   random[(n + 2) - 1])
  <2>3. amount \in Nat
    <3>1. total \div count \in Nat
      OBVIOUS
    <3>2. count - (n + 2) + 1 \in Nat
      BY <2>1
    <3>3. random[(n + 2) - 1] \in Nat
      BY <2>1
    <3> QED
      BY <2>1, <3>1, <3>2, <3>3, SplitAmountType
  <2>4. g[n + 2] = (g[n + 1] - amount) % U64
    BY <2>2 DEF NextLeft
  <2> HIDE DEF amount
  <2>5. g[n + 1] - amount \in Int
    BY <2>1, <2>3
  <2> QED
    BY <2>4, <2>5, BoundsAssumption
<1> HIDE DEF Q
<1>3. Q = Nat
  <2>1. Q \subseteq Nat
    BY DEF Q
  <2> QED
    BY <1>1, <1>2, <2>1, InductionOnSet
<1>4. i - 1 \in Q
  BY <1>3
<1> QED
  BY <1>4 DEF Q

\* The amounts of a plan are natural numbers.
LEMMA AmountsType ==
    ASSUME NEW total \in Nat, NEW count \in Nat \ {0}, NEW random \in [1..count -> Nat], NEW bonus
    PROVE  GenerateSplitAmounts(total, count, random, bonus) \in [1..count -> Nat]
<1>0. count \in Nat
  OBVIOUS
<1>a. PICK g : AreDrawn(g, total, count, random, bonus)
  BY <1>0, AmountsAreDrawn
<1>1. /\ IsLeft(g, count, total, count, random)
      /\ GenerateSplitAmounts(total, count, random, bonus)
         = [i \in 1..count |-> (Drawn(total, count, random, g[i], i)
                                + IF i = bonus THEN total % count ELSE 0) % U64]
  BY <1>a DEF AreDrawn
<1>2. ASSUME NEW i \in 1..count PROVE Drawn(total, count, random, g[i], i) \in Nat
  <2>1. g[i] \in Nat
    BY <1>1, LeftType
  <2>2. total \div count \in Nat /\ count - i \in Nat /\ random[i] \in Nat
    OBVIOUS
  <2> QED
    BY <2>1, <2>2, SplitAmountType DEF Drawn
<1>3. total % count \in Nat
  OBVIOUS
<1>4. \A x \in Nat : x % U64 \in Nat
  BY BoundsAssumption
<1> DEFINE amount(i) == Drawn(total, count, random, g[i], i) + IF i = bonus THEN total % count ELSE 0
<1>5. \A i \in 1..count : amount(i) \in Nat
  BY <1>2, <1>3
<1>6. GenerateSplitAmounts(total, count, random, bonus) = [i \in 1..count |-> amount(i) % U64]
  BY <1>1
<1> HIDE DEF amount
<1> QED
  BY <1>4, <1>5, <1>6

\* Where there is enough, a split takes no more than there is, nor more than a share and a fifth.
LEMMA SplitAmountBounds ==
    ASSUME NEW base \in Nat, NEW remaining \in Nat, NEW later \in Nat, NEW random \in Nat,
           remaining < U64, later * KeepPerSplit <= remaining, Dust <= remaining,
           Dust <= base + base \div 5
    PROVE  /\ SplitAmount(base, remaining, later, random) <= remaining
           /\ SplitAmount(base, remaining, later, random) <= base + base \div 5
<1> DEFINE range   == base \div 5
           drawn   == base - range + (random % (2 * range + 1))
           ceiling == (remaining - later * KeepPerSplit) % U64
<1>1. range \in Nat /\ range <= base
  OBVIOUS
<1>2. drawn \in Nat /\ drawn <= base + range
  <2>1. 2 * range + 1 \in Nat \ {0}
    BY <1>1
  <2>2. random % (2 * range + 1) \in 0..(2 * range)
    BY <2>1
  <2> HIDE DEF range
  <2> QED
    BY <1>1, <2>2
<1>3. ceiling \in Nat /\ ceiling <= remaining
  <2> DEFINE kept == later * KeepPerSplit
  <2>1. kept \in Nat
    BY BoundsAssumption
  <2>2. kept <= remaining
    OBVIOUS
  <2>3. ceiling = (remaining - kept) % U64
    OBVIOUS
  <2> HIDE DEF kept, ceiling
  <2>4. remaining - kept \in 0..(U64 - 1)
    BY <2>1, <2>2, BoundsAssumption
  <2>5. ceiling = remaining - kept
    BY <2>3, <2>4, BoundsAssumption
  <2> QED
    BY <2>1, <2>2, <2>5
<1>4. SplitAmount(base, remaining, later, random)
      = LET capped == IF drawn > ceiling THEN ceiling ELSE drawn
        IN  IF capped < Dust THEN Dust ELSE capped
  BY DEF SplitAmount
<1>5. Dust <= base + range
  OBVIOUS
<1>6. base + range = base + base \div 5
  OBVIOUS
<1> HIDE DEF drawn, ceiling, range
<1>7. /\ SplitAmount(base, remaining, later, random) <= remaining
      /\ SplitAmount(base, remaining, later, random) <= base + range
  BY <1>1, <1>2, <1>3, <1>4, <1>5, BoundsAssumption
<1> QED
  BY <1>6, <1>7

\* One more time m.
LEMMA OneMoreTime ==
    ASSUME NEW n \in Nat, NEW m \in Nat
    PROVE  n * m \in Nat /\ (n + 1) * m = n * m + m
OBVIOUS

\* A u64 does not wrap around.
LEMMA NoWrap ==
    ASSUME NEW x \in 0..(U64 - 1)
    PROVE  x % U64 = x
BY BoundsAssumption

\* So what is left before a split is the total without what the earlier ones took: nothing wraps
\* around.
LEMMA LeftIsEnough ==
    ASSUME NEW total \in Totals, NEW count \in MinSplits..MaxSplits, Enough(total, count),
           NEW random \in [1..count -> Nat],
           NEW g, IsLeft(g, count, total, count, random), NEW i \in 1..count
    PROVE  /\ g[i] \in Nat /\ g[i] <= total /\ total - (i - 1) * Most(total, count) <= g[i]
           /\ i # count => /\ Drawn(total, count, random, g[i], i) \in Nat
                           /\ g[i + 1] = g[i] - Drawn(total, count, random, g[i], i)
<1> DEFINE most == Most(total, count)
           taken(n) == Drawn(total, count, random, g[n], n)
<1>1. total \in Nat /\ count \in Nat \ {0} /\ total \div count \in Nat
  BY ConfigAssumption, BoundsAssumption
<1>2. most \in Nat /\ most = total \div count + (total \div count) \div 5
  BY <1>1 DEF Most
<1>3. total < U64 /\ Dust <= most
  BY <1>1, BoundsAssumption DEF Enough
<1>a. \A n \in 1..(count - 1) :
        /\ Dust <= total - (n - 1) * most
        /\ (count - n) * KeepPerSplit <= total - (n - 1) * most
  BY DEF Enough
<1>4. \A n \in 1..count : g[n] \in Nat
  BY <1>1, LeftType
<1>5. g[1] = total
  BY <1>1 DEF IsLeft
<1> HIDE DEF most
<1>6. ASSUME NEW n \in 1..(count - 1), g[n] <= total, total - (n - 1) * most <= g[n]
      PROVE  /\ taken(n) \in Nat /\ taken(n) <= most
             /\ g[n + 1] = g[n] - taken(n)
  <2>1. n \in 1..count /\ n + 1 \in 1..count /\ n # count /\ n + 1 # 1 /\ (n + 1) - 1 = n
    BY <1>1
  <2>2. taken(n) = SplitAmount(total \div count, g[n], count - n, random[n])
    BY <2>1 DEF Drawn
  <2>3. g[n + 1] = (g[n] - taken(n)) % U64
    <3>1. g[n + 1] = NextLeft(total, count, random, g[n], n + 1)
      BY <2>1 DEF IsLeft
    <3>2. count - (n + 1) + 1 = count - n
      BY <1>1, <2>1
    <3> QED
      BY <2>1, <2>2, <3>1, <3>2 DEF NextLeft
  <2> DEFINE base == total \div count
             r    == g[n]
             past == (n - 1) * most
             kept == (count - n) * KeepPerSplit
  <2>4. base \in Nat /\ r \in Nat /\ random[n] \in Nat /\ count - n \in Nat
    BY <1>1, <1>4, <2>1
  <2>a. past \in Nat /\ kept \in Nat
    BY <1>1, <1>2, <2>4, BoundsAssumption
  <2>b. Dust <= total - past /\ kept <= total - past
    BY <1>a
  <2>c. total - past <= r /\ r <= total
    BY <1>6
  <2>d. taken(n) = SplitAmount(base, r, count - n, random[n])
    BY <2>2
  <2>e. most = base + base \div 5
    BY <1>2
  <2> HIDE DEF base, past, r
  <2>f. Dust <= r /\ kept <= r /\ r < U64
    <3> HIDE DEF kept
    <3> QED
      BY <1>1, <1>3, <2>4, <2>a, <2>b, <2>c, BoundsAssumption
  <2>6. taken(n) \in Nat
    <3> HIDE DEF taken
    <3> QED
      BY <2>4, <2>d, SplitAmountType
  <2>7. taken(n) <= r /\ taken(n) <= most
    <3> HIDE DEF taken
    <3>1. Dust <= base + base \div 5
      BY <1>3, <2>e
    <3>2. (count - n) * KeepPerSplit <= r
      BY <2>f
    <3> HIDE DEF kept
    <3> QED
      BY <2>4, <2>d, <2>e, <2>f, <3>1, <3>2, SplitAmountBounds
  <2> HIDE DEF taken
  <2>8. r - taken(n) \in 0..(U64 - 1)
    BY <2>4, <2>6, <2>7, <2>f, BoundsAssumption
  <2>9. (r - taken(n)) % U64 = r - taken(n)
    BY <2>8, NoWrap
  <2> QED
    BY <2>3, <2>6, <2>7, <2>9 DEF r
<1> DEFINE Q == {n \in Nat : n + 1 <= count =>
                     g[n + 1] <= total /\ total - n * most <= g[n + 1]}
<1>7. 0 \in Q
  BY <1>1, <1>2, <1>5
<1>8. ASSUME NEW n \in Q PROVE n + 1 \in Q
  <2> SUFFICES ASSUME n + 2 <= count
               PROVE  g[n + 2] <= total /\ total - (n + 1) * most <= g[n + 2]
    OBVIOUS
  <2>1. n \in Nat /\ n + 1 \in 1..(count - 1) /\ (n + 1) - 1 = n /\ (n + 1) + 1 = n + 2
    BY <1>1
  <2>2. g[n + 1] <= total /\ total - n * most <= g[n + 1]
    BY <1>1, <2>1
  <2>3. taken(n + 1) \in Nat /\ taken(n + 1) <= most /\ g[n + 2] = g[n + 1] - taken(n + 1)
    BY <1>6, <2>1, <2>2
  <2>4. g[n + 1] \in Nat
    BY <1>1, <1>4, <2>1
  <2> DEFINE past  == n * most
             after == (n + 1) * most
  <2>5. past \in Nat /\ after = past + most
    BY <1>2, <2>1, OneMoreTime
  <2>6. total - past <= g[n + 1] /\ g[n + 1] <= total
    BY <2>2
  <2> DEFINE before == g[n + 1]
             t      == taken(n + 1)
  <2>a. /\ t \in Nat /\ t <= most /\ g[n + 2] = before - t
        /\ before \in Nat /\ before <= total /\ total - past <= before
    BY <2>3, <2>4, <2>6
  <2> HIDE DEF past, before, t
  <2>7. g[n + 2] <= total /\ total - after <= g[n + 2]
    <3> DEFINE last == g[n + 2]
    <3>1. last = before - t
      BY <2>a
    <3> HIDE DEF after, last
    <3>2. total \in Nat /\ most \in Nat
      BY <1>1, <1>2
    <3>3. last <= total /\ total - after <= last
      BY <2>5, <2>a, <3>1, <3>2
    <3> QED
      BY <3>3 DEF last
  <2> QED
    BY <2>7
<1> HIDE DEF Q
<1>9. Q = Nat
  <2>1. Q \subseteq Nat
    BY DEF Q
  <2> QED
    BY <1>7, <1>8, <2>1, InductionOnSet
<1>10. g[i] <= total /\ total - (i - 1) * most <= g[i]
  <2>1. i - 1 \in Q /\ (i - 1) + 1 = i /\ i <= count
    BY <1>1, <1>9
  <2> QED
    BY <2>1 DEF Q
<1>11. i # count => taken(i) \in Nat /\ g[i + 1] = g[i] - taken(i)
  <2> SUFFICES ASSUME i # count PROVE taken(i) \in Nat /\ g[i + 1] = g[i] - taken(i)
    OBVIOUS
  <2>1. i \in 1..(count - 1)
    BY <1>1
  <2> HIDE DEF taken
  <2> QED
    BY <1>6, <1>10, <2>1
<1> QED
  BY <1>4, <1>10, <1>11 DEF most

\* What has been drawn and what is left make the total, and the last split gets what is left.
LEMMA DrawnMakeTotal ==
    ASSUME NEW total \in Totals, NEW count \in MinSplits..MaxSplits, Enough(total, count),
           NEW random \in [1..count -> Nat],
           NEW g, IsLeft(g, count, total, count, random)
    PROVE  LET drawn == [i \in 1..count |-> Drawn(total, count, random, g[i], i)]
           IN  /\ drawn \in [1..count -> 0..total]
               /\ SumFunctionOnSet(drawn, 1..count) = total
<1> DEFINE drawn  == [i \in 1..count |-> Drawn(total, count, random, g[i], i)]
           Sum(n) == SumFunctionOnSet(drawn, 1..n)
<1>1. total \in Nat /\ count \in Nat \ {0}
  BY ConfigAssumption, BoundsAssumption
<1>2. g[1] = total /\ \A i \in 1..count : g[i] \in Nat /\ g[i] <= total
  <2>1. g[1] = total
    BY <1>1 DEF IsLeft
  <2>2. \A i \in 1..count : g[i] \in Nat /\ g[i] <= total
    BY LeftIsEnough
  <2> QED
    BY <2>1, <2>2
<1>3. \A i \in 1..(count - 1) : drawn[i] \in Nat /\ g[i + 1] = g[i] - drawn[i]
  <2> SUFFICES ASSUME NEW i \in 1..(count - 1)
               PROVE  drawn[i] \in Nat /\ g[i + 1] = g[i] - drawn[i]
    OBVIOUS
  <2>1. i \in 1..count /\ i # count
    BY <1>1
  <2>2. drawn[i] = Drawn(total, count, random, g[i], i)
    BY <2>1
  <2> QED
    BY <2>1, <2>2, LeftIsEnough
<1>4. drawn[count] = g[count]
  BY <1>1 DEF Drawn
<1>5. \A i \in 1..count : drawn[i] \in 0..total
  <2> SUFFICES ASSUME NEW i \in 1..count PROVE drawn[i] \in 0..total
    OBVIOUS
  <2> HIDE DEF drawn
  <2>1. CASE i = count
    BY <1>1, <1>2, <1>4, <2>1
  <2>2. CASE i # count
    <3>1. i \in 1..(count - 1) /\ i + 1 \in 1..count
      BY <1>1, <2>2
    <3>2. drawn[i] \in Nat /\ g[i + 1] = g[i] - drawn[i]
      BY <1>3, <3>1
    <3>3. g[i] \in Nat /\ g[i] <= total /\ g[i + 1] \in Nat
      BY <1>2, <3>1
    <3> QED
      BY <1>1, <3>2, <3>3
  <2> QED
    BY <2>1, <2>2
<1>6. drawn \in [1..count -> 0..total]
  BY <1>5
<1> HIDE DEF drawn
<1>7. \A n \in 0..count : Sum(n) \in Nat
  <2> SUFFICES ASSUME NEW n \in 0..count PROVE Sum(n) \in Nat
    OBVIOUS
  <2>1. IsFiniteSet(1..n) /\ \A i \in 1..n : drawn[i] \in Nat
    <3>1. n \in Int /\ \A i \in 1..n : i \in 1..count
      BY <1>1
    <3>2. \A i \in 1..count : drawn[i] \in Nat
      BY <1>1, <1>5
    <3> QED
      BY <3>1, <3>2, FS_Interval
  <2> QED
    BY <2>1, SumNat
<1>8. \A n \in 0..(count - 1) : Sum(n + 1) = drawn[n + 1] + Sum(n)
  <2> SUFFICES ASSUME NEW n \in 0..(count - 1) PROVE Sum(n + 1) = drawn[n + 1] + Sum(n)
    OBVIOUS
  <2>1. IsFiniteSet(1..n) /\ \A i \in 1..n : drawn[i] \in Int
    <3>1. n \in Int /\ \A i \in 1..n : i \in 1..count
      BY <1>1
    <3>2. \A i \in 1..n : drawn[i] \in Nat
      BY <1>5, <3>1
    <3>3. IsFiniteSet(1..n)
      BY <3>1, FS_Interval
    <3> QED
      BY <3>2, <3>3
  <2>2. n + 1 \notin 1..n /\ drawn[n + 1] \in Int
    BY <1>1, <1>5
  <2>3. SumFunctionOnSet(drawn, (1..n) \cup {n + 1}) = drawn[n + 1] + SumFunctionOnSet(drawn, 1..n)
    BY <2>1, <2>2, SumAdd
  <2>4. (1..n) \cup {n + 1} = 1..(n + 1)
    BY <1>1
  <2> QED
    BY <2>3, <2>4
<1>9. Sum(0) = 0
  <2>1. 1..0 = {}
    OBVIOUS
  <2> QED
    BY <2>1, SumEmpty
<1> HIDE DEF Sum
<1> DEFINE Q == {n \in Nat : n + 1 <= count => Sum(n) + g[n + 1] = total}
<1>10. 0 \in Q
  BY <1>1, <1>2, <1>9
<1>11. ASSUME NEW n \in Q PROVE n + 1 \in Q
  <2> SUFFICES ASSUME n + 2 <= count PROVE Sum(n + 1) + g[n + 2] = total
    OBVIOUS
  <2>1. n \in Nat /\ n \in 0..(count - 1) /\ n + 1 \in 1..(count - 1) /\ (n + 1) + 1 = n + 2
    BY <1>1
  <2>2. Sum(n) + g[n + 1] = total
    BY <1>1, <2>1
  <2>3. Sum(n + 1) = drawn[n + 1] + Sum(n)
    BY <1>8, <2>1
  <2>4. drawn[n + 1] \in Nat /\ g[n + 2] = g[n + 1] - drawn[n + 1]
    BY <1>3, <2>1
  <2>5. g[n + 1] \in Nat /\ Sum(n) \in Nat
    BY <1>1, <1>2, <1>7, <2>1
  <2> QED
    BY <1>1, <2>2, <2>3, <2>4, <2>5
<1> HIDE DEF Q
<1>12. Q = Nat
  <2>1. Q \subseteq Nat
    BY DEF Q
  <2> QED
    BY <1>10, <1>11, <2>1, InductionOnSet
<1>13. Sum(count) = total
  <2>1. count - 1 \in Q /\ count - 1 \in 0..(count - 1) /\ (count - 1) + 1 = count
    BY <1>1, <1>12
  <2>2. Sum(count - 1) + g[count] = total
    BY <1>1, <2>1 DEF Q
  <2>3. Sum(count) = drawn[count] + Sum(count - 1)
    BY <1>8, <2>1
  <2>4. g[count] \in Nat /\ Sum(count - 1) \in Nat
    BY <1>1, <1>2, <1>7
  <2> QED
    BY <1>1, <1>4, <2>2, <2>3, <2>4
<1> QED
  BY <1>6, <1>13 DEF drawn, Sum

\* With the remainder of the division on top of one of them, which is in the total already.
LEMMA AmountsExceedTotal ==
    ASSUME NEW total \in Totals, NEW count \in MinSplits..MaxSplits, Enough(total, count),
           NEW random \in [1..count -> Nat], NEW bonus \in 1..count
    PROVE  SumFunctionOnSet(GenerateSplitAmounts(total, count, random, bonus), 1..count)
               = total + (total % count)
<1>1. total \in Nat /\ count \in Nat \ {0} /\ count \in Nat
  BY ConfigAssumption, BoundsAssumption
<1>2. PICK g : AreDrawn(g, total, count, random, bonus)
  BY <1>1, AmountsAreDrawn
<1> DEFINE drawn   == [i \in 1..count |-> Drawn(total, count, random, g[i], i)]
           amounts == GenerateSplitAmounts(total, count, random, bonus)
           rest    == total % count
<1>3. drawn \in [1..count -> 0..total] /\ SumFunctionOnSet(drawn, 1..count) = total
  BY <1>2, DrawnMakeTotal DEF AreDrawn
<1>4. amounts = [i \in 1..count |-> (drawn[i] + IF i = bonus THEN rest ELSE 0) % U64]
  BY <1>2 DEF AreDrawn
<1>5. rest \in 0..(count - 1)
  BY <1>1
<1>6. total + count <= U64
  BY DEF Enough
<1> HIDE DEF drawn, amounts, rest
<1>7. \A i \in 1..count :
          (drawn[i] + IF i = bonus THEN rest ELSE 0) % U64
          = drawn[i] + IF i = bonus THEN rest ELSE 0
  <2> SUFFICES ASSUME NEW i \in 1..count
               PROVE  (drawn[i] + IF i = bonus THEN rest ELSE 0) % U64
                      = drawn[i] + IF i = bonus THEN rest ELSE 0
    OBVIOUS
  <2> DEFINE amount == drawn[i] + IF i = bonus THEN rest ELSE 0
  <2>1. drawn[i] \in 0..total
    BY <1>3
  <2>2. amount \in 0..(U64 - 1)
    BY <1>1, <1>5, <1>6, <2>1, BoundsAssumption
  <2> HIDE DEF amount
  <2>3. amount % U64 = amount
    BY <2>2, NoWrap
  <2> QED
    BY <2>3 DEF amount
<1>8. amounts = [i \in 1..count |-> drawn[i] + IF i = bonus THEN rest ELSE 0]
  BY <1>4, <1>7
<1>9. IsFiniteSet(1..count) /\ rest \in Int /\ drawn \in [1..count -> Nat]
  <2>1. drawn \in [1..count -> Nat]
    BY <1>1, <1>3
  <2>2. IsFiniteSet(1..count)
    BY <1>1, FS_Interval
  <2>3. rest \in Int
    BY <1>1, <1>5
  <2> QED
    BY <2>1, <2>2, <2>3
<1>10. SumFunctionOnSet([i \in 1..count |-> drawn[i] + IF i = bonus THEN rest ELSE 0], 1..count)
          = SumFunctionOnSet(drawn, 1..count) + rest
  BY <1>9, SumRaise
<1> QED
  BY <1>3, <1>8, <1>10 DEF amounts, rest

\* What is left before split i of c, of a total T of which B is a split's share and M the most for
\* one split, if the total is 25 times the least amount D.
LEMMA EnoughLeft ==
    ASSUME NEW T \in Nat, NEW B \in Nat, NEW M \in Nat, NEW D \in Nat, NEW K \in Nat,
           NEW c \in 2..10, NEW i \in 1..(c - 1),
           c * B <= T, 5 * M <= 6 * B, 25 * D <= T, K <= D
    PROVE  D <= T - (i - 1) * M /\ (c - i) * K <= T - (i - 1) * M
OBVIOUS

\* There is enough for up to ten splits, as many as store_private_config admits, of a total of at
\* least 25 times the least amount of a split: 250,000 lamports, with the constants of
\* generate_plan.rs.
LEMMA LargeTotalsAreEnough ==
    ASSUME KeepPerSplit <= Dust, NEW total \in Nat, NEW count \in 1..10,
           25 * Dust <= total, total + count <= U64
    PROVE  Enough(total, count)
<1> SUFFICES /\ Dust <= Most(total, count)
             /\ \A i \in 1..(count - 1) :
                  /\ Dust <= total - (i - 1) * Most(total, count)
                  /\ (count - i) * KeepPerSplit <= total - (i - 1) * Most(total, count)
  BY DEF Enough
<1> DEFINE base == total \div count
           most == Most(total, count)
<1>1. count \in 1..10 /\ total \in Nat /\ Dust \in Nat /\ KeepPerSplit \in Nat
  BY BoundsAssumption
<1>2. base \in Nat /\ count * base <= total /\ total < count * base + count
  BY <1>1
<1>3. most \in Nat /\ base <= most /\ 5 * most <= 6 * base
  <2>1. most = base + base \div 5
    BY DEF Most
  <2> HIDE DEF base, most
  <2> QED
    BY <1>2, <2>1
<1> HIDE DEF base, most
<1>4. 25 * Dust <= total
  OBVIOUS
<1>5. Dust <= most
  BY <1>1, <1>2, <1>3, <1>4
<1>6. ASSUME NEW i \in 1..(count - 1)
      PROVE  Dust <= total - (i - 1) * most /\ (count - i) * KeepPerSplit <= total - (i - 1) * most
  <2>1. count \in 2..10
    BY <1>1
  <2> QED
    BY <1>1, <1>2, <1>3, <1>4, <2>1, EnoughLeft
<1> QED
  BY <1>5, <1>6 DEF most

-----------------------------------------------------------------------------
(***************************************************************************)
(* Plans keep the amounts they were drawn with                             *)
(***************************************************************************)

\* The plan, whose amounts are as they were drawn, however many executors work on it; none does
\* before there is one.
AsDrawn ==
    IF plan = NoPlan THEN \A w \in Workers : job[w] = Idle
    ELSE /\ plan = [status |-> plan.status, total_amount |-> plan.total_amount,
                    split_count |-> plan.split_count, splits |-> plan.splits,
                    expires_at |-> plan.expires_at, executed_count |-> plan.executed_count]
         /\ plan.splits = [i \in 1..plan.split_count |-> plan.splits[i]]
         /\ \A i \in 1..plan.split_count :
              plan.splits[i] = [amount |-> plan.splits[i].amount,
                                scheduled_at |-> plan.splits[i].scheduled_at,
                                executed_at |-> plan.splits[i].executed_at]
         /\ plan.total_amount \in Totals /\ plan.split_count \in MinSplits..MaxSplits
         /\ \E random \in [1..plan.split_count -> 0..MaxRandom], bonus \in 1..plan.split_count :
              Amounts = GenerateSplitAmounts(plan.total_amount, plan.split_count, random, bonus)

\* At first there is no plan, and nobody at work.
LEMMA AsDrawnStarts == Init => AsDrawn
BY DEF Init, AsDrawn

\* The plan that generate_plan.rs makes is as it was drawn.
LEMMA GenerateAsDrawn == AsDrawn /\ Generate => AsDrawn'
<1> SUFFICES ASSUME AsDrawn, Generate
             PROVE  AsDrawn'
  OBVIOUS
<1>a. PICK total \in Totals, count \in MinSplits..MaxSplits :
        \E random \in [1..count -> 0..MaxRandom], bonus \in 1..count, times \in Schedules(count) :
            plan' = GenerateWithdrawalPlan(total, count,
                        GenerateSplitAmounts(total, count, random, bonus), times)
  BY DEF Generate
<1>1. PICK random \in [1..count -> 0..MaxRandom], bonus \in 1..count, times \in Schedules(count) :
        plan' = GenerateWithdrawalPlan(total, count,
                    GenerateSplitAmounts(total, count, random, bonus), times)
  BY <1>a
<1> DEFINE amounts == GenerateSplitAmounts(total, count, random, bonus)
<1>2. DOMAIN amounts = 1..count /\ amounts = [i \in 1..count |-> amounts[i]]
  <2>1. amounts \in [1..count -> Nat]
    <3>1. total \in Nat /\ count \in Nat \ {0}
      BY ConfigAssumption, BoundsAssumption
    <3>2. random \in [1..count -> Nat]
      BY BoundsAssumption
    <3> QED
      BY <3>1, <3>2, AmountsType
  <2> HIDE DEF amounts
  <2> QED
    BY <2>1
<1> HIDE DEF amounts
<1>3. /\ plan' = [status |-> plan'.status, total_amount |-> plan'.total_amount,
                  split_count |-> plan'.split_count, splits |-> plan'.splits,
                  expires_at |-> plan'.expires_at, executed_count |-> plan'.executed_count]
      /\ plan'.status = "Pending" /\ plan'.total_amount = total /\ plan'.split_count = count
      /\ plan'.splits = [i \in 1..count |-> [amount |-> amounts[i], scheduled_at |-> times[i],
                                             executed_at |-> 0]]
  BY <1>1 DEF GenerateWithdrawalPlan, amounts
<1>4. plan' # NoPlan
  BY <1>3 DEF NoPlan
<1>5. Amounts' = amounts
  BY <1>2, <1>3 DEF Amounts
<1>6. plan'.splits = [i \in 1..count |-> plan'.splits[i]]
      /\ \A i \in 1..count :
            plan'.splits[i] = [amount |-> plan'.splits[i].amount,
                               scheduled_at |-> plan'.splits[i].scheduled_at,
                               executed_at |-> plan'.splits[i].executed_at]
  BY <1>3
<1>7. \E r \in [1..count -> 0..MaxRandom], b \in 1..count :
          Amounts' = GenerateSplitAmounts(total, count, r, b)
  BY <1>5 DEF amounts
<1> QED
  BY <1>3, <1>4, <1>6, <1>7 DEF AsDrawn

\* A step that changes a plan keeps it as it was drawn if it keeps what it was drawn with.
LEMMA SameDraw ==
    ASSUME plan # NoPlan, AsDrawn, plan' # NoPlan,
           plan' = [status |-> plan'.status, total_amount |-> plan.total_amount,
                    split_count |-> plan.split_count, splits |-> plan'.splits,
                    expires_at |-> plan'.expires_at, executed_count |-> plan'.executed_count],
           plan'.splits = [i \in 1..plan.split_count |-> plan'.splits[i]],
           \A i \in 1..plan.split_count :
               plan'.splits[i] = [amount |-> plan.splits[i].amount,
                                  scheduled_at |-> plan'.splits[i].scheduled_at,
                                  executed_at |-> plan'.splits[i].executed_at]
    PROVE  AsDrawn'
<1>1. plan'.total_amount = plan.total_amount /\ plan'.split_count = plan.split_count
  OBVIOUS
<1> DEFINE old == plan.splits
           new == plan'.splits
           n   == plan.split_count
<1>2. \A i \in 1..n : new[i].amount = old[i].amount
  <2> SUFFICES ASSUME NEW i \in 1..n PROVE new[i].amount = old[i].amount
    OBVIOUS
  <2>1. new[i] = [amount |-> old[i].amount, scheduled_at |-> new[i].scheduled_at,
                  executed_at |-> new[i].executed_at]
    OBVIOUS
  <2> DEFINE split == new[i]
  <2>2. split = [amount |-> old[i].amount, scheduled_at |-> split.scheduled_at,
                 executed_at |-> split.executed_at]
    BY <2>1
  <2> HIDE DEF split, old
  <2> QED
    BY <2>2 DEF split
<1>3. DOMAIN new = 1..n /\ DOMAIN old = 1..n
  BY DEF AsDrawn
<1>4. Amounts' = Amounts
  <2>1. /\ Amounts' = [i \in DOMAIN new |-> new[i].amount]
        /\ Amounts = [i \in DOMAIN old |-> old[i].amount]
    BY DEF Amounts
  <2> HIDE DEF old, new, n
  <2> QED
    BY <1>2, <1>3, <2>1
<1>5. \A i \in 1..n : new[i] = [amount |-> new[i].amount, scheduled_at |-> new[i].scheduled_at,
                                executed_at |-> new[i].executed_at]
  <2> SUFFICES ASSUME NEW i \in 1..n
               PROVE  new[i] = [amount |-> new[i].amount, scheduled_at |-> new[i].scheduled_at,
                                executed_at |-> new[i].executed_at]
    OBVIOUS
  <2>1. new[i] = [amount |-> old[i].amount, scheduled_at |-> new[i].scheduled_at,
                  executed_at |-> new[i].executed_at]
    OBVIOUS
  <2> HIDE DEF old, new, n
  <2> QED
    BY <1>2, <2>1
<1> QED
  BY <1>1, <1>4, <1>5 DEF AsDrawn

\* mark_split_executed records when, and what it counts; it leaves the amounts alone.
LEMMA MarkAsDrawn ==
    ASSUME AsDrawn, NEW w \in Workers, MarkSplitExecuted(w)
    PROVE  AsDrawn'
<1> DEFINE k  == job[w].split
           at == job[w].executed_at
<1>1. plan # NoPlan
  BY DEF MarkSplitExecuted, AsDrawn
<1>2. CASE k \notin DOMAIN plan.splits
  <2>1. plan' = plan
    BY <1>2 DEF MarkSplitExecuted
  <2> QED
    BY <1>1, <2>1 DEF AsDrawn, Amounts
<1>3. CASE k \in DOMAIN plan.splits
  <2>1. plan' = Recorded(k, at)
    BY <1>3 DEF MarkSplitExecuted
  <2> DEFINE splits == [plan.splits EXCEPT ![k] = [plan.splits[k] EXCEPT !.executed_at = at]]
  <2>2. /\ plan' = [status |-> plan'.status, total_amount |-> plan.total_amount,
                    split_count |-> plan.split_count, splits |-> plan'.splits,
                    expires_at |-> plan'.expires_at, executed_count |-> plan'.executed_count]
        /\ plan'.status \in {"Completed", "InProgress"}
        /\ plan'.splits = splits
    BY <1>1, <2>1 DEF Recorded, AsDrawn
  <2>3. plan' # NoPlan
    BY <2>2 DEF NoPlan
  <2>4. DOMAIN plan.splits = 1..plan.split_count
    BY <1>1 DEF AsDrawn
  <2>5. \A i \in 1..plan.split_count :
            plan'.splits[i] = IF i = k THEN [plan.splits[k] EXCEPT !.executed_at = at]
                                       ELSE plan.splits[i]
    BY <2>2, <2>4
  <2>6. plan'.splits = [i \in 1..plan.split_count |-> plan'.splits[i]]
    BY <2>2, <2>4
  <2>7. \A i \in 1..plan.split_count :
            plan'.splits[i] = [amount |-> plan.splits[i].amount,
                               scheduled_at |-> plan'.splits[i].scheduled_at,
                               executed_at |-> plan'.splits[i].executed_at]
    <3> SUFFICES ASSUME NEW i \in 1..plan.split_count
                 PROVE  plan'.splits[i] = [amount |-> plan.splits[i].amount,
                                           scheduled_at |-> plan'.splits[i].scheduled_at,
                                           executed_at |-> plan'.splits[i].executed_at]
      OBVIOUS
    <3>1. plan.splits[i] = [amount |-> plan.splits[i].amount,
                            scheduled_at |-> plan.splits[i].scheduled_at,
                            executed_at |-> plan.splits[i].executed_at]
      BY <1>1 DEF AsDrawn
    <3>2. CASE i # k
      <4>1. plan'.splits[i] = plan.splits[i]
        BY <2>5, <3>2
      <4> QED
        BY <3>1, <4>1, Zenon
    <3>3. CASE i = k
      <4>1. plan'.splits[i] = [plan.splits[i] EXCEPT !.executed_at = at]
        BY <2>5, <3>3
      <4> DEFINE split == plan.splits[i]
                 new   == plan'.splits[i]
      <4>2. new = [amount |-> split.amount, scheduled_at |-> split.scheduled_at,
                   executed_at |-> at]
        BY <3>1, <4>1
      <4> HIDE DEF split, new
      <4>3. new = [amount |-> split.amount, scheduled_at |-> new.scheduled_at,
                   executed_at |-> new.executed_at]
        BY <4>2
      <4> QED
        BY <4>3 DEF split, new
    <3> QED
      BY <3>2, <3>3
  <2> QED
    BY <1>1, <2>2, <2>3, <2>6, <2>7, SameDraw
<1> QED
  BY <1>2, <1>3

\* Nor does a cancellation touch them.
LEMMA CancelAsDrawn == AsDrawn /\ CancelWithdrawalPlan => AsDrawn'
<1> SUFFICES ASSUME AsDrawn, CancelWithdrawalPlan
             PROVE  AsDrawn'
  OBVIOUS
<1>1. plan # NoPlan /\ plan' = [plan EXCEPT !.status = "Cancelled"]
  BY DEF CancelWithdrawalPlan
<1>2. /\ plan' = [status |-> plan'.status, total_amount |-> plan.total_amount,
                  split_count |-> plan.split_count, splits |-> plan'.splits,
                  expires_at |-> plan'.expires_at, executed_count |-> plan'.executed_count]
      /\ plan'.status = "Cancelled"
      /\ plan'.splits = plan.splits
  BY <1>1 DEF AsDrawn
<1>3. plan' # NoPlan
  BY <1>2 DEF NoPlan
<1>4. plan'.splits = [i \in 1..plan.split_count |-> plan'.splits[i]]
  BY <1>1, <1>2 DEF AsDrawn
<1>5. \A i \in 1..plan.split_count :
          plan'.splits[i] = [amount |-> plan.splits[i].amount,
                             scheduled_at |-> plan'.splits[i].scheduled_at,
                             executed_at |-> plan'.splits[i].executed_at]
  BY <1>1, <1>2 DEF AsDrawn
<1> QED
  BY <1>1, <1>2, <1>3, <1>4, <1>5, SameDraw

\* The other steps leave the plan alone, and nobody begins before there is one.
LEMMA OthersAsDrawn ==
    ASSUME AsDrawn, UNCHANGED plan, plan # NoPlan \/ UNCHANGED job
    PROVE  AsDrawn'
BY DEF AsDrawn, Amounts

\* Every step keeps the plan as it was drawn.
LEMMA StepAsDrawn == AsDrawn /\ [Next]_vars => AsDrawn'
<1> SUFFICES ASSUME AsDrawn, [Next]_vars
             PROVE  AsDrawn'
  OBVIOUS
<1>1. CASE Generate
  BY <1>1, GenerateAsDrawn
<1>2. CASE CancelWithdrawalPlan
  BY <1>2, CancelAsDrawn
<1>3. CASE Tick
  BY <1>3, OthersAsDrawn DEF Tick
<1>4. ASSUME NEW w \in Workers, Worker(w)
      PROVE  AsDrawn'
  <2>1. ASSUME NEW i \in Indices, NEW vault_balance \in Balances,
               ExecuteWithdrawalSplit(w, i, vault_balance)
        PROVE  AsDrawn'
    BY <2>1, OthersAsDrawn DEF ExecuteWithdrawalSplit
  <2>2. CASE Broadcast(w)
    <3>1. plan # NoPlan
      BY <2>2 DEF Broadcast, AsDrawn
    <3> QED
      BY <2>2, <3>1, OthersAsDrawn DEF Broadcast
  <2>3. CASE GiveUp(w)
    <3>1. plan # NoPlan
      BY <2>3 DEF GiveUp, AsDrawn
    <3> QED
      BY <2>3, <3>1, OthersAsDrawn DEF GiveUp
  <2>4. CASE MarkSplitExecuted(w)
    BY <2>4, MarkAsDrawn
  <2> QED
    BY <1>4, <2>1, <2>2, <2>3, <2>4 DEF Worker
<1>5. CASE UNCHANGED vars
  BY <1>5, OthersAsDrawn DEF vars
<1> QED
  BY <1>1, <1>2, <1>3, <1>4, <1>5 DEF Next

\* What the amounts of such a plan are.
LEMMA AmountsOfPlan ==
    ASSUME AsDrawn, plan # NoPlan
    PROVE  /\ DOMAIN plan.splits = 1..plan.split_count
           /\ Amounts \in [1..plan.split_count -> Nat]
           /\ IsFiniteSet(1..plan.split_count)
<1>1. PICK random \in [1..plan.split_count -> 0..MaxRandom], bonus \in 1..plan.split_count :
          Amounts = GenerateSplitAmounts(plan.total_amount, plan.split_count, random, bonus)
  BY DEF AsDrawn
<1>2. plan.total_amount \in Nat /\ plan.split_count \in Nat \ {0}
  <2>1. plan.total_amount \in Totals /\ plan.split_count \in MinSplits..MaxSplits
    BY DEF AsDrawn
  <2>2. \A total \in Totals, count \in MinSplits..MaxSplits : total \in Nat /\ count \in Nat \ {0}
    BY ConfigAssumption, BoundsAssumption
  <2> QED
    BY <2>1, <2>2, Zenon
<1>3. random \in [1..plan.split_count -> Nat]
  BY BoundsAssumption
<1>4. Amounts \in [1..plan.split_count -> Nat]
  BY <1>1, <1>2, <1>3, AmountsType
<1>5. DOMAIN plan.splits = 1..plan.split_count
  BY DEF AsDrawn
<1> QED
  BY <1>2, <1>4, <1>5, FS_Interval

\* The splits of a plan take what was asked for and the remainder of the division, twice that is,
\* wherever enough was asked for to be split so often; so they sum to the total, as
\* generate_plan.rs says, just where it divides evenly.
THEOREM PlansExceedByRemainder ==
    Spec => [](/\ SplitsExceedByRemainder
               /\ plan # NoPlan /\ Enough(plan.total_amount, plan.split_count) =>
                     (SumFunction(Amounts) = plan.total_amount
                      <=> plan.total_amount % plan.split_count = 0))
<1>1. ASSUME AsDrawn, plan # NoPlan, Enough(plan.total_amount, plan.split_count)
      PROVE  SumFunction(Amounts) = plan.total_amount + (plan.total_amount % plan.split_count)
  <2> DEFINE total == plan.total_amount
             count == plan.split_count
  <2>1. total \in Totals /\ count \in MinSplits..MaxSplits
    BY <1>1 DEF AsDrawn
  <2>2. PICK random \in [1..count -> 0..MaxRandom], bonus \in 1..count :
            Amounts = GenerateSplitAmounts(total, count, random, bonus)
    BY <1>1 DEF AsDrawn
  <2>3. random \in [1..count -> Nat]
    BY BoundsAssumption
  <2>4. SumFunction(Amounts) = SumFunctionOnSet(Amounts, 1..count)
    <3>1. DOMAIN Amounts = 1..count
      BY <1>1, AmountsOfPlan
    <3> QED
      BY <3>1 DEF SumFunction
  <2>5. Enough(total, count)
    BY <1>1
  <2> HIDE DEF total, count
  <2>6. SumFunctionOnSet(GenerateSplitAmounts(total, count, random, bonus), 1..count)
            = total + (total % count)
    BY <2>1, <2>3, <2>5, AmountsExceedTotal
  <2>7. SumFunction(Amounts) = total + (total % count)
    BY <2>2, <2>4, <2>6
  <2> QED
    BY <2>7 DEF total, count
<1>2. ASSUME AsDrawn, plan # NoPlan
      PROVE  plan.total_amount \in Nat /\ plan.split_count \in Nat \ {0}
  BY <1>2, ConfigAssumption, BoundsAssumption DEF AsDrawn
<1> DEFINE Even == plan # NoPlan /\ Enough(plan.total_amount, plan.split_count) =>
                       (SumFunction(Amounts) = plan.total_amount
                        <=> plan.total_amount % plan.split_count = 0)
<1>3. AsDrawn => SplitsExceedByRemainder
  BY <1>1 DEF SplitsExceedByRemainder
<1>4. AsDrawn => Even
  <2> SUFFICES ASSUME AsDrawn, plan # NoPlan, Enough(plan.total_amount, plan.split_count)
               PROVE  SumFunction(Amounts) = plan.total_amount
                      <=> plan.total_amount % plan.split_count = 0
    OBVIOUS
  <2> DEFINE sum   == SumFunction(Amounts)
             total == plan.total_amount
             rest  == total % plan.split_count
  <2>1. sum = total + rest /\ total \in Nat /\ rest \in Nat
    BY <1>1, <1>2
  <2> HIDE DEF sum, total, rest
  <2>2. sum = total <=> rest = 0
    BY <2>1
  <2> QED
    BY <2>2 DEF sum, total, rest
<1> QED
  BY <1>3, <1>4, AsDrawnStarts, StepAsDrawn, PTL DEF Spec

-----------------------------------------------------------------------------
(***************************************************************************)
(* The record of a plan, with one executor                                 *)
(***************************************************************************)

\* The fields of a plan and of its splits, and the executors' work.
Shape ==
    /\ now \in Nat \ {0}
    /\ paid \in [Indices -> Nat]
    /\ job \in [Workers -> Jobs \cup {Idle}]
    /\ plan # NoPlan =>
         /\ plan = [status |-> plan.status, total_amount |-> plan.total_amount,
                    split_count |-> plan.split_count, splits |-> plan.splits,
                    expires_at |-> plan.expires_at,
                    executed_count |-> plan.executed_count]
         /\ plan.status \in Statuses
         /\ plan.split_count \in MinSplits..MaxSplits
         /\ plan.splits = [i \in 1..plan.split_count |-> plan.splits[i]]
         /\ \A i \in 1..plan.split_count :
              /\ plan.splits[i] = [amount |-> plan.splits[i].amount,
                                   scheduled_at |-> plan.splits[i].scheduled_at,
                                   executed_at |-> plan.splits[i].executed_at]
              /\ plan.splits[i].executed_at \in Nat
              /\ plan.splits[i].scheduled_at \in Nat

\* What an executor has in hand is a split of the plan that is not executed.
InHand ==
    \A w \in Workers : job[w] # Idle =>
        /\ plan # NoPlan
        /\ job[w].split \in Unexecuted

\* A split was paid for once if it is executed or if an executor has broadcast
\* its transfer, and never else.
UnderWay(i) == \E w \in Workers : job[w] # Idle /\ job[w].split = i /\ job[w].broadcast

Books ==
    IF plan = NoPlan THEN \A i \in Indices : paid[i] = 0
    ELSE \A i \in 1..plan.split_count :
             paid[i] = IF plan.splits[i].executed_at # 0 \/ UnderWay(i) THEN 1 ELSE 0

\* One executor at most works on a plan.
OneExecutor == \A v, w \in Workers : v = w

-----------------------------------------------------------------------------
\* A set of the error codes 2 to 5 has a least one.
LEMMA LeastCode ==
    ASSUME NEW failed, failed \subseteq 2..5, failed # {}
    PROVE  Min(failed) \in 2..5
<1>0. \A y \in failed : y \in {2, 3, 4, 5}
  OBVIOUS
<1>1. \E x \in failed : \A y \in failed : x <= y
  <2>1. CASE 2 \in failed
    BY <1>0, <2>1
  <2>2. CASE 2 \notin failed /\ 3 \in failed
    BY <1>0, <2>2
  <2>3. CASE 2 \notin failed /\ 3 \notin failed /\ 4 \in failed
    BY <1>0, <2>3
  <2>4. CASE 2 \notin failed /\ 3 \notin failed /\ 4 \notin failed
    <3>1. PICK x \in failed : TRUE
      OBVIOUS
    <3>2. \A y \in failed : y = 5
      BY <1>0, <2>4
    <3>3. QED
      BY <3>1, <3>2
  <2>5. QED
    BY <2>1, <2>2, <2>3, <2>4
<1>2. QED
  BY <1>1 DEF Min

\* A split that is approved is one of the plan's and was not executed before.
LEMMA ApprovedIsUnexecuted ==
    ASSUME NEW i, NEW vault_balance, ErrorCode(i, vault_balance) = 0
    PROVE  i \in Unexecuted
<1> DEFINE failed == {code \in 2..5 : Fails(plan.splits[i], code, vault_balance)}
<1>1. i \in DOMAIN plan.splits
  BY DEF ErrorCode
<1>2. failed = {}
  <2>1. failed \subseteq 2..5
    OBVIOUS
  <2>2. failed # {} => Min(failed) = 0
    BY <1>1 DEF ErrorCode
  <2> HIDE DEF failed
  <2>3. failed # {} => Min(failed) \in 2..5
    BY <2>1, LeastCode
  <2>4. QED
    BY <2>2, <2>3
<1>3. ~Fails(plan.splits[i], 2, vault_balance)
  BY <1>2
<1>4. plan.splits[i].executed_at = 0
  BY <1>3 DEF Fails
<1>5. QED
  BY <1>1, <1>4 DEF Unexecuted

-----------------------------------------------------------------------------
(***************************************************************************)
(* The record of a plan agrees with the transfers                          *)
(***************************************************************************)
PlanInv == Shape /\ InHand /\ Books

\* No split is paid for before there is a plan.
LEMMA InitBooks == Init => PlanInv
BY ConfigAssumption DEF Init, PlanInv, Shape, InHand, Books

\* A new plan has no executed split, and nobody is at work on it.
LEMMA GenerateKeepsBooks == PlanInv /\ Generate => PlanInv'
<1> SUFFICES ASSUME PlanInv, Generate
             PROVE  PlanInv'
  OBVIOUS
<1> USE DEF PlanInv, Shape
<1>1. PICK total, count, amounts, times :
        /\ count \in MinSplits..MaxSplits
        /\ times \in Schedules(count)
        /\ plan' = GenerateWithdrawalPlan(total, count, amounts, times)
  BY DEF Generate
<1>0. \A i \in 1..count : times[i] \in Nat
  BY <1>1 DEF Schedules
<1>2. /\ plan'.status = "Pending"
      /\ plan'.split_count = count
      /\ plan'.splits = [i \in 1..count |-> [amount |-> amounts[i],
                            scheduled_at |-> times[i], executed_at |-> 0]]
      /\ plan' = [status |-> plan'.status, total_amount |-> plan'.total_amount,
                  split_count |-> plan'.split_count, splits |-> plan'.splits,
                  expires_at |-> plan'.expires_at,
                  executed_count |-> plan'.executed_count]
  BY <1>1 DEF GenerateWithdrawalPlan
<1>3. plan = NoPlan /\ UNCHANGED <<job, paid, now>>
  BY DEF Generate
<1>4. plan' # NoPlan
  BY <1>2 DEF NoPlan
<1>5. Shape'
  BY <1>0, <1>1, <1>2, <1>3 DEF Statuses
<1>6. \A w \in Workers : job[w] = Idle
  BY <1>3 DEF InHand
<1>7. InHand'
  BY <1>3, <1>6 DEF InHand
<1>8. \A i \in 1..count : i \in Indices /\ plan'.splits[i].executed_at = 0
  BY <1>1, <1>2, ConfigAssumption DEF Indices
<1>9. Books'
  BY <1>2, <1>3, <1>4, <1>6, <1>8 DEF Books, UnderWay
<1>10. QED
  BY <1>5, <1>7, <1>9

\* An executor takes up a split that is not executed: nothing is under way yet.
LEMMA ExecuteKeepsBooks ==
    ASSUME PlanInv, NEW w \in Workers, NEW i \in Indices, NEW vault_balance,
           ExecuteWithdrawalSplit(w, i, vault_balance)
    PROVE  PlanInv'
<1> USE DEF PlanInv
<1> DEFINE task == [split |-> i, executed_at |-> now, broadcast |-> FALSE]
<1>1. /\ plan # NoPlan /\ job[w] = Idle
      /\ job' = [job EXCEPT ![w] = task]
      /\ UNCHANGED <<plan, paid, now>>
      /\ i \in Unexecuted
  BY ApprovedIsUnexecuted DEF ExecuteWithdrawalSplit
<1>2. task \in Jobs
  BY DEF Jobs, Shape
<1>3. Shape'
  BY <1>1, <1>2 DEF Shape
<1>4. Unexecuted' = Unexecuted
  BY <1>1 DEF Unexecuted
<1>5. InHand'
  BY <1>1, <1>4 DEF InHand, Shape
<1>6. \A k : UnderWay(k)' <=> UnderWay(k)
  BY <1>1, <1>2, IdleAssumption DEF UnderWay, Shape
<1>7. Books'
  BY <1>1, <1>6 DEF Books
<1>8. QED
  BY <1>3, <1>5, <1>7

\* The transfer an executor broadcasts is the first for its split, since there is no other
\* executor.
LEMMA BroadcastKeepsBooks ==
    ASSUME OneExecutor, PlanInv, NEW w \in Workers, Broadcast(w)
    PROVE  PlanInv'
<1> USE DEF PlanInv
<1>1. /\ job[w] \in Jobs /\ ~job[w].broadcast
      /\ job' = [job EXCEPT ![w] = [job[w] EXCEPT !.broadcast = TRUE]]
      /\ paid' = [paid EXCEPT ![job[w].split] = @ + 1]
      /\ UNCHANGED <<plan, now>>
  BY DEF Broadcast, Shape
<1> DEFINE task == [job[w] EXCEPT !.broadcast = TRUE]
<1>2. task \in Jobs /\ task.split = job[w].split /\ task.broadcast
  BY <1>1 DEF Jobs
<1>3. job[w].split \in Indices
  BY <1>1 DEF Jobs
<1>4. Shape'
  BY <1>1, <1>2, <1>3 DEF Shape
<1>5. Unexecuted' = Unexecuted
  BY <1>1 DEF Unexecuted
<1>6. InHand'
  BY <1>1, <1>2, <1>5, IdleAssumption DEF InHand, Shape
<1>7. \A k : ~UnderWay(k) /\ (UnderWay(k)' <=> k = job[w].split)
  BY <1>1, <1>2, IdleAssumption DEF UnderWay, OneExecutor, Shape
<1>8. plan # NoPlan /\ job[w].split \in Unexecuted
  BY <1>1, IdleAssumption DEF InHand
<1>9. Books'
  BY <1>1, <1>3, <1>7, <1>8 DEF Books, Shape, Unexecuted
<1>10. QED
  BY <1>4, <1>6, <1>9

\* An executor that gives up has broadcast nothing.
LEMMA GiveUpKeepsBooks ==
    ASSUME PlanInv, NEW w \in Workers, GiveUp(w)
    PROVE  PlanInv'
<1> USE DEF PlanInv
<1>1. /\ job[w] # Idle /\ ~job[w].broadcast
      /\ job' = [job EXCEPT ![w] = Idle]
      /\ UNCHANGED <<plan, paid, now>>
  BY DEF GiveUp
<1>2. Shape'
  BY <1>1 DEF Shape
<1>3. Unexecuted' = Unexecuted
  BY <1>1 DEF Unexecuted
<1>4. InHand'
  BY <1>1, <1>3 DEF InHand, Shape
<1>5. \A k : UnderWay(k)' <=> UnderWay(k)
  BY <1>1 DEF UnderWay, Shape
<1>6. Books'
  BY <1>1, <1>5 DEF Books
<1>7. QED
  BY <1>2, <1>4, <1>6

\* mark_split_executed records what was under way, once.
LEMMA MarkKeepsBooks ==
    ASSUME OneExecutor, PlanInv, NEW w \in Workers, MarkSplitExecuted(w)
    PROVE  PlanInv'
<1> USE DEF PlanInv
<1> DEFINE k  == job[w].split
           at == job[w].executed_at
<1>1. /\ job[w] # Idle /\ job[w].broadcast
      /\ job' = [job EXCEPT ![w] = Idle]
      /\ UNCHANGED <<paid, now>>
  BY DEF MarkSplitExecuted
<1>2. plan # NoPlan /\ k \in 1..plan.split_count /\ plan.splits[k].executed_at = 0
  BY <1>1 DEF InHand, Unexecuted, Shape
<1>3. job[w] \in Jobs /\ at \in Nat \ {0}
  BY <1>1 DEF Shape, Jobs
<1>4. plan' = Recorded(k, at)
  BY <1>2 DEF MarkSplitExecuted, Shape
<1> DEFINE splits == [plan.splits EXCEPT ![k] =
                         [plan.splits[k] EXCEPT !.executed_at = at]]
<1>5. /\ plan'.status \in {"Completed", "InProgress"}
      /\ plan'.split_count = plan.split_count
      /\ plan'.splits = splits
      /\ plan' = [status |-> plan'.status, total_amount |-> plan'.total_amount,
                  split_count |-> plan'.split_count, splits |-> plan'.splits,
                  expires_at |-> plan'.expires_at,
                  executed_count |-> plan'.executed_count]
  BY <1>2, <1>4 DEF Recorded, Shape
<1>6. plan' # NoPlan
  BY <1>5 DEF NoPlan
<1>7. \A i \in 1..plan.split_count :
        plan'.splits[i] = IF i = k THEN [plan.splits[k] EXCEPT !.executed_at = at]
                                   ELSE plan.splits[i]
  BY <1>2, <1>5 DEF Shape
<1>8. /\ plan'.splits[k].executed_at = at
      /\ plan'.splits[k].scheduled_at = plan.splits[k].scheduled_at
      /\ plan'.splits[k] = [amount |-> plan'.splits[k].amount,
                            scheduled_at |-> plan'.splits[k].scheduled_at,
                            executed_at |-> plan'.splits[k].executed_at]
  BY <1>2, <1>7 DEF Shape
<1>9. \A i \in 1..plan.split_count :
        i # k => plan'.splits[i].executed_at = plan.splits[i].executed_at
  BY <1>7
<1>10. Shape'
  <2>1. plan'.splits = [i \in 1..plan.split_count |-> plan'.splits[i]]
    BY <1>2, <1>5 DEF Shape
  <2>2. \A i \in 1..plan.split_count :
          /\ plan'.splits[i] = [amount |-> plan'.splits[i].amount,
                                scheduled_at |-> plan'.splits[i].scheduled_at,
                                executed_at |-> plan'.splits[i].executed_at]
          /\ plan'.splits[i].executed_at \in Nat
          /\ plan'.splits[i].scheduled_at \in Nat
    <3> SUFFICES ASSUME NEW i \in 1..plan.split_count
                 PROVE  /\ plan'.splits[i] = [amount |-> plan'.splits[i].amount,
                                              scheduled_at |-> plan'.splits[i].scheduled_at,
                                              executed_at |-> plan'.splits[i].executed_at]
                        /\ plan'.splits[i].executed_at \in Nat
                        /\ plan'.splits[i].scheduled_at \in Nat
      OBVIOUS
    <3>1. CASE i # k
      <4>1. plan'.splits[i] = plan.splits[i]
        BY <1>7, <3>1
      <4>2. QED
        BY <1>2, <4>1, Zenon DEF Shape
    <3>2. CASE i = k
      <4>1. plan.splits[k].scheduled_at \in Nat
        BY <1>2 DEF Shape
      <4>2. QED
        BY <1>3, <1>8, <3>2, <4>1, Zenon
    <3>3. QED
      BY <3>1, <3>2
  <2>3. QED
    BY <1>1, <1>2, <1>5, <1>6, <2>1, <2>2 DEF Shape, Statuses
<1>11. \A v \in Workers : job'[v] = Idle
  BY <1>1 DEF OneExecutor, Shape
<1>12. InHand'
  BY <1>11 DEF InHand
<1>13. \A i : (UnderWay(i) <=> i = k) /\ ~UnderWay(i)'
  BY <1>1, <1>11 DEF UnderWay, OneExecutor
<1>14. Books'
  BY <1>1, <1>2, <1>3, <1>5, <1>6, <1>8, <1>9, <1>13 DEF Books
<1>15. QED
  BY <1>10, <1>12, <1>14

\* A cancellation leaves the splits, the executors and the transfers alone.
LEMMA CancelKeepsBooks == PlanInv /\ CancelWithdrawalPlan => PlanInv'
<1> SUFFICES ASSUME PlanInv, CancelWithdrawalPlan
             PROVE  PlanInv'
  OBVIOUS
<1> USE DEF PlanInv
<1>1. /\ plan # NoPlan
      /\ plan' = [plan EXCEPT !.status = "Cancelled"]
      /\ UNCHANGED <<job, paid, now>>
  BY DEF CancelWithdrawalPlan
<1>2. /\ plan'.status = "Cancelled"
      /\ plan'.split_count = plan.split_count
      /\ plan'.splits = plan.splits
      /\ plan' = [status |-> plan'.status, total_amount |-> plan'.total_amount,
                  split_count |-> plan'.split_count, splits |-> plan'.splits,
                  expires_at |-> plan'.expires_at,
                  executed_count |-> plan'.executed_count]
  BY <1>1 DEF Shape
<1>3. plan' # NoPlan
  BY <1>2 DEF NoPlan
<1>4. Shape'
  BY <1>1, <1>2, <1>3 DEF Shape, Statuses
<1>5. Unexecuted' = Unexecuted
  BY <1>2 DEF Unexecuted
<1>6. InHand'
  BY <1>1, <1>3, <1>5 DEF InHand
<1>7. \A k : UnderWay(k)' <=> UnderWay(k)
  BY <1>1 DEF UnderWay
<1>8. Books'
  BY <1>1, <1>2, <1>3, <1>7 DEF Books
<1>9. QED
  BY <1>4, <1>6, <1>8

\* A step that changes neither the plan nor the executors nor the transfers.
LEMMA StutterKeepsBooks ==
    ASSUME PlanInv, UNCHANGED <<plan, job, paid>>, now' \in Nat \ {0}
    PROVE  PlanInv'
BY DEF PlanInv, Shape, InHand, Books, UnderWay, Unexecuted

\* Every step keeps the books.
LEMMA StepKeepsBooks ==
    ASSUME OneExecutor, PlanInv, [Next]_vars
    PROVE  PlanInv'
<1>1. CASE Generate
  BY <1>1, GenerateKeepsBooks
<1>2. CASE CancelWithdrawalPlan
  BY <1>2, CancelKeepsBooks
<1>3. CASE Tick
  BY <1>3, StutterKeepsBooks DEF Tick, PlanInv, Shape
<1>4. ASSUME NEW w \in Workers, Worker(w)
      PROVE  PlanInv'
  <2>1. ASSUME NEW i \in Indices, NEW vault_balance \in Balances,
               ExecuteWithdrawalSplit(w, i, vault_balance)
        PROVE  PlanInv'
    BY <2>1, ExecuteKeepsBooks
  <2>2. CASE Broadcast(w)
    BY <2>2, BroadcastKeepsBooks
  <2>3. CASE GiveUp(w)
    BY <2>3, GiveUpKeepsBooks
  <2>4. CASE MarkSplitExecuted(w)
    BY <2>4, MarkKeepsBooks
  <2>5. QED
    BY <1>4, <2>1, <2>2, <2>3, <2>4 DEF Worker
<1>5. CASE UNCHANGED vars
  BY <1>5, StutterKeepsBooks DEF vars, PlanInv, Shape
<1>6. QED
  BY <1>1, <1>2, <1>3, <1>4, <1>5 DEF Next

\* The books of the invariant are what RecordMatchesTransfers says of each split.
LEMMA BooksAgree ==
    ASSUME OneExecutor, PlanInv
    PROVE  RecordMatchesTransfers
<1> SUFFICES ASSUME plan # NoPlan, NEW i \in DOMAIN plan.splits
             PROVE  paid[i] = (IF i \in Unexecuted THEN 0 ELSE 1)
                              + Cardinality({w \in Workers : /\ job[w] # Idle
                                                             /\ job[w].split = i
                                                             /\ job[w].broadcast})
  BY DEF RecordMatchesTransfers
<1> DEFINE senders == {w \in Workers : /\ job[w] # Idle
                                       /\ job[w].split = i
                                       /\ job[w].broadcast}
<1>1. i \in 1..plan.split_count /\ (i \in Unexecuted <=> plan.splits[i].executed_at = 0)
  BY DEF PlanInv, Shape, Unexecuted
<1>2. CASE UnderWay(i)
  <2>1. PICK w \in Workers : senders = {w}
    BY <1>2 DEF UnderWay, OneExecutor
  <2>2. Cardinality(senders) = 1
    BY <2>1, FS_Singleton
  <2>3. i \in Unexecuted
    BY <1>2 DEF UnderWay, PlanInv, InHand
  <2>4. paid[i] = 1
    BY <1>1, <1>2 DEF PlanInv, Books
  <2>5. QED
    BY <2>2, <2>3, <2>4
<1>3. CASE ~UnderWay(i)
  <2>1. senders = {}
    BY <1>3 DEF UnderWay
  <2>2. Cardinality(senders) = 0
    BY <2>1, FS_EmptySet
  <2>3. paid[i] = IF i \in Unexecuted THEN 0 ELSE 1
    BY <1>1, <1>3 DEF PlanInv, Books
  <2>4. QED
    BY <2>2, <2>3
<1>4. QED
  BY <1>2, <1>3

\* With one executor no split is paid twice and none is recorded that was not
\* paid, whatever is cancelled, refused or given up in between
\* (execute_withdrawal_split, mark_split_executed and cancel_withdrawal_plan of
\* execute_split.rs).
THEOREM SplitsPaidOnce ==
    ASSUME OneExecutor
    PROVE  Spec => []RecordMatchesTransfers
<1>1. Init => PlanInv
  BY InitBooks
<1>2. PlanInv /\ [Next]_vars => PlanInv'
  BY StepKeepsBooks
<1>3. PlanInv => RecordMatchesTransfers
  BY BooksAgree
<1>4. QED
  BY <1>1, <1>2, <1>3, PTL DEF Spec

\* What the transfers so far took is what the executed splits and those under way amount to; so
\* what is left of the plan is the splits that are not executed, but for those under way.
LEMMA TransferredIsPaid ==
    ASSUME PlanInv, AsDrawn, plan # NoPlan
    PROVE  SumFunctionOnSet(Amounts, Unexecuted)
           = SumFunction(Amounts) - Transferred + SumFunctionOnSet(Amounts, Unrecorded)
<1> DEFINE S == DOMAIN plan.splits
           a == Amounts
           Sum(T) == SumFunctionOnSet(a, T)
           U == Unexecuted
           R == Unrecorded
           V == (S \ U) \cup R
           taken == [i \in S |-> paid[i] * a[i]]
<1>1. DOMAIN a = S /\ S = 1..plan.split_count /\ IsFiniteSet(S) /\ \A i \in S : a[i] \in Nat
  <2>1. S = 1..plan.split_count /\ a \in [1..plan.split_count -> Nat]
        /\ IsFiniteSet(1..plan.split_count)
    BY AmountsOfPlan
  <2> HIDE DEF S, a
  <2> QED
    BY <2>1
<1>2. U \in SUBSET S /\ R \in SUBSET U /\ V \in SUBSET S /\ R \in SUBSET V
  <2>1. U \in SUBSET S
    BY DEF Unexecuted
  <2>2. R \in SUBSET U
    BY DEF Unrecorded, PlanInv, InHand
  <2> QED
    BY <2>1, <2>2
<1>3. V \ R = S \ U
  BY <1>2
<1>4. \A i \in S : paid[i] = IF i \in V THEN 1 ELSE 0
  <2> SUFFICES ASSUME NEW i \in S PROVE paid[i] = IF i \in V THEN 1 ELSE 0
    OBVIOUS
  <2>1. i \in U <=> plan.splits[i].executed_at = 0
    BY DEF Unexecuted
  <2>2. i \in R <=> UnderWay(i)
    BY DEF Unrecorded, UnderWay
  <2>3. paid[i] = IF plan.splits[i].executed_at # 0 \/ UnderWay(i) THEN 1 ELSE 0
    BY <1>1 DEF PlanInv, Books
  <2>4. i \in V <=> (i \notin U \/ i \in R)
    OBVIOUS
  <2> QED
    BY <2>1, <2>2, <2>3, <2>4
<1>5. Transferred = SumFunctionOnSet(taken, S)
  <2>1. Transferred = SumFunction(taken)
    BY <1>1 DEF Transferred, Amounts
  <2>2. DOMAIN taken = S
    OBVIOUS
  <2> QED
    BY <2>1, <2>2 DEF SumFunction
<1>6. SumFunction(a) = Sum(S)
  BY <1>1 DEF SumFunction
<1>7. \A i \in S : taken[i] = IF i \in V THEN a[i] ELSE 0
  <2> SUFFICES ASSUME NEW i \in S PROVE taken[i] = IF i \in V THEN a[i] ELSE 0
    OBVIOUS
  <2>1. taken[i] = paid[i] * a[i] /\ a[i] \in Nat
    BY <1>1
  <2>2. paid[i] = IF i \in V THEN 1 ELSE 0
    BY <1>4
  <2> HIDE DEF taken, a, V
  <2> QED
    BY <2>1, <2>2
<1> HIDE DEF S, a, U, R, V, taken
<1>8. IsFiniteSet(V) /\ IsFiniteSet(S \ V)
  BY <1>1, <1>2, FS_Subset
<1>9. SumFunctionOnSet(taken, S) = Sum(V)
  <2>1. \A i \in S : taken[i] \in Int
    BY <1>1, <1>7
  <2>2. SumFunctionOnSet(taken, S) = SumFunctionOnSet(taken, V) + SumFunctionOnSet(taken, S \ V)
    <3>1. IsFiniteSet(S) /\ V \in SUBSET S
      BY <1>1, <1>2
    <3> QED
      BY <2>1, <3>1, SumSplit
  <2>3. SumFunctionOnSet(taken, S \ V) = 0
    <3>1. \A i \in S \ V : taken[i] = 0
      BY <1>7
    <3> QED
      BY <1>8, <3>1, SumZero
  <2>4. SumFunctionOnSet(taken, V) = Sum(V)
    <3>1. \A i \in V : taken[i] = a[i]
      BY <1>2, <1>7
    <3> QED
      BY <1>8, <3>1, SumSame
  <2>5. Sum(V) \in Int
    <3>1. \A i \in V : a[i] \in Int
      BY <1>1, <1>2
    <3> QED
      BY <1>8, <3>1, SumInt
  <2> QED
    BY <2>2, <2>3, <2>4, <2>5
<1>10. \A T \in SUBSET S : IsFiniteSet(T) /\ Sum(T) \in Int
  <2> SUFFICES ASSUME NEW T \in SUBSET S PROVE IsFiniteSet(T) /\ Sum(T) \in Int
    OBVIOUS
  <2>1. IsFiniteSet(T)
    BY <1>1, FS_Subset
  <2>2. \A i \in T : a[i] \in Int
    BY <1>1
  <2> QED
    BY <2>1, <2>2, SumInt
<1>11. Sum(S) = Sum(U) + Sum(S \ U)
  <2>1. IsFiniteSet(S) /\ U \in SUBSET S /\ \A i \in S : a[i] \in Int
    BY <1>1, <1>2
  <2> QED
    BY <2>1, SumSplit
<1>12. Sum(V) = Sum(R) + Sum(S \ U)
  <2>1. \A i \in V : a[i] \in Int
    BY <1>1, <1>2
  <2> QED
    BY <1>2, <1>3, <1>8, <2>1, SumSplit
<1>13. Sum(U) = Sum(S) - Sum(V) + Sum(R)
  <2>1. Sum(U) \in Int /\ Sum(S) \in Int /\ Sum(V) \in Int /\ Sum(R) \in Int
        /\ Sum(S \ U) \in Int
    BY <1>2, <1>10
  <2> HIDE DEF Sum
  <2> QED
    BY <1>11, <1>12, <2>1
<1>14. Transferred = Sum(V)
  BY <1>5, <1>9
<1> QED
  BY <1>6, <1>13, <1>14 DEF a, U, R

\* With one executor, what a user is told is pending of an open plan is what the transfers have
\* left of it, and behind by just the transfers that are not yet recorded (query_balance.rs,
\* mark_split_executed of execute_split.rs).
THEOREM PendingIsBehindByUnrecorded ==
    ASSUME OneExecutor
    PROVE  Spec => []PendingIsWhatIsNotPaid
<1>1. PlanInv /\ [Next]_vars => PlanInv'
  BY StepKeepsBooks
<1>2. ASSUME PlanInv, AsDrawn PROVE PendingIsWhatIsNotPaid
  BY <1>2, TransferredIsPaid DEF PendingIsWhatIsNotPaid, PendingAmount
<1>3. PlanInv /\ AsDrawn => PendingIsWhatIsNotPaid
  BY <1>2
<1> QED
  BY <1>1, <1>3, InitBooks, AsDrawnStarts, StepAsDrawn, PTL DEF Spec

-----------------------------------------------------------------------------
(***************************************************************************)
(* The count of executed splits, and the status                            *)
(***************************************************************************)
LEMMA UnexecutedIsFinite ==
    ASSUME PlanInv, plan # NoPlan
    PROVE  /\ Unexecuted \subseteq 1..plan.split_count
           /\ IsFiniteSet(Unexecuted)
           /\ plan.split_count \in Nat
<1>1. plan.split_count \in Nat /\ Unexecuted \subseteq 1..plan.split_count
  BY ConfigAssumption DEF PlanInv, Shape, Unexecuted
<1>2. IsFiniteSet(1..plan.split_count)
  BY <1>1, FS_Interval
<1>3. QED
  BY <1>1, <1>2, FS_Subset

\* No split of a new plan is counted, and it has at least one.
LEMMA GenerateCounts == PlanInv /\ Generate => CompletedWhenAllExecuted'
<1> SUFFICES ASSUME PlanInv, Generate
             PROVE  CompletedWhenAllExecuted'
  OBVIOUS
<1>1. PICK total, count, amounts, times :
        /\ count \in MinSplits..MaxSplits
        /\ plan' = GenerateWithdrawalPlan(total, count, amounts, times)
  BY DEF Generate
<1>2. count \in Nat \ {0}
  BY <1>1, ConfigAssumption
<1>3. /\ plan'.status = "Pending" /\ plan'.split_count = count /\ plan'.executed_count = 0
      /\ DOMAIN plan'.splits = 1..count
      /\ \A i \in 1..count : plan'.splits[i].executed_at = 0
  BY <1>1 DEF GenerateWithdrawalPlan
<1>4. Unexecuted' = 1..count
  BY <1>3 DEF Unexecuted
<1>5. Cardinality(1..count) = count
  BY <1>2, FS_Interval
<1>6. 1..count # {}
  BY <1>2
<1>7. QED
  BY <1>2, <1>3, <1>4, <1>5, <1>6 DEF CompletedWhenAllExecuted

\* mark_split_executed counts a split that was not counted before.
LEMMA MarkCounts ==
    ASSUME PlanInv, CompletedWhenAllExecuted, NEW w \in Workers, MarkSplitExecuted(w)
    PROVE  CompletedWhenAllExecuted'
<1> DEFINE k  == job[w].split
           at == job[w].executed_at
           n  == Cardinality(Unexecuted)
<1>1. /\ plan # NoPlan /\ k \in Unexecuted /\ k \in DOMAIN plan.splits
      /\ at \in Nat \ {0} /\ plan' = Recorded(k, at)
  BY DEF MarkSplitExecuted, PlanInv, InHand, Unexecuted, Shape, Jobs
<1>2. /\ Unexecuted \subseteq 1..plan.split_count /\ IsFiniteSet(Unexecuted)
      /\ plan.split_count \in Nat
  BY <1>1, UnexecutedIsFinite
<1>3. /\ n \in Nat /\ n - 1 \in Nat
      /\ Cardinality(Unexecuted \ {k}) = n - 1 /\ IsFiniteSet(Unexecuted \ {k})
  <2>1. n \in Nat /\ Cardinality(Unexecuted \ {k}) = n - 1 /\ IsFiniteSet(Unexecuted \ {k})
    BY <1>1, <1>2, FS_RemoveElement, FS_CardinalityType
  <2>2. Cardinality(Unexecuted \ {k}) \in Nat
    BY <2>1, FS_CardinalityType
  <2>3. QED
    BY <2>1, <2>2
<1>4. /\ plan'.executed_count = plan.executed_count + 1
      /\ plan'.split_count = plan.split_count
      /\ plan'.splits = [plan.splits EXCEPT ![k] = [plan.splits[k] EXCEPT !.executed_at = at]]
      /\ plan'.status = IF plan'.executed_count >= plan.split_count THEN "Completed"
                                                                    ELSE "InProgress"
  BY <1>1 DEF Recorded, PlanInv, Shape
<1>5. /\ DOMAIN plan'.splits = DOMAIN plan.splits
      /\ \A i \in DOMAIN plan.splits :
            plan'.splits[i].executed_at = IF i = k THEN at ELSE plan.splits[i].executed_at
  BY <1>1, <1>4 DEF PlanInv, Shape
<1>6. Unexecuted' = Unexecuted \ {k}
  BY <1>1, <1>5 DEF Unexecuted
<1>7. plan.executed_count = plan.split_count - n
  BY <1>1 DEF CompletedWhenAllExecuted
<1>8. Cardinality(Unexecuted') = 0 <=> Unexecuted' = {}
  BY <1>3, <1>6, FS_EmptySet
<1>9. Cardinality(Unexecuted') = n - 1
  BY <1>3, <1>6
<1> HIDE DEF n
<1>10. plan'.executed_count = plan'.split_count - Cardinality(Unexecuted')
  BY <1>2, <1>3, <1>4, <1>7, <1>9
<1>11. plan'.status = "Completed" <=> Unexecuted' = {}
  BY <1>2, <1>3, <1>4, <1>7, <1>8, <1>9
<1>12. QED
  BY <1>10, <1>11 DEF CompletedWhenAllExecuted

\* A cancellation leaves the count alone.
LEMMA CancelCounts ==
    ASSUME PlanInv, CompletedWhenAllExecuted, CancelWithdrawalPlan
    PROVE  CompletedWhenAllExecuted'
<1>1. /\ plan # NoPlan /\ plan'.status = "Cancelled"
      /\ plan'.split_count = plan.split_count
      /\ plan'.executed_count = plan.executed_count
      /\ plan'.splits = plan.splits
  BY DEF CancelWithdrawalPlan, PlanInv, Shape
<1>2. Unexecuted' = Unexecuted
  BY <1>1 DEF Unexecuted
<1>3. QED
  BY <1>1, <1>2 DEF CompletedWhenAllExecuted

\* Every step keeps the count of executed splits.
LEMMA StepCounts ==
    ASSUME PlanInv, CompletedWhenAllExecuted, [Next]_vars
    PROVE  CompletedWhenAllExecuted'
<1>1. CASE Generate
  BY <1>1, GenerateCounts
<1>2. CASE CancelWithdrawalPlan
  BY <1>2, CancelCounts
<1>3. CASE \E w \in Workers : MarkSplitExecuted(w)
  BY <1>3, MarkCounts
<1>4. CASE UNCHANGED plan
  BY <1>4 DEF CompletedWhenAllExecuted, Unexecuted
<1>5. QED
  BY <1>1, <1>2, <1>3, <1>4
     DEF Next, Worker, ExecuteWithdrawalSplit, Broadcast, GiveUp, Tick, vars

\* With one executor executed_count counts the executed splits, and a plan is Completed just when
\* none is left, unless it is cancelled (mark_split_executed).
THEOREM CompletedMeansAll ==
    ASSUME OneExecutor
    PROVE  Spec => []CompletedWhenAllExecuted
<1>1. Init => PlanInv /\ CompletedWhenAllExecuted
  BY InitBooks DEF Init, CompletedWhenAllExecuted
<1>2. PlanInv /\ CompletedWhenAllExecuted /\ [Next]_vars => (PlanInv /\ CompletedWhenAllExecuted)'
  BY StepKeepsBooks, StepCounts
<1>3. QED
  BY <1>1, <1>2, PTL DEF Spec

\* The clock stays below its bound, and a plan expires at some time.
Timed == now \in 1..MaxTime /\ (plan # NoPlan => plan.expires_at \in Nat)

\* No step but Generate sets when a plan expires.
LEMMA StepTimed == PlanInv /\ Timed /\ [Next]_vars => Timed'
<1> SUFFICES ASSUME PlanInv, Timed, [Next]_vars
             PROVE  Timed'
  OBVIOUS
<1>1. CASE Generate
  <2>1. now' = now /\ plan'.expires_at = now + Lifetime
    BY <1>1 DEF Generate, GenerateWithdrawalPlan
  <2>2. now \in 1..MaxTime /\ Lifetime \in Nat /\ MaxTime \in Nat
    BY BoundsAssumption DEF Timed
  <2> QED
    BY <2>1, <2>2 DEF Timed
<1>2. CASE CancelWithdrawalPlan
  <2>1. now' = now /\ plan # NoPlan /\ plan'.expires_at = plan.expires_at
    BY <1>2 DEF CancelWithdrawalPlan, PlanInv, Shape
  <2> QED
    BY <2>1 DEF Timed
<1>3. CASE Tick
  <2>1. now \in 1..MaxTime /\ MaxTime \in Nat /\ now < MaxTime /\ now' = now + 1 /\ plan' = plan
    BY <1>3, BoundsAssumption DEF Timed, Tick
  <2> QED
    BY <2>1 DEF Timed
<1>4. ASSUME NEW w \in Workers, MarkSplitExecuted(w)
      PROVE  Timed'
  <2>1. plan # NoPlan
    BY <1>4 DEF MarkSplitExecuted, PlanInv, InHand
  <2>2. now' = now /\ plan'.expires_at = plan.expires_at
    BY <1>4, <2>1 DEF MarkSplitExecuted, Recorded, PlanInv, Shape
  <2> QED
    BY <2>1, <2>2 DEF Timed
<1>5. CASE UNCHANGED <<plan, now>>
  BY <1>5 DEF Timed
<1> QED
  BY <1>1, <1>2, <1>3, <1>4, <1>5
     DEF Next, Worker, ExecuteWithdrawalSplit, Broadcast, GiveUp, vars

\* What the invariants say of each variable makes its type.
LEMMA TypeHolds ==
    ASSUME PlanInv, AsDrawn, CompletedWhenAllExecuted, Timed
    PROVE  TypeOK
<1>1. /\ job \in [Workers -> Jobs \cup {Idle}]
      /\ paid \in [Indices -> Nat]
      /\ now \in 1..MaxTime
  BY DEF PlanInv, Shape, Timed
<1>2. ASSUME plan # NoPlan
      PROVE  \E count \in MinSplits..MaxSplits : plan \in Plans(count)
  <2> DEFINE count == plan.split_count
  <2>1. /\ plan.status \in Statuses /\ plan.total_amount \in Totals
        /\ count \in MinSplits..MaxSplits /\ plan.expires_at \in Nat
    BY <1>2 DEF PlanInv, Shape, AsDrawn, Timed
  <2>2. plan.executed_count \in 0..count
    <3>1. Unexecuted \subseteq 1..count /\ IsFiniteSet(Unexecuted) /\ count \in Nat
      BY <1>2, UnexecutedIsFinite
    <3>2. Cardinality(Unexecuted) \in 0..count
      <4> HIDE DEF count
      <4>1. IsFiniteSet(1..count)
        BY <3>1, FS_Interval
      <4>2. Cardinality(1..count) = count
        BY <3>1, FS_Interval
      <4>3. Cardinality(Unexecuted) <= Cardinality(1..count)
        BY <3>1, <4>1, FS_Subset
      <4>4. Cardinality(Unexecuted) \in Nat
        BY <3>1, FS_CardinalityType
      <4> QED
        BY <3>1, <4>2, <4>3, <4>4
    <3>3. plan.executed_count = count - Cardinality(Unexecuted)
      BY <1>2 DEF CompletedWhenAllExecuted
    <3> QED
      BY <3>1, <3>2, <3>3
  <2>3. plan.splits \in [1..count -> Splits]
    <3>1. plan.splits = [i \in 1..count |-> plan.splits[i]]
      BY <1>2 DEF AsDrawn
    <3>2. ASSUME NEW i \in 1..count PROVE plan.splits[i] \in Splits
      <4>1. plan.splits[i].amount \in Nat
        <5>1. Amounts[i] \in Nat /\ Amounts[i] = plan.splits[i].amount
          BY <1>2, AmountsOfPlan DEF Amounts
        <5> QED
          BY <5>1
      <4>2. /\ plan.splits[i] = [amount |-> plan.splits[i].amount,
                                 scheduled_at |-> plan.splits[i].scheduled_at,
                                 executed_at |-> plan.splits[i].executed_at]
            /\ plan.splits[i].scheduled_at \in Nat /\ plan.splits[i].executed_at \in Nat
        BY <1>2 DEF PlanInv, Shape
      <4> QED
        BY <4>1, <4>2, Zenon DEF Splits
    <3> QED
      BY <3>1, <3>2
  <2>4. plan = [status |-> plan.status, total_amount |-> plan.total_amount,
                split_count |-> plan.split_count, splits |-> plan.splits,
                expires_at |-> plan.expires_at, executed_count |-> plan.executed_count]
    BY <1>2 DEF AsDrawn
  <2>5. plan.total_amount \in Totals /\ count \in {count}
    BY <2>1
  <2>6. plan \in Plans(count)
    BY <2>1, <2>2, <2>3, <2>4, <2>5, Zenon DEF Plans
  <2> QED
    BY <2>1, <2>6
<1> QED
  BY <1>1, <1>2 DEF TypeOK

\* Every variable keeps its type; that executed_count never passes split_count needs the one
\* executor, since mark_split_executed counts whatever it is told of.
THEOREM WithdrawalPlanTypeCorrect ==
    ASSUME OneExecutor
    PROVE  Spec => []TypeOK
<1> DEFINE Inv == PlanInv /\ AsDrawn /\ CompletedWhenAllExecuted /\ Timed
<1>1. Init => Inv
  BY InitBooks, AsDrawnStarts, BoundsAssumption DEF Init, CompletedWhenAllExecuted, Timed
<1>2. Inv /\ [Next]_vars => Inv'
  BY StepKeepsBooks, StepAsDrawn, StepCounts, StepTimed
<1>3. Inv => TypeOK
  BY TypeHolds
<1> QED
  BY <1>1, <1>2, <1>3, PTL DEF Spec

\* A completed plan is never changed again: there is no split left to approve or to record, and
\* cancel_withdrawal_plan leaves it alone.
THEOREM CompletedStays ==
    ASSUME OneExecutor
    PROVE  Spec => CompletedIsFinal
<1>1. Init => PlanInv /\ CompletedWhenAllExecuted
  BY InitBooks DEF Init, CompletedWhenAllExecuted
<1>2. PlanInv /\ CompletedWhenAllExecuted /\ [Next]_vars => (PlanInv /\ CompletedWhenAllExecuted)'
  BY StepKeepsBooks, StepCounts
<1>3. PlanInv /\ CompletedWhenAllExecuted /\ [Next]_vars
          => [plan # NoPlan /\ plan.status = "Completed" => UNCHANGED plan]_vars
  <2> SUFFICES ASSUME PlanInv, CompletedWhenAllExecuted, Next,
                      plan # NoPlan, plan.status = "Completed"
               PROVE  UNCHANGED plan
    OBVIOUS
  <2>1. Unexecuted = {}
    BY DEF CompletedWhenAllExecuted
  <2>2. \A w \in Workers : job[w] = Idle
    BY <2>1 DEF PlanInv, InHand
  <2>3. QED
    BY <2>2 DEF Next, Worker, Generate, CancelWithdrawalPlan, ExecuteWithdrawalSplit, Broadcast,
                GiveUp, MarkSplitExecuted, Tick
<1>4. QED
  BY <1>1, <1>2, <1>3, PTL DEF Spec, CompletedIsFinal

-----------------------------------------------------------------------------
(***************************************************************************)
(* The split to execute next                                               *)
(***************************************************************************)

\* A nonempty set of natural numbers has a least one.
LEMMA LeastIsIn ==
    ASSUME NEW S, S \subseteq Nat, S # {}
    PROVE  Min(S) \in S
<1>1. PICK R : IsWellFoundedOn(R, Nat) /\ \A x, y \in Nat : y < x => <<y, x>> \in R
  <2>1. \A x, y \in Nat : y < x => <<y, x>> \in OpToRel(<, Nat)
    BY Zenon DEF OpToRel
  <2>2. QED
    BY <2>1, NatLessThanWellFounded, Zenon
<1>2. PICK x \in S : \A y \in S : <<y, x>> \notin R
  BY <1>1, WFMin, Zenon
<1>3. \A y \in S : ~ (y < x)
  BY <1>1, <1>2, Zenon
<1>4. \A y \in S : x <= y
  BY <1>3, SMT
<1>5. QED
  BY <1>4 DEF Min

\* A split that is due and not executed fails no check but expiry and balance.
LEMMA DueIsApproved ==
    ASSUME PlanInv, plan # NoPlan, NEW i \in Unexecuted, plan.splits[i].scheduled_at <= now,
           NEW vault_balance \in Balances
    PROVE  ErrorCode(i, vault_balance) \in {0, 3, 5}
<1> DEFINE failed == {code \in 2..5 : Fails(plan.splits[i], code, vault_balance)}
<1>1. i \in DOMAIN plan.splits /\ plan.splits[i].executed_at = 0
  BY DEF Unexecuted
<1>2. plan.splits[i].scheduled_at \in Nat /\ now \in Nat
  BY <1>1 DEF PlanInv, Shape
<1>3. ~Fails(plan.splits[i], 2, vault_balance)
  BY <1>1 DEF Fails
<1>4. ~Fails(plan.splits[i], 4, vault_balance)
  BY <1>2, BoundsAssumption DEF Fails
<1>5. failed \subseteq {3, 5}
  BY <1>3, <1>4
<1>6. ErrorCode(i, vault_balance) = IF failed = {} THEN 0 ELSE Min(failed)
  BY <1>1 DEF ErrorCode
<1> HIDE DEF failed
<1>7. failed # {} => Min(failed) \in failed
  <2>1. failed \subseteq Nat
    BY <1>5
  <2>2. QED
    BY <2>1, LeastIsIn
<1>8. QED
  BY <1>5, <1>6, <1>7

\* What get_next_split picks passes every check of execute_withdrawal_split but those of expiry
\* and balance, for any schedule and however many splits are executed out of order.
THEOREM NextSplitPasses ==
    ASSUME OneExecutor
    PROVE  Spec => []NextSplitIsApproved
<1>1. PlanInv => NextSplitIsApproved
  <2> SUFFICES ASSUME PlanInv, plan # NoPlan, GetNextSplit.found, NEW vault_balance \in Balances
               PROVE  ErrorCode(GetNextSplit.next_index, vault_balance) \in {0, 3, 5}
    BY DEF NextSplitIsApproved
  <2> DEFINE due == {i \in Unexecuted : plan.splits[i].scheduled_at <= now}
  <2>1. due # {} /\ GetNextSplit.next_index = Min(due)
    BY DEF GetNextSplit
  <2>2. due \subseteq Nat
    BY UnexecutedIsFinite
  <2> HIDE DEF due
  <2>3. Min(due) \in due
    BY <2>1, <2>2, LeastIsIn
  <2>4. QED
    BY <2>1, <2>3, DueIsApproved DEF due
<1>2. Init => PlanInv
  BY InitBooks
<1>3. PlanInv /\ [Next]_vars => PlanInv'
  BY StepKeepsBooks
<1>4. QED
  BY <1>1, <1>2, <1>3, PTL DEF Spec

-----------------------------------------------------------------------------
(***************************************************************************)
(* The operators                                                           *)
(***************************************************************************)

\* A checked value is the old one or one of those allowed.
LEMMA CheckedIsOldOrAllowed ==
    ASSUME NEW option, NEW allowed, NEW old
    PROVE  Checked(option, allowed, old) = old \/ Checked(option, allowed, old) \in allowed
  BY Zenon DEF Checked

\* A configuration with one field replaced by a value of its type is a configuration.
LEMMA FieldsKeepType ==
    ASSUME NEW c \in Configs
    PROVE  /\ \A v \in Destinations : [c EXCEPT !.destinations = v] \in Configs
           /\ \A v \in Nat : [c EXCEPT !.destination_count = v] \in Configs
           /\ \A v \in Thresholds : [c EXCEPT !.threshold = v] \in Configs
           /\ \A v \in Nat : [c EXCEPT !.min_splits = v] \in Configs
           /\ \A v \in Nat : [c EXCEPT !.max_splits = v] \in Configs
           /\ \A v \in Nat : [c EXCEPT !.min_delay = v] \in Configs
           /\ \A v \in Nat : [c EXCEPT !.max_delay = v] \in Configs
           /\ \A v \in 0..(VersionModulus - 1) : [c EXCEPT !.version = v] \in Configs
<1>1. \A v \in Destinations : [c EXCEPT !.destinations = v] \in Configs
  BY Zenon DEF Configs
<1>2. \A v \in Nat : [c EXCEPT !.destination_count = v] \in Configs
  BY Zenon DEF Configs
<1>3. \A v \in Thresholds : [c EXCEPT !.threshold = v] \in Configs
  BY Zenon DEF Configs
<1>4. \A v \in Nat : [c EXCEPT !.min_splits = v] \in Configs
  BY Zenon DEF Configs
<1>5. \A v \in Nat : [c EXCEPT !.max_splits = v] \in Configs
  BY Zenon DEF Configs
<1>6. \A v \in Nat : [c EXCEPT !.min_delay = v] \in Configs
  BY Zenon DEF Configs
<1>7. \A v \in Nat : [c EXCEPT !.max_delay = v] \in Configs
  BY Zenon DEF Configs
<1>8. \A v \in 0..(VersionModulus - 1) : [c EXCEPT !.version = v] \in Configs
  BY Zenon DEF Configs
<1> QED
  BY <1>1, <1>2, <1>3, <1>4, <1>5, <1>6, <1>7, <1>8

\* An update of destinations keeps the types, and counts one to MAX_DESTINATIONS if it was so.
LEMMA WithDestinationsType ==
    ASSUME NEW c \in Configs, NEW u
    PROVE  /\ WithDestinations(c, u) \in Configs
           /\ WithDestinations(c, u).version = c.version
           /\ Valid(c) => Valid(WithDestinations(c, u))
<1> DEFINE destinations == Checked(u.destinations, Destinations, c.destinations)
           count == Checked(u.count, Slots, c.destination_count)
           threshold == Checked(u.threshold, Thresholds, c.threshold)
<1>1. WithDestinations(c, u) =
          [c EXCEPT !.destinations = destinations, !.destination_count = count,
                    !.threshold = threshold]
  BY DEF WithDestinations
<1>2. destinations \in Destinations
  BY CheckedIsOldOrAllowed, SMT DEF Configs
<1>3. threshold \in Thresholds
  BY CheckedIsOldOrAllowed, SMT DEF Configs
<1>4. count \in Nat /\ (count = c.destination_count \/ count \in Slots)
  BY CheckedIsOldOrAllowed, LimitsAssumption, SMT DEF Configs, Slots
<1> HIDE DEF destinations, count, threshold
<1>5. WithDestinations(c, u) \in Configs
  <2> DEFINE c1 == [c EXCEPT !.destinations = destinations]
             c2 == [c1 EXCEPT !.destination_count = count]
  <2>1. c1 \in Configs
    BY <1>2, FieldsKeepType
  <2>2. WithDestinations(c, u) = [c2 EXCEPT !.threshold = threshold]
    BY <1>1
  <2> HIDE DEF c1
  <2>3. c2 \in Configs
    BY <1>4, <2>1, FieldsKeepType
  <2> HIDE DEF c2
  <2> QED
    BY <1>3, <2>2, <2>3, FieldsKeepType
<1>6. ASSUME Valid(c) PROVE Valid(WithDestinations(c, u))
  BY <1>1, <1>4, <1>6, LimitsAssumption, SMT DEF Configs, Valid, Slots
<1>7. WithDestinations(c, u).version = c.version
  BY <1>1, SMT DEF Configs
<1> QED
  BY <1>5, <1>6, <1>7

\* An update of the splits keeps the types and the order of minimum, maximum and limit.
LEMMA WithSplitsType ==
    ASSUME NEW c \in Configs, NEW u
    PROVE  /\ WithSplits(c, u) \in Configs
           /\ WithSplits(c, u).version = c.version
           /\ Valid(c) => Valid(WithSplits(c, u))
<1> DEFINE min == Checked(u.min_splits, 1..c.max_splits, c.min_splits)
           max == Checked(u.max_splits, min..MAX_SPLITS, c.max_splits)
<1>1. WithSplits(c, u) = [c EXCEPT !.min_splits = min, !.max_splits = max]
  BY DEF WithSplits
<1>2. min = c.min_splits \/ min \in 1..c.max_splits
  BY CheckedIsOldOrAllowed
<1>3. max = c.max_splits \/ max \in min..MAX_SPLITS
  BY CheckedIsOldOrAllowed
<1> HIDE DEF min, max
<1>4. min \in Nat /\ max \in Nat
  BY <1>2, <1>3, LimitsAssumption, SMT DEF Configs
<1>5. WithSplits(c, u) \in Configs
  <2> DEFINE c1 == [c EXCEPT !.min_splits = min]
  <2>1. c1 \in Configs
    BY <1>4, FieldsKeepType
  <2>2. WithSplits(c, u) = [c1 EXCEPT !.max_splits = max]
    BY <1>1
  <2> HIDE DEF c1
  <2> QED
    BY <1>4, <2>1, <2>2, FieldsKeepType
<1>6. ASSUME Valid(c) PROVE Valid(WithSplits(c, u))
  BY <1>1, <1>2, <1>3, <1>4, <1>6, LimitsAssumption, SMT DEF Configs, Valid
<1>7. WithSplits(c, u).version = c.version
  BY <1>1, SMT DEF Configs
<1> QED
  BY <1>5, <1>6, <1>7

\* An update of the delays keeps the types and the order of floor, minimum, maximum and ceiling.
LEMMA WithDelaysType ==
    ASSUME NEW c \in Configs, NEW u
    PROVE  /\ WithDelays(c, u) \in Configs
           /\ WithDelays(c, u).version = c.version
           /\ Valid(c) => Valid(WithDelays(c, u))
<1> DEFINE min == Checked(u.min_delay, MIN_DELAY_FLOOR..c.max_delay, c.min_delay)
           max == Checked(u.max_delay, min..MAX_DELAY_CEILING, c.max_delay)
<1>1. WithDelays(c, u) = [c EXCEPT !.min_delay = min, !.max_delay = max]
  BY DEF WithDelays
<1>2. min = c.min_delay \/ min \in MIN_DELAY_FLOOR..c.max_delay
  BY CheckedIsOldOrAllowed
<1>3. max = c.max_delay \/ max \in min..MAX_DELAY_CEILING
  BY CheckedIsOldOrAllowed
<1> HIDE DEF min, max
<1>4. min \in Nat /\ max \in Nat
  BY <1>2, <1>3, LimitsAssumption, SMT DEF Configs
<1>5. WithDelays(c, u) \in Configs
  <2> DEFINE c1 == [c EXCEPT !.min_delay = min]
  <2>1. c1 \in Configs
    BY <1>4, FieldsKeepType
  <2>2. WithDelays(c, u) = [c1 EXCEPT !.max_delay = max]
    BY <1>1
  <2> HIDE DEF c1
  <2> QED
    BY <1>4, <2>1, <2>2, FieldsKeepType
<1>6. ASSUME Valid(c) PROVE Valid(WithDelays(c, u))
  BY <1>1, <1>2, <1>3, <1>4, <1>6, LimitsAssumption, SMT DEF Configs, Valid
<1>7. WithDelays(c, u).version = c.version
  BY <1>1, SMT DEF Configs
<1> QED
  BY <1>5, <1>6, <1>7

\* The next version is another one, and nothing else changes.
LEMMA NextVersionType ==
    ASSUME NEW c \in Configs
    PROVE  /\ NextVersion(c) \in Configs
           /\ NextVersion(c).version # c.version
           /\ Valid(c) => Valid(NextVersion(c))
<1>1. c.version \in 0..(VersionModulus - 1)
  BY DEF Configs
<1>2. (c.version + 1) % VersionModulus \in 0..(VersionModulus - 1)
  BY <1>1, ModulusAssumption, SMT
<1>3. (c.version + 1) % VersionModulus # c.version
  <2>1. CASE c.version + 1 < VersionModulus
    BY <1>1, <2>1, ModulusAssumption, SMT
  <2>2. CASE c.version + 1 = VersionModulus
    BY <1>1, <2>2, ModulusAssumption, SMT
  <2> QED
    BY <1>1, <2>1, <2>2, ModulusAssumption, SMT
<1>4. NextVersion(c) \in Configs
  BY <1>2, SMT DEF Configs, NextVersion
<1>5. NextVersion(c).version # c.version
  BY <1>3, SMT DEF Configs, NextVersion
<1>6. ASSUME Valid(c) PROVE Valid(NextVersion(c))
  BY <1>6, SMT DEF Configs, NextVersion, Valid
<1> QED
  BY <1>4, <1>5, <1>6

\* Shifting keeps the list a list of destinations.
LEMMA ShiftedType ==
    ASSUME NEW d \in Destinations, NEW index \in Slots
    PROVE  Shifted(d, index) \in Destinations
  BY LimitsAssumption, SMT DEF Shifted, Destinations, Slots

-----------------------------------------------------------------------------
(***************************************************************************)
(* What a circuit does to the configuration                                *)
(***************************************************************************)

\* The configuration stays, or is given back well typed, valid and with a new version.
Step ==
    \/ config' = config /\ result' \in [success : BOOLEAN, error_code : 0..5]
    \/ /\ result' = [success |-> TRUE, error_code |-> 0]
       /\ \E c \in Configs : Valid(c) /\ c.version = config.version /\ config' = NextVersion(c)

\* A call that fails changes nothing.
LEMMA FailsIsStep == ASSUME NEW code \in 1..5, ReturnsError(code) PROVE Step
  BY SMT DEF Step, ReturnsError

\* update_private_config makes the next version of a checked configuration, if anything.
LEMMA UpdateIsStep ==
    ASSUME ConfigTypeOK, StaysValid, NEW owner \in Owners, NEW u \in Updates,
           UpdatePrivateConfig(owner, u)
    PROVE  Step
<1>1. CASE owner # config.owner_pubkey
  BY <1>1, FailsIsStep, SMT DEF UpdatePrivateConfig
<1>2. CASE owner = config.owner_pubkey
  <2> DEFINE a == WithDestinations(config, u)
             b == WithSplits(a, u)
             c == WithDelays(b, u)
  <2>1. config \in Configs /\ Valid(config)
    BY DEF ConfigTypeOK, StaysValid
  <2>2. a \in Configs /\ Valid(a) /\ a.version = config.version
    BY <2>1, WithDestinationsType
  <2> HIDE DEF a
  <2>3. b \in Configs /\ Valid(b) /\ b.version = a.version
    BY <2>2, WithSplitsType
  <2> HIDE DEF b
  <2>4. c \in Configs /\ Valid(c) /\ c.version = b.version
    BY <2>3, WithDelaysType
  <2>5. config' = NextVersion(c) /\ Succeeds
    BY <1>2 DEF UpdatePrivateConfig, a, b
  <2> HIDE DEF c
  <2> QED
    BY <2>2, <2>3, <2>4, <2>5, Zenon DEF Step, Succeeds
<1> QED
  BY <1>1, <1>2

\* So does add_destination,
LEMMA AddIsStep ==
    ASSUME ConfigTypeOK, StaysValid, NEW owner \in Owners, NEW address \in Addresses,
           AddDestination(owner, address)
    PROVE  Step
<1>1. CASE \E code \in {1, 2} : ReturnsError(code)
  BY <1>1, FailsIsStep, SMT
<1>2. CASE ~ \E code \in {1, 2} : ReturnsError(code)
  <2> DEFINE c == [config EXCEPT !.destinations[config.destination_count + 1] = address,
                                 !.destination_count = @ + 1]
  <2>1. config \in Configs /\ Valid(config)
    BY DEF ConfigTypeOK, StaysValid
  <2>2. /\ config.destination_count < MAX_DESTINATIONS
        /\ config' = NextVersion(c) /\ Succeeds
    BY <1>2, <2>1, LimitsAssumption, SMT DEF AddDestination, Configs
  <2>3. c \in Configs /\ c.version = config.version
    <3> DEFINE filled == [config.destinations EXCEPT ![config.destination_count + 1] = address]
               c1 == [config EXCEPT !.destinations = filled]
    <3>0. config.destinations \in Destinations /\ config.destination_count \in Nat
      BY <2>1, SMT DEF Configs
    <3>1. filled \in Destinations /\ config.destination_count + 1 \in Nat
      <4>1. \A n : \A d \in Destinations : [d EXCEPT ![n] = address] \in Destinations
        BY Zenon DEF Destinations
      <4>2. filled \in Destinations
        BY <3>0, <4>1, Zenon
      <4>3. \A n \in Nat : n + 1 \in Nat
        BY SMT
      <4> QED
        BY <3>0, <4>2, <4>3, Zenon
    <3>2. c = [c1 EXCEPT !.destination_count = config.destination_count + 1]
      BY <2>1, SMT DEF Configs
    <3> HIDE DEF filled, c
    <3>3. c1 \in Configs /\ c1.version = config.version
      BY <2>1, <3>1, FieldsKeepType, SMT DEF Configs
    <3> HIDE DEF c1
    <3>4. [c1 EXCEPT !.destination_count = config.destination_count + 1].version = c1.version
      BY <3>3, SMT DEF Configs
    <3> QED
      BY <3>1, <3>2, <3>3, <3>4, FieldsKeepType
  <2>4. Valid(c)
    BY <2>1, <2>2, LimitsAssumption, SMT DEF Configs, Valid
  <2> HIDE DEF c
  <2> QED
    BY <2>2, <2>3, <2>4, Zenon DEF Step, Succeeds
<1> QED
  BY <1>1, <1>2

\* remove_destination,
LEMMA RemoveIsStep ==
    ASSUME ConfigTypeOK, StaysValid, NEW owner \in Owners, NEW index \in Slots,
           RemoveDestination(owner, index)
    PROVE  Step
<1>1. CASE \E code \in {1, 3, 4} : ReturnsError(code)
  BY <1>1, FailsIsStep, SMT
<1>2. CASE ~ \E code \in {1, 3, 4} : ReturnsError(code)
  <2> DEFINE shifted == Shifted(config.destinations, index)
             c == [config EXCEPT !.destinations = shifted, !.destination_count = @ - 1]
  <2>1. config \in Configs /\ Valid(config)
    BY DEF ConfigTypeOK, StaysValid
  <2>2. /\ config.destination_count > 1
        /\ config' = NextVersion(c) /\ Succeeds
    BY <1>2, <2>1, SMT DEF RemoveDestination, Configs
  <2>3. shifted \in Destinations
    BY <2>1, ShiftedType, SMT DEF Configs
  <2> HIDE DEF shifted
  <2>4. c \in Configs /\ c.version = config.version
    <3> DEFINE c1 == [config EXCEPT !.destinations = shifted]
    <3>1. config.destination_count - 1 \in Nat
      BY <2>1, <2>2, SMT DEF Configs
    <3>2. c = [c1 EXCEPT !.destination_count = config.destination_count - 1]
      BY <2>1, SMT DEF Configs
    <3> HIDE DEF c
    <3>3. c1 \in Configs /\ c1.version = config.version
      BY <2>1, <2>3, FieldsKeepType, SMT DEF Configs
    <3> HIDE DEF c1
    <3>4. [c1 EXCEPT !.destination_count = config.destination_count - 1].version = c1.version
      BY <3>3, SMT DEF Configs
    <3> QED
      BY <3>1, <3>2, <3>3, <3>4, FieldsKeepType
  <2>5. Valid(c)
    BY <2>1, <2>2, LimitsAssumption, SMT DEF Configs, Valid
  <2> HIDE DEF c
  <2> QED
    BY <2>2, <2>4, <2>5, Zenon DEF Step, Succeeds
<1> QED
  BY <1>1, <1>2

\* and rotate_destinations.
LEMMA RotateIsStep ==
    ASSUME ConfigTypeOK, StaysValid, NEW owner \in Owners, NEW destinations \in Destinations,
           NEW count \in Counts, RotateDestinations(owner, destinations, count)
    PROVE  Step
<1>1. CASE \E code \in {1, 5} : ReturnsError(code)
  BY <1>1, FailsIsStep, SMT
<1>2. CASE ~ \E code \in {1, 5} : ReturnsError(code)
  <2> DEFINE c == [config EXCEPT !.destinations = destinations, !.destination_count = count]
  <2>1. config \in Configs /\ Valid(config)
    BY DEF ConfigTypeOK, StaysValid
  <2>2. /\ count \in Nat /\ count # 0 /\ count <= MAX_DESTINATIONS
        /\ config' = NextVersion(c) /\ Succeeds
    BY <1>2, EnteredAssumption, LimitsAssumption, SMT DEF RotateDestinations
  <2>3. c \in Configs /\ c.version = config.version
    <3> DEFINE c1 == [config EXCEPT !.destinations = destinations]
    <3>1. destinations \in Destinations
      OBVIOUS
    <3>2. c = [c1 EXCEPT !.destination_count = count]
      OBVIOUS
    <3> HIDE DEF c
    <3>3. c1 \in Configs /\ c1.version = config.version
      BY <2>1, <3>1, FieldsKeepType, SMT DEF Configs
    <3> HIDE DEF c1
    <3>4. [c1 EXCEPT !.destination_count = count].version = c1.version
      BY <3>3, SMT DEF Configs
    <3> QED
      BY <2>2, <3>2, <3>3, <3>4, FieldsKeepType
  <2>4. Valid(c)
    BY <2>1, <2>2, LimitsAssumption, SMT DEF Configs, Valid
  <2> HIDE DEF c
  <2> QED
    BY <2>2, <2>3, <2>4, Zenon DEF Step, Succeeds
<1> QED
  BY <1>1, <1>2

\* So is every step.
LEMMA NextIsStep == ConfigTypeOK /\ StaysValid /\ ConfigNext => Step
  BY AddIsStep, RemoveIsStep, UpdateIsStep, RotateIsStep, Zenon DEF ConfigNext

\* store_private_config checks what it stores.
LEMMA InitTypeOK == ConfigInit => ConfigTypeOK /\ StaysValid
<1> SUFFICES ASSUME ConfigInit PROVE ConfigTypeOK /\ StaysValid
  OBVIOUS
<1>1. PICK owner \in Owners, destinations \in Padded, count \in Slots, threshold \in Thresholds,
           minSplits \in SplitCounts, maxSplits \in SplitCounts, minDelay \in Delays, maxDelay \in Delays :
           config = Sent(owner, destinations, count, minSplits, maxSplits,
                         minDelay, maxDelay, threshold)
  BY Zenon DEF ConfigInit
<1>2. config \in Configs
  BY <1>1, EnteredAssumption, ModulusAssumption, SMT DEF Sent, Configs, Padded, Slots
<1> QED
  BY <1>2, SMT DEF ConfigInit, ConfigTypeOK, StaysValid

\* The next version of a valid configuration is one.
LEMMA StepKeepsType ==
    ConfigTypeOK /\ StaysValid /\ (Step \/ UNCHANGED configVars) => ConfigTypeOK' /\ StaysValid'
<1>1. ASSUME ConfigTypeOK, StaysValid, Step PROVE ConfigTypeOK' /\ StaysValid'
  <2>1. CASE config' = config /\ result' \in [success : BOOLEAN, error_code : 0..5]
    BY <1>1, <2>1, Zenon DEF ConfigTypeOK, StaysValid
  <2>2. CASE /\ result' = [success |-> TRUE, error_code |-> 0]
             /\ \E c \in Configs :
                   Valid(c) /\ c.version = config.version /\ config' = NextVersion(c)
    <3>1. config' \in Configs /\ Valid(config')
      BY <2>2, NextVersionType, Zenon
    <3>2. result' \in [success : BOOLEAN, error_code : 0..5]
      BY <2>2, SMT
    <3> QED
      BY <3>1, <3>2, Zenon DEF ConfigTypeOK, StaysValid
  <2> QED
    BY <1>1, <2>1, <2>2 DEF Step
<1>2. ASSUME ConfigTypeOK, StaysValid, UNCHANGED configVars PROVE ConfigTypeOK' /\ StaysValid'
  BY <1>2, Zenon DEF ConfigTypeOK, StaysValid, configVars
<1> QED
  BY <1>1, <1>2

-----------------------------------------------------------------------------
(***************************************************************************)
(* Theorems                                                                *)
(***************************************************************************)

\* The configuration stays well typed (store_config.rs, update_config.rs).
THEOREM CircuitsTypeCorrect == ConfigSpec => []ConfigTypeOK
<1>1. ConfigTypeOK /\ StaysValid /\ [ConfigNext]_configVars => ConfigTypeOK' /\ StaysValid'
  BY NextIsStep, StepKeepsType, Zenon
<1> QED
  BY <1>1, InitTypeOK, PTL DEF ConfigSpec

\* Whatever is updated, added, removed or rotated, the configuration stays one that
\* store_private_config accepts (store_config.rs:56-77, update_config.rs).
THEOREM UpdatesStayValid == ConfigSpec => []StaysValid
<1>1. ConfigTypeOK /\ StaysValid /\ [ConfigNext]_configVars => ConfigTypeOK' /\ StaysValid'
  BY NextIsStep, StepKeepsType, Zenon
<1> QED
  BY <1>1, InitTypeOK, PTL DEF ConfigSpec

\* Every accepted change gives another hash, whatever the hash leaves out
\* (store_config.rs:99-143, and the version counted up by each circuit).
THEOREM ChangesShow == ConfigSpec => HashChanges
<1>1. ConfigTypeOK /\ StaysValid /\ [ConfigNext]_configVars => ConfigTypeOK' /\ StaysValid'
  BY NextIsStep, StepKeepsType, Zenon
<1>2. ConfigTypeOK /\ StaysValid /\ [ConfigNext]_configVars
          => [config' # config => Hash(config') # Hash(config)]_configVars
  <2> SUFFICES ASSUME ConfigTypeOK, StaysValid, ConfigNext, config' # config
               PROVE  Hash(config') # Hash(config)
    BY Zenon
  <2>1. \E c \in Configs : c.version = config.version /\ config' = NextVersion(c)
    BY NextIsStep, Zenon DEF Step
  <2>2. config'.version # config.version
    BY <2>1, NextVersionType, Zenon
  <2>3. \A c : Hash(c)[1] = c.version
    BY SMT DEF Hash
  <2> QED
    BY <2>2, <2>3, Zenon
<1> QED
  BY <1>1, <1>2, InitTypeOK, PTL DEF ConfigSpec, HashChanges
=============================================================================
