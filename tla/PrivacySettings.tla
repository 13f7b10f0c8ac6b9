-------------------------- MODULE PrivacySettings --------------------------
(***************************************************************************)
(* The splits and delays of a private configuration, as                    *)
(* hooks/usePrivateConfig.ts validates, encodes and displays them.  The    *)
(* forms count delays in minutes, the hook in seconds.                     *)
(***************************************************************************)
EXTENDS Integers

MAX_DESTINATIONS == 5
MAX_SPLITS == 10
MIN_DELAY_FLOOR == 60    \* seconds
MAX_DELAY_CEILING == 604800

\* What a form hands over; a number of minutes may be anything that is typed.
InSeconds(minS, maxS, minD, maxD) ==
    [minSplits |-> minS, maxSplits |-> maxS,
     minDelaySeconds |-> 60 * minD, maxDelaySeconds |-> 60 * maxD]

Settings ==
    {s \in [minSplits : Int, maxSplits : Int, minDelaySeconds : Int, maxDelaySeconds : Int] :
        s.minDelaySeconds % 60 = 0 /\ s.maxDelaySeconds % 60 = 0}

\* Mutant: the maximum has no ceiling.
AcceptedAnyMaximum(s) ==
    /\ s.minSplits >= 1 /\ s.minSplits <= s.maxSplits /\ s.maxSplits <= MAX_SPLITS
    /\ s.minDelaySeconds >= MIN_DELAY_FLOOR
    /\ s.minDelaySeconds <= s.maxDelaySeconds

\* validateConfig finds no fault in the splits and the delays.
Accepted(s) ==
    /\ s.minSplits >= 1 /\ s.minSplits <= s.maxSplits /\ s.maxSplits <= MAX_SPLITS
    /\ s.minDelaySeconds >= MIN_DELAY_FLOOR
    /\ s.maxDelaySeconds <= MAX_DELAY_CEILING
    /\ s.minDelaySeconds <= s.maxDelaySeconds

\* A delay is sent in whole minutes, as two bytes, the low one first.
Encoded(seconds) == LET minutes == seconds \div 60
                    IN  <<minutes % 256, (minutes \div 256) % 256>>
Decoded(bytes) == 60 * (bytes[1] + 256 * bytes[2])

\* Math.round of a quotient of positive numbers.
Rounded(m, d) == (2 * m + d) \div (2 * d)

FormatDuration(seconds) ==
    IF seconds < 60 THEN [number |-> seconds, unit |-> "sec"]
    ELSE IF seconds < 3600 THEN [number |-> Rounded(seconds, 60), unit |-> "min"]
    ELSE IF seconds < 86400 THEN [number |-> Rounded(seconds, 3600), unit |-> "hr"]
    ELSE [number |-> Rounded(seconds, 86400), unit |-> "day"]
=============================================================================
