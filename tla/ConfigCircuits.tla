--------------------------- MODULE ConfigCircuits ---------------------------
(***************************************************************************)
(* The private configuration as the MPC circuits keep it:                  *)
(* encrypted-ixs/store_config.rs and update_config.rs.  A circuit takes    *)
(* the configuration of the moment and gives back the next one with a      *)
(* result; nothing but the hash can be seen outside.                       *)
(*                                                                         *)
(* External: that the cluster runs one circuit at a time on the newest     *)
(* configuration, and keeps one that store_private_config finds valid.     *)
(***************************************************************************)
EXTENDS Naturals

CONSTANTS
    Owners,               \* public keys that may sign
    Addresses, Zero,      \* destinations, and the 32 zero bytes of an unused slot
    FirstByte,            \* of an address
    Thresholds,           \* of automatic withdrawals
    MAX_DESTINATIONS, MAX_SPLITS, MIN_DELAY_FLOOR, MAX_DELAY_CEILING,
    Counts, SplitCounts, Delays,    \* what users enter
    Updates,              \* ConfigUpdates they send
    VersionModulus        \* 2^8: version is a u8

ASSUME AddressAssumption == Zero \notin Addresses /\ FirstByte \in [Addresses -> Nat]
ASSUME LimitsAssumption ==
    /\ MAX_DESTINATIONS \in Nat \ {0} /\ MAX_SPLITS \in Nat
    /\ MIN_DELAY_FLOOR \in Nat /\ MAX_DELAY_CEILING \in Nat
ASSUME EnteredAssumption == Counts \subseteq Nat /\ SplitCounts \subseteq Nat /\ Delays \subseteq Nat
ASSUME ModulusAssumption == VersionModulus \in Nat /\ VersionModulus > 1

Slots == 1..MAX_DESTINATIONS
Destinations == [Slots -> Addresses \cup {Zero}]
Configs == [version : 0..(VersionModulus - 1), owner_pubkey : Owners,
            destinations : Destinations, destination_count : Nat,
            min_splits : Nat, max_splits : Nat, min_delay : Nat, max_delay : Nat,
            threshold : Thresholds]

\* Some(v) for each v of S, or None, as sets.
Options(S) == {{}} \cup {{v} : v \in S}

ConfigUpdates ==
    [destinations : Options(Destinations), count : Options(Counts),
     min_splits : Options(SplitCounts), max_splits : Options(SplitCounts),
     min_delay : Options(Delays), max_delay : Options(Delays), threshold : Options(Thresholds)]

ASSUME UpdatesAssumption == \A u \in Updates : u \in ConfigUpdates

VARIABLES
    config,     \* the configuration the cluster keeps
    result      \* success and error_code of the last circuit

configVars == <<config, result>>

-----------------------------------------------------------------------------
\* Lists of one to MAX_DESTINATIONS addresses, padded with zeros as the SDK sends them.
Padded == {d \in Destinations :
              \E n \in Slots : \A k \in Slots : d[k] # Zero <=> k <= n}

Active(c) == {k \in Slots : k <= c.destination_count}

\* What store_private_config checks.
Valid(c) ==
    /\ c.destination_count # 0 /\ c.destination_count <= MAX_DESTINATIONS
    /\ c.min_splits # 0 /\ c.min_splits <= c.max_splits /\ c.max_splits <= MAX_SPLITS
    /\ c.min_delay >= MIN_DELAY_FLOOR /\ c.max_delay <= MAX_DELAY_CEILING
    /\ c.min_delay <= c.max_delay

\* compute_config_hash: the fields are copied, of a destination one byte, of the threshold none.
Hash(c) ==
    <<c.version, c.destination_count, c.min_splits, c.max_splits, c.min_delay, c.max_delay,
      [k \in Active(c) |-> IF c.destinations[k] = Zero THEN 0 ELSE FirstByte[c.destinations[k]]],
      c.owner_pubkey>>

Succeeds == result' = [success |-> TRUE, error_code |-> 0]
ReturnsError(code) == result' = [success |-> FALSE, error_code |-> code] /\ UNCHANGED config

\* Mutant: the version is left as it is.
UnversionedNext(c) == c

\* Every change counts the version up.
NextVersion(c) == [c EXCEPT !.version = (@ + 1) % VersionModulus]

-----------------------------------------------------------------------------
(***************************************************************************)
(* update_private_config                                                   *)
(***************************************************************************)

\* The value given, if it is one of those allowed; the old one otherwise.
Checked(option, allowed, old) ==
    IF \E v \in allowed : option = {v} THEN CHOOSE v \in allowed : option = {v} ELSE old

WithDestinations(c, u) ==
    [c EXCEPT !.destinations = Checked(u.destinations, Destinations, @),
              !.destination_count = Checked(u.count, Slots, @),
              !.threshold = Checked(u.threshold, Thresholds, @)]

\* Mutant: the new maximum is compared with the minimum of before the update.
WithSplitsOfBefore(c, u) ==
    [c EXCEPT !.min_splits = Checked(u.min_splits, 1..c.max_splits, @),
              !.max_splits = Checked(u.max_splits, c.min_splits..MAX_SPLITS, @)]

\* The minimum is checked against the old maximum, the maximum against the new minimum.
WithSplits(c, u) ==
    LET min == Checked(u.min_splits, 1..c.max_splits, c.min_splits)
    IN  [c EXCEPT !.min_splits = min, !.max_splits = Checked(u.max_splits, min..MAX_SPLITS, @)]

WithDelays(c, u) ==
    LET min == Checked(u.min_delay, MIN_DELAY_FLOOR..c.max_delay, c.min_delay)
    IN  [c EXCEPT !.min_delay = min, !.max_delay = Checked(u.max_delay, min..MAX_DELAY_CEILING, @)]

UpdatePrivateConfig(owner, u) ==
    IF owner # config.owner_pubkey THEN ReturnsError(1)
    ELSE /\ config' = NextVersion(WithDelays(WithSplits(WithDestinations(config, u), u), u))
         /\ Succeeds

-----------------------------------------------------------------------------
(***************************************************************************)
(* The destinations one by one                                             *)
(***************************************************************************)

AddDestination(owner, address) ==
    IF owner # config.owner_pubkey THEN ReturnsError(1)
    ELSE IF config.destination_count >= MAX_DESTINATIONS THEN ReturnsError(2)
    ELSE /\ config' = NextVersion(
                [config EXCEPT !.destinations[config.destination_count + 1] = address,
                               !.destination_count = @ + 1])
         /\ Succeeds

\* The slots above the one removed move down by one.
Shifted(destinations, index) ==
    [k \in Slots |-> IF k = MAX_DESTINATIONS THEN Zero
                     ELSE IF k >= index THEN destinations[k + 1]
                     ELSE destinations[k]]

\* Slots are counted from one here.
RemoveDestination(owner, index) ==
    IF owner # config.owner_pubkey THEN ReturnsError(1)
    ELSE IF index > config.destination_count THEN ReturnsError(3)
    ELSE IF config.destination_count <= 1 THEN ReturnsError(4)
    ELSE /\ config' = NextVersion(
                [config EXCEPT !.destinations = Shifted(@, index), !.destination_count = @ - 1])
         /\ Succeeds

RotateDestinations(owner, destinations, count) ==
    IF owner # config.owner_pubkey THEN ReturnsError(1)
    ELSE IF count = 0 \/ count > MAX_DESTINATIONS THEN ReturnsError(5)
    ELSE /\ config' = NextVersion([config EXCEPT !.destinations = destinations,
                                                 !.destination_count = count])
         /\ Succeeds

-----------------------------------------------------------------------------
\* A configuration as users send it first: its destinations are padded and counted right.
Sent(owner, destinations, count, minSplits, maxSplits, minDelay, maxDelay, threshold) ==
    [version |-> 1, owner_pubkey |-> owner, destinations |-> destinations,
     destination_count |-> count, min_splits |-> minSplits, max_splits |-> maxSplits,
     min_delay |-> minDelay, max_delay |-> maxDelay, threshold |-> threshold]

ConfigInit ==
    /\ \E owner \in Owners, destinations \in Padded, count \in Slots, threshold \in Thresholds,
          minSplits, maxSplits \in SplitCounts, minDelay, maxDelay \in Delays :
           /\ \A k \in Slots : destinations[k] # Zero <=> k <= count
           /\ config = Sent(owner, destinations, count, minSplits, maxSplits,
                            minDelay, maxDelay, threshold)
    /\ Valid(config)
    /\ result = [success |-> TRUE, error_code |-> 0]

ConfigNext ==
    \/ \E owner \in Owners :
          \/ \E address \in Addresses : AddDestination(owner, address)
          \/ \E index \in Slots : RemoveDestination(owner, index)
    \/ \E owner \in Owners, u \in Updates : UpdatePrivateConfig(owner, u)
    \/ \E owner \in Owners, destinations \in Destinations, count \in Counts :
           RotateDestinations(owner, destinations, count)

ConfigSpec == ConfigInit /\ [][ConfigNext]_configVars

-----------------------------------------------------------------------------
(***************************************************************************)
(* Properties                                                              *)
(***************************************************************************)

\* Every variable holds a value of its type.
ConfigTypeOK == config \in Configs /\ result \in [success : BOOLEAN, error_code : 0..5]

\* "New values must pass same validation as initial config": whatever is updated, in whatever
\* order and with whatever values, the configuration stays one that the store would accept, and
\* so one that the plan generator can use.
StaysValid == Valid(config)

\* "Config hash changes": an accepted change always gives a hash other than the one before, even
\* where it only touches what the hash leaves out: the threshold, the slots that do not count
\* and all bytes of an address but the first.
HashChanges == [][config' # config => Hash(config') # Hash(config)]_configVars
=============================================================================
