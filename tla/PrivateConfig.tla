--------------------------- MODULE PrivateConfig ---------------------------
(***************************************************************************)
(* The hook that stores a vault's private configuration:                   *)
(* hooks/usePrivateConfig.ts.                                              *)
(*                                                                         *)
(* initializeConfig validates, fetches the key of the cluster, encrypts,   *)
(* sends the instruction store_private_config and waits for the cluster.   *)
(* Each action is the code from one await to the next.  The callers are    *)
(* forms (SettingsSave, ConfigWizard), which resume at Returns and Throws. *)
(***************************************************************************)
EXTENDS PrivacySettings

CONSTANTS
    EnteredSettings,    \* splits and delays that a form hands over
    Thresholds,    \* thresholds of automatic withdrawal that are entered
    MaxRetries,    \* requests for the cluster's key; 10 in the code
    VaultGiven     \* "vault" or "wallet": what the caller passes as vaultPubkey

\* The forms count delays in minutes.
ASSUME EnteredSettingsAssumption == EnteredSettings \subseteq Settings
ASSUME MaxRetriesAssumption == MaxRetries \in Nat \ {0}
ASSUME VaultGivenAssumption == VaultGiven \in {"vault", "wallet"}

VARIABLES
    isLoading, configStatus, mxePublicKey,    \* the hook's
    stage, request, retries,    \* where initializeConfig waits, and with what
    transaction,    \* of the call under way: "none", "sent" or "executed"
    late,           \* what calls that gave up sent and may yet be executed
    account,        \* the account encrypted_config exists
    queued, stored, \* configurations the cluster has to store, and has stored
    arciumAvailable    \* FALSE: the Arcium SDK could not be loaded, the hook is in mock mode

call == <<isLoading, stage, request, retries, mxePublicKey>>
chain == <<transaction, late, account, queued, stored>>
hookVars == <<call, configStatus, chain, arciumAvailable>>

\* The hook's PRIVACY_PRESETS.
Presets == [low    |-> InSeconds(1, 3, 1, 10),
            medium |-> InSeconds(2, 5, 5, 30),
            high   |-> InSeconds(3, 5, 120, 480)]

\* What a caller hands over: settings, automatic withdrawal and destinations, of which the
\* number matters here.
Config(s, enabled, threshold, count) ==
    [settings |-> s, autoWithdraw |-> enabled, threshold |-> threshold, destinations |-> count]

Valid(c) == c.destinations \in 1..MAX_DESTINATIONS /\ Accepted(c.settings)

\* What of a configuration is encrypted and sent: not the threshold, and of the
\* destinations their number and a part of the first.
ConfigData(c) ==
    [minSplits |-> c.settings.minSplits % 256, maxSplits |-> c.settings.maxSplits % 256,
     minDelay |-> Encoded(c.settings.minDelaySeconds),
     maxDelay |-> Encoded(c.settings.maxDelaySeconds),
     autoWithdraw |-> c.autoWithdraw, destinations |-> c.destinations % 256]

NoStatus == [isInitialized |-> FALSE, version |-> 0]
Stored(version) == [isInitialized |-> TRUE, version |-> version]

-----------------------------------------------------------------------------
(***************************************************************************)
(* initializeConfig                                                        *)
(***************************************************************************)

\* validateConfig finds errors: it throws at once.
Refused(c) ==
    /\ ~Valid(c)
    /\ UNCHANGED hookVars

\* In mock mode it returns at once.
Mocked(c) ==
    /\ Valid(c) /\ ~arciumAvailable
    /\ configStatus' = Stored(1)
    /\ UNCHANGED <<call, chain, arciumAvailable>>

Started(c) ==
    /\ Valid(c) /\ arciumAvailable /\ stage = "idle"
    /\ isLoading' = TRUE
    /\ stage' = IF mxePublicKey THEN "building" ELSE "key"
    /\ request' = c
    /\ retries' = 0
    /\ transaction' = "none"
    /\ UNCHANGED <<configStatus, mxePublicKey, late, account, queued, stored, arciumAvailable>>

\* getMXEPubkey: the key is kept; after an error or an empty answer it is asked for again.
FetchKey ==
    /\ stage = "key"
    /\ \/ stage' = "building" /\ mxePublicKey' = TRUE /\ UNCHANGED retries
       \/ /\ retries + 1 < MaxRetries
          /\ retries' = retries + 1
          /\ UNCHANGED <<stage, mxePublicKey>>
    /\ UNCHANGED <<isLoading, request, configStatus, chain, arciumAvailable>>

\* The transaction is built, its simulation succeeds, the user signs.  It does not succeed
\* for an account that is not a vault of the wallet.
Send ==
    /\ stage = "building" /\ VaultGiven = "vault"
    /\ stage' = "sent"
    /\ transaction' = "sent"
    /\ UNCHANGED <<isLoading, request, retries, mxePublicKey, configStatus,
                   late, account, queued, stored, arciumAvailable>>

\* pollForConfirmation sees the transaction succeed.
Confirmed ==
    /\ stage = "sent" /\ transaction = "executed"
    /\ stage' = "finalizing"
    /\ UNCHANGED <<isLoading, request, retries, mxePublicKey, configStatus, chain, arciumAvailable>>

\* Nobody waits for the transaction any more; it may just have been sent, without an answer.
Leave ==
    /\ \/ transaction # "sent" /\ UNCHANGED late
       \/ /\ transaction = "sent" \/ (stage = "building" /\ VaultGiven = "vault")
          /\ late' = late \cup {ConfigData(request)}
    /\ transaction' = "none"
    /\ UNCHANGED <<account, queued, stored>>

\* The tries are used up, no blockhash comes, the simulation fails, the user does not sign,
\* the transaction fails or expires, or a poll does, whatever the transaction did.
Throws ==
    /\ \/ stage = "key" /\ retries + 1 = MaxRetries
       \/ stage \in {"building", "sent"}
    /\ isLoading' = FALSE
    /\ stage' = "idle"
    /\ Leave
    /\ UNCHANGED <<request, retries, mxePublicKey, configStatus, arciumAvailable>>

\* The cluster is done, or half a minute is over: the status is the same.
Returns ==
    /\ stage = "finalizing"
    /\ isLoading' = FALSE
    /\ stage' = "idle"
    /\ configStatus' = Stored(1)
    /\ Leave
    /\ UNCHANGED <<request, retries, mxePublicKey, arciumAvailable>>

-----------------------------------------------------------------------------
(***************************************************************************)
(* The rest of the hook, and the chain                                     *)
(***************************************************************************)

Reload ==
    /\ isLoading' = FALSE
    /\ configStatus' = NoStatus
    /\ mxePublicKey' = FALSE
    /\ stage' = "idle"
    /\ Leave
    /\ UNCHANGED <<request, retries, arciumAvailable>>

\* A transaction is executed: the account is created, the computation queued.  The cluster
\* completes a computation, or never does.
Execute ==
    /\ \/ /\ transaction = "sent"
          /\ transaction' = "executed"
          /\ queued' = queued \cup {ConfigData(request)}
          /\ UNCHANGED late
       \/ \E d \in late :
              /\ late' = late \ {d}
              /\ queued' = queued \cup {d}
              /\ UNCHANGED transaction
    /\ account' = TRUE
    /\ UNCHANGED <<call, configStatus, stored, arciumAvailable>>

Finalize ==
    /\ \E d \in queued : queued' = queued \ {d} /\ stored' = stored \cup {d}
    /\ UNCHANGED <<call, configStatus, transaction, late, account, arciumAvailable>>

-----------------------------------------------------------------------------
HookInit ==
    /\ isLoading = FALSE /\ configStatus = NoStatus /\ mxePublicKey = FALSE
    /\ stage = "idle" /\ request = Config(Presets.medium, FALSE, 0, 0) /\ retries = 0
    /\ transaction = "none" /\ late = {} /\ account = FALSE
    /\ queued = {} /\ stored = {}
    /\ arciumAvailable \in BOOLEAN

\* initializeConfig once it has started, without its end.
Waiting == FetchKey \/ Send \/ Confirmed
OnChain == Execute \/ Finalize

=============================================================================
