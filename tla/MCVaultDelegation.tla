-------------------------- MODULE MCVaultDelegation --------------------------
(***************************************************************************)
(* A small instance of VaultDelegation for TLC.                            *)
(***************************************************************************)
EXTENDS VaultDelegation, TLC

CONSTANTS Purse     \* lamports every user starts with

MCInitialWallet == [u \in Users |-> Purse]

MCDefaultPolicy ==
    [enabled |-> TRUE, min_splits |-> 2, max_splits |-> 5,
     min_delay |-> 300, max_delay |-> 1800, privacy_mode |-> "FullPrivacy"]

\* The defaults, other settings that validate, and settings that do not.
MCSettingsChoices ==
    {MCDefaultPolicy, [MCDefaultPolicy EXCEPT !.privacy_mode = "Direct"],
     [MCDefaultPolicy EXCEPT !.min_splits = 6]}

Symmetric == Permutations(Users)
==============================================================================
