-------------------------- MODULE MCHydentityProgram --------------------------
(***************************************************************************)
(* A small instance of HydentityProgram for TLC.                           *)
(***************************************************************************)
EXTENDS HydentityProgram, TLC

CONSTANTS Purse     \* lamports every user starts with

MCInitialWallet == [u \in Users |-> Purse]

MCDefaultPolicy ==
    [enabled |-> TRUE, min_splits |-> 2, max_splits |-> 5,
     min_delay |-> 300, max_delay |-> 1800, privacy_mode |-> "FullPrivacy"]

\* Users are interchangeable, and so are names: no definition tells one from
\* another.
Symmetric == Permutations(Users) \cup Permutations(Names)
===============================================================================
