------------------------ MODULE MCDomainTransferFlow ------------------------
(***************************************************************************)
(* A small instance of DomainTransferFlow for TLC.                         *)
(***************************************************************************)
EXTENDS DomainTransferFlow

\* What one vault costs to open.  Another user can open one after closing this.
MCInitialWallet == [u \in Users |-> IF u = Me THEN 3 * RentExempt ELSE 0]

MCDefaultPolicy ==
    [enabled |-> TRUE, min_splits |-> 2, max_splits |-> 5,
     min_delay |-> 300, max_delay |-> 1800, privacy_mode |-> "FullPrivacy"]
=============================================================================
