--------------------------- MODULE MCConfigWizard ---------------------------
(***************************************************************************)
(* A small instance of ConfigWizard for TLC.                               *)
(***************************************************************************)
EXTENDS ConfigWizard

\* Settings that are accepted, the minimum displayed as two hours and the maximum as much
\* as there may be; and settings whose maximum does not fit two bytes.
MCEnteredSettings == {InSeconds(1, 10, 90, 10080), InSeconds(2, 5, 5, 70000)}
=============================================================================
