--------------------------- MODULE MCSettingsPage ---------------------------
(***************************************************************************)
(* A small instance of the settings page for TLC: its form of splits and   *)
(* delays (DelaySettings) and its button Save Configuration over the list  *)
(* of destinations and the hook (SettingsSave).  The form hands its values *)
(* over when the button is used, and SettingsSave takes any, so the two    *)
(* share no variable: a behaviour is one of the form's or one of the       *)
(* button's.                                                               *)
(***************************************************************************)
EXTENDS DelaySettings, SettingsSave

\* Settings that are accepted, and others.
MCEnteredSettings == {InSeconds(2, 5, 5, 30), InSeconds(2, 5, 5, 70000)}

VARIABLE part    \* whose behaviour this is

pageVars == <<vars, saveVars, part>>

PageInit ==
    /\ Init /\ SaveInit
    /\ part \in {"form", "button"}
    /\ part = "form" => ~arciumAvailable

PageNext ==
    \/ part = "form" /\ Next /\ UNCHANGED <<saveVars, part>>
    \/ part = "button" /\ SaveNext /\ UNCHANGED <<vars, part>>

PageSpec == PageInit /\ [][PageNext]_pageVars /\ SaveFairness
=============================================================================
