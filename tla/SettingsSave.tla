---------------------------- MODULE SettingsSave ----------------------------
(***************************************************************************)
(* Saving the settings page (app/settings/page.tsx): the destinations, the *)
(* hook that stores them, and the status on the button, which a timer      *)
(* resets.                                                                 *)
(***************************************************************************)
EXTENDS PrivateConfig, DestinationList

CONSTANT MaxTimers    \* bound: resets of the status under way

VARIABLES
    saveStatus,
    timers    \* resets of saveStatus still to come

saveVars == <<hookVars, listVars, saveStatus, timers>>

\* A status is given that goes after three seconds.
Show(status) ==
    /\ saveStatus' = status
    /\ timers' = timers + 1

\* Mutant: the button looks at its own status alone.
SaveOfferedByStatus == saveStatus # "saving"

\* The button Save Configuration is enabled.
SaveOffered == ~isLoading /\ saveStatus # "saving"

\* It is used, with what the form shows by then.
HandleSaveConfig(c) ==
    /\ SaveOffered
    /\ timers < MaxTimers    \* bound
    /\ ValidateDestinations
    /\ \/ ~ListValid /\ UNCHANGED <<hookVars, saveStatus, timers>>
       \/ ListValid /\ Refused(c) /\ Show("error")
       \/ ListValid /\ Mocked(c) /\ Show("saved")
       \/ ListValid /\ Started(c) /\ saveStatus' = "saving" /\ UNCHANGED timers

Saved ==
    /\ Returns
    /\ Show("saved")
    /\ UNCHANGED listVars

\* Mutant: the timer is forgotten.
SaveFailedForGood ==
    /\ Throws
    /\ saveStatus' = "error"
    /\ UNCHANGED <<timers, listVars>>

SaveFailed ==
    /\ Throws
    /\ Show("error")
    /\ UNCHANGED listVars

\* A timer resets whatever status there is by then.
TimerFires ==
    /\ timers > 0
    /\ timers' = timers - 1
    /\ saveStatus' = "idle"
    /\ UNCHANGED <<hookVars, listVars>>

-----------------------------------------------------------------------------
SaveInit ==
    /\ HookInit /\ ListInit
    /\ saveStatus = "idle" /\ timers = 0

SaveNext ==
    \/ \E s \in EnteredSettings, enabled \in BOOLEAN, t \in Thresholds :
           HandleSaveConfig(Config(s, enabled, t, Cardinality(Given)))
    \/ Saved
    \/ SaveFailed
    \/ TimerFires
    \/ (Waiting \/ OnChain) /\ UNCHANGED <<listVars, saveStatus, timers>>
    \/ Edit /\ UNCHANGED <<hookVars, saveStatus, timers>>

SaveSpec == SaveInit /\ [][SaveNext]_saveVars

\* The hook's waits come to an end, timers fire.
SaveFairness ==
    /\ WF_saveVars(TimerFires)
    /\ WF_saveVars(SaveFailed)
    /\ WF_saveVars(Saved)
    /\ WF_saveVars(Waiting /\ UNCHANGED <<listVars, saveStatus, timers>>)

-----------------------------------------------------------------------------
\* No second save is started while one is under way, though a timer of an earlier one
\* resets the status in the middle of it: the hook keeps one call's state.
OneSaveAtATime == SaveOffered => stage = "idle"

\* Whatever is saved again in the meantime, the button gets its label back.
StatusGoes == saveStatus # "idle" ~> saveStatus = "idle"
=============================================================================
