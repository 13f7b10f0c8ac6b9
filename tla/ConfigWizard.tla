---------------------------- MODULE ConfigWizard ----------------------------
(***************************************************************************)
(* The wizard for private withdrawals (components/PrivateConfigSetup.tsx): *)
(* four steps over a list of destinations and the hook that stores them.   *)
(***************************************************************************)
EXTENDS PrivateConfig, DestinationList, FiniteSets

CONSTANT MaxSent    \* bound: configurations on their way to the cluster or there

VARIABLES
    currentStep,    \* or "closed"
    selectedPreset, customSettings, useCustomSettings,
    autoWithdrawEnabled, autoWithdrawThreshold

settings == <<selectedPreset, customSettings, useCustomSettings>>
autoWithdraw == <<autoWithdrawEnabled, autoWithdrawThreshold>>
wizardVars == <<hookVars, listVars, currentStep, settings, autoWithdraw>>

Steps == <<"destinations", "privacy", "auto-withdraw", "review">>
After(step) == CHOOSE k \in 2..4 : Steps[k - 1] = step
Before(step) == CHOOSE k \in 1..3 : Steps[k + 1] = step

-----------------------------------------------------------------------------
(***************************************************************************)
(* Steps                                                                   *)
(***************************************************************************)

\* Mutant: the result of the validation is not looked at.
NextStepAnyway ==
    /\ currentStep \in {"destinations", "privacy", "auto-withdraw"}
    /\ IF currentStep = "destinations" THEN ValidateDestinations ELSE UNCHANGED listVars
    /\ currentStep' = Steps[After(currentStep)]
    /\ UNCHANGED <<hookVars, settings, autoWithdraw>>

\* Continue.  Only the destinations are validated.
NextStep ==
    /\ currentStep \in {"destinations", "privacy", "auto-withdraw"}
    /\ IF currentStep = "destinations" THEN ValidateDestinations ELSE UNCHANGED listVars
    /\ currentStep' = IF currentStep = "destinations" /\ ~ListValid THEN currentStep
                      ELSE Steps[After(currentStep)]
    /\ UNCHANGED <<hookVars, settings, autoWithdraw>>

\* Mutant: Back is not disabled.
PrevStepAnytime ==
    /\ currentStep \in {"privacy", "auto-withdraw", "review"}
    /\ currentStep' = Steps[Before(currentStep)]
    /\ UNCHANGED <<hookVars, listVars, settings, autoWithdraw>>

\* Back, which is disabled while the hook is loading.
PrevStep ==
    /\ ~isLoading
    /\ currentStep \in {"privacy", "auto-withdraw", "review"}
    /\ currentStep' = Steps[Before(currentStep)]
    /\ UNCHANGED <<hookVars, listVars, settings, autoWithdraw>>

Cancel ==
    /\ ~isLoading
    /\ currentStep = "destinations"
    /\ currentStep' = "closed"
    /\ UNCHANGED <<hookVars, listVars, settings, autoWithdraw>>

EditDestinations ==
    /\ currentStep = "destinations"
    /\ Edit
    /\ UNCHANGED <<hookVars, currentStep, settings, autoWithdraw>>

\* A preset replaces custom settings, which can then be had again by their box.
SelectPreset(p) ==
    /\ currentStep = "privacy"
    /\ selectedPreset' = p
    /\ customSettings' = Presets[p]
    /\ useCustomSettings' = FALSE
    /\ UNCHANGED <<hookVars, listVars, currentStep, autoWithdraw>>

\* The box `Use custom settings', and the four inputs under it, which are not checked.
CustomSettings ==
    /\ currentStep = "privacy"
    /\ \/ useCustomSettings' = ~useCustomSettings /\ UNCHANGED customSettings
       \/ /\ useCustomSettings
          /\ customSettings' \in EnteredSettings
          /\ UNCHANGED useCustomSettings
    /\ UNCHANGED <<hookVars, listVars, currentStep, selectedPreset, autoWithdraw>>

AutoWithdraw ==
    /\ currentStep = "auto-withdraw"
    /\ \/ autoWithdrawEnabled' = ~autoWithdrawEnabled /\ UNCHANGED autoWithdrawThreshold
       \/ /\ autoWithdrawEnabled
          /\ autoWithdrawThreshold' \in Thresholds
          /\ UNCHANGED autoWithdrawEnabled
    /\ UNCHANGED <<hookVars, listVars, currentStep, settings>>

-----------------------------------------------------------------------------
(***************************************************************************)
(* Review and submission                                                   *)
(***************************************************************************)

GetCurrentSettings == IF useCustomSettings THEN customSettings ELSE Presets[selectedPreset]

\* What the last step displays; the threshold only if it is to be used.
Reviewed ==
    [destinations |-> Cardinality(Given),
     level |-> IF useCustomSettings THEN "Custom" ELSE selectedPreset,
     minSplits |-> GetCurrentSettings.minSplits, maxSplits |-> GetCurrentSettings.maxSplits,
     minDelay |-> FormatDuration(GetCurrentSettings.minDelaySeconds),
     maxDelay |-> FormatDuration(GetCurrentSettings.maxDelaySeconds),
     autoWithdraw |-> autoWithdrawEnabled,
     threshold |-> IF autoWithdrawEnabled THEN autoWithdrawThreshold ELSE 0]

\* What handleSubmit passes on.  The hook starts from the preset, medium if there is none,
\* and writes custom settings over it.
Requested ==
    Config(IF useCustomSettings THEN customSettings ELSE Presets[selectedPreset],
           autoWithdrawEnabled, IF autoWithdrawEnabled THEN autoWithdrawThreshold ELSE 0,
           Cardinality(Given))

HandleSubmit ==
    /\ currentStep = "review" /\ ~isLoading
    /\ Cardinality(late \cup queued \cup stored) < MaxSent    \* bound
    /\ \/ Refused(Requested) /\ UNCHANGED currentStep
       \/ Mocked(Requested) /\ currentStep' = "closed"
       \/ Started(Requested) /\ UNCHANGED currentStep
    /\ UNCHANGED <<listVars, settings, autoWithdraw>>

\* onComplete, and an error, which the hook keeps for display.
Submitted ==
    \/ Returns /\ currentStep' = "closed" /\ UNCHANGED <<listVars, settings, autoWithdraw>>
    \/ Throws /\ UNCHANGED <<listVars, currentStep, settings, autoWithdraw>>

\* The wizard is opened again, with nothing of what it held.
Open ==
    /\ currentStep = "closed"
    /\ Reload
    /\ destinations' = <<"">> /\ destinationErrors' = <<>>
    /\ currentStep' = "destinations"
    /\ selectedPreset' = "medium" /\ customSettings' = Presets.medium /\ useCustomSettings' = FALSE
    /\ autoWithdrawEnabled' = FALSE /\ autoWithdrawThreshold' = 0

-----------------------------------------------------------------------------
WizardInit ==
    /\ HookInit /\ ListInit
    /\ currentStep = "destinations"
    /\ selectedPreset = "medium" /\ customSettings = Presets.medium /\ useCustomSettings = FALSE
    /\ autoWithdrawEnabled = FALSE /\ autoWithdrawThreshold = 0

WizardNext ==
    \/ NextStep
    \/ PrevStep
    \/ Cancel
    \/ EditDestinations
    \/ \E p \in DOMAIN Presets : SelectPreset(p)
    \/ CustomSettings
    \/ AutoWithdraw
    \/ HandleSubmit
    \/ Submitted
    \/ Open
    \/ (Waiting \/ OnChain) /\ UNCHANGED <<listVars, currentStep, settings, autoWithdraw>>

WizardSpec == WizardInit /\ [][WizardNext]_wizardVars

-----------------------------------------------------------------------------
\* However the steps are walked back and forth, past the first one the destinations are
\* valid: the submission takes them without another look.
DestinationsValid == currentStep \notin {"destinations", "closed"} => ListValid

\* A configuration that the cluster has got, as the last step would display it.
ShownAs(d) ==
    [destinations |-> d.destinations, minSplits |-> d.minSplits, maxSplits |-> d.maxSplits,
     minDelay |-> FormatDuration(Decoded(d.minDelay)),
     maxDelay |-> FormatDuration(Decoded(d.maxDelay)), autoWithdraw |-> d.autoWithdraw]

\* While the wizard waits for the cluster, its last step displays what the cluster has got,
\* as far as it gets it: the delays survive their encoding, the settings were accepted, and
\* nothing has been changed under way.
StoredShowsAsReviewed ==
    isLoading /\ transaction = "executed" =>
        /\ currentStep = "review"
        /\ \E d \in queued \cup stored :
               \A item \in DOMAIN ShownAs(d) : ShownAs(d)[item] = Reviewed[item]
=============================================================================
