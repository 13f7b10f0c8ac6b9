------------------------ MODULE PrivateConfig_proofs ------------------------
(***************************************************************************)
(* Proofs about the private configuration in the app.                      *)
(*                                                                         *)
(* The settings form (DelaySettings): the types and the range of the       *)
(* splits are kept from any position and with any number typed, presets    *)
(* survive the conversion to the units of the form, a change of the        *)
(* maximum's unit leaves the gap, and the encoding loses nothing of an     *)
(* accepted delay.  The button of the settings page (SettingsSave) and the *)
(* wizard (ConfigWizard), for any list of destinations, settings,          *)
(* thresholds, number of retries and outcome of what the hook awaits: one  *)
(* configuration is stored at a time, with valid destinations, and what    *)
(* the cluster gets of it is on display.                                   *)
(***************************************************************************)
EXTENDS DelaySettings, SettingsSave, ConfigWizard, TLAPS

-----------------------------------------------------------------------------
(***************************************************************************)
(* The conversions                                                         *)
(***************************************************************************)

\* A unit has a whole number of minutes.
LEMMA UnitInMinutes == ASSUME NEW u \in Units PROVE InUnit[u] \in {1, 60, 1440}
  BY SMT DEF Units, InUnit

\* A delay of the form is a positive number of minutes.
LEMMA MinutesPositive == ASSUME NEW d \in Delays PROVE ToMinutes(d) \in Nat \ {0}
<1>1. d.value \in Nat \ {0} /\ d.unit \in Units
  BY SMT DEF Delays
<1>2. CASE InUnit[d.unit] = 1
  BY <1>1, <1>2, SMT DEF ToMinutes
<1>3. CASE InUnit[d.unit] = 60
  BY <1>1, <1>3, SMT DEF ToMinutes
<1>4. CASE InUnit[d.unit] = 1440
  BY <1>1, <1>4, SMT DEF ToMinutes
<1> QED
  BY <1>1, <1>2, <1>3, <1>4, UnitInMinutes, SMT

\* A positive number of minutes is displayed as a delay of the form.
LEMMA FormattedIsDelay == ASSUME NEW m \in Nat \ {0} PROVE FormatDelay(m) \in Delays
<1>1. CASE m >= 1440
  <2>1. FormatDelay(m) = Delay(Rounded(m, 1440), "days")
    BY <1>1, SMT DEF FormatDelay
  <2>2. Rounded(m, 1440) \in Nat \ {0}
    BY <1>1, SMT DEF Rounded
  <2> QED
    BY <2>1, <2>2, SMT DEF Delay, Delays, Units
<1>2. CASE m >= 60 /\ m < 1440
  <2>1. FormatDelay(m) = Delay(Rounded(m, 60), "hours")
    BY <1>2, SMT DEF FormatDelay
  <2>2. Rounded(m, 60) \in Nat \ {0}
    BY <1>2, SMT DEF Rounded
  <2> QED
    BY <2>1, <2>2, SMT DEF Delay, Delays, Units
<1>3. CASE m < 60
  <2>1. FormatDelay(m) = Delay(m, "mins")
    BY <1>3, SMT DEF FormatDelay
  <2> QED
    BY <2>1, SMT DEF Delay, Delays, Units
<1> QED
  BY <1>1, <1>2, <1>3, SMT

\* The maximum that a minimum calls for is one.
LEMMA AboveIsDelay == ASSUME NEW d \in Delays PROVE Above(d) \in Delays
  BY MinutesPositive, FormattedIsDelay, SMT DEF Above, MIN_DELAY_GAP

\* In any unit, the value that the maximum is corrected to makes the gap.
LEMMA RoundedUpReaches ==
    ASSUME NEW d \in Delays, NEW u \in Units
    PROVE  LET least == RoundedUp(ToMinutes(d) + MIN_DELAY_GAP, InUnit[u])
           IN  least \in Nat \ {0} /\ least * InUnit[u] >= ToMinutes(d) + MIN_DELAY_GAP
<1>1. ASSUME NEW m \in Nat, NEW k \in {1, 60, 1440}
      PROVE  /\ RoundedUp(m + 10, k) \in Nat \ {0}
             /\ RoundedUp(m + 10, k) * k >= m + 10
  <2>1. CASE k = 1
    BY <2>1, SMT DEF RoundedUp
  <2>2. CASE k = 60
    BY <2>2, SMT DEF RoundedUp
  <2>3. CASE k = 1440
    BY <2>3, SMT DEF RoundedUp
  <2> QED
    BY <2>1, <2>2, <2>3
<1>2. ToMinutes(d) \in Nat
  BY MinutesPositive, SMT
<1> QED
  BY <1>1, <1>2, UnitInMinutes, SMT DEF MIN_DELAY_GAP

\* The delays of the presets are the same after the conversion to the units of the form
\* and back.
LEMMA PresetsSurvive ==
    ASSUME NEW l \in Levels
    PROVE  Matches(l, PRIVACY_PRESETS[l].minSplits, PRIVACY_PRESETS[l].maxSplits,
                   FormatDelay(PRIVACY_PRESETS[l].minDelay),
                   FormatDelay(PRIVACY_PRESETS[l].maxDelay))
<1>1. \A m \in 1..59 : ToMinutes(FormatDelay(m)) = m
  <2> TAKE m \in 1..59
  <2>1. FormatDelay(m) = Delay(m, "mins")
    BY SMT DEF FormatDelay
  <2> QED
    BY <2>1, SMT DEF ToMinutes, InUnit, Delay
<1>2. ToMinutes(FormatDelay(120)) = 120 /\ ToMinutes(FormatDelay(480)) = 480
  <2>1. Rounded(120, 60) = 2 /\ Rounded(480, 60) = 8
    BY SMT DEF Rounded
  <2>2. FormatDelay(120) = Delay(2, "hours") /\ FormatDelay(480) = Delay(8, "hours")
    BY <2>1, SMT DEF FormatDelay
  <2> QED
    BY <2>2, SMT DEF ToMinutes, InUnit, Delay
<1>3. CASE l = "low"
  BY <1>1, <1>3, SMT DEF Matches, PRIVACY_PRESETS, Preset
<1>4. CASE l = "medium"
  BY <1>1, <1>4, SMT DEF Matches, PRIVACY_PRESETS, Preset
<1>5. CASE l = "high"
  BY <1>2, <1>5, SMT DEF Matches, PRIVACY_PRESETS, Preset
<1> QED
  BY <1>3, <1>4, <1>5, SMT DEF Levels

\* Presets differ in their splits, so the effect finds at most one.
LEMMA PresetsDiffer ==
    ASSUME NEW k \in Levels, NEW l \in Levels, NEW a, NEW b, NEW c, NEW d,
           Matches(k, a, b, c, d), Matches(l, a, b, c, d)
    PROVE  k = l
<1>1. Preset(a, b, ToMinutes(c), ToMinutes(d)) = PRIVACY_PRESETS[k]
  BY SMT DEF Matches
<1>2. Preset(a, b, ToMinutes(c), ToMinutes(d)) = PRIVACY_PRESETS[l]
  BY SMT DEF Matches
<1>3. PRIVACY_PRESETS[k].minSplits = PRIVACY_PRESETS[l].minSplits
  BY <1>1, <1>2, SMT
<1> QED
  BY <1>3, SMT DEF PRIVACY_PRESETS, Preset, Levels

\* A number of minutes within the ceiling fits two bytes.
LEMMA TwoBytesHold ==
    ASSUME NEW m \in Nat, m <= 10080
    PROVE  m = (m % 256) + 256 * ((m \div 256) % 256)
  OBVIOUS

\* An accepted delay can be read off the two bytes it is sent as, so no two are sent
\* alike: usePrivateConfig truncates seconds to minutes and minutes to sixteen bits.
THEOREM EncodingLosesNothing ==
    ASSUME NEW s \in Settings, Accepted(s)
    PROVE  /\ Decoded(Encoded(s.minDelaySeconds)) = s.minDelaySeconds
           /\ Decoded(Encoded(s.maxDelaySeconds)) = s.maxDelaySeconds
<1>1. ASSUME NEW t \in Int, t % 60 = 0, 60 <= t, t <= 604800
      PROVE  Decoded(Encoded(t)) = t
  <2> DEFINE m == t \div 60
  <2>1. m \in Nat /\ m <= 10080 /\ t = 60 * m
    BY <1>1
  <2>2. Encoded(t) = <<m % 256, (m \div 256) % 256>>
    BY DEF Encoded
  <2> HIDE DEF m
  <2>3. m = (m % 256) + 256 * ((m \div 256) % 256)
    BY <2>1, TwoBytesHold
  <2>4. Decoded(Encoded(t)) = 60 * ((m % 256) + 256 * ((m \div 256) % 256))
    BY <2>2 DEF Decoded
  <2> QED
    BY <2>1, <2>3, <2>4
<1>2. /\ s.minDelaySeconds \in Int /\ s.maxDelaySeconds \in Int
      /\ s.minDelaySeconds % 60 = 0 /\ s.maxDelaySeconds % 60 = 0
  BY DEF Settings
<1>3. /\ 60 <= s.minDelaySeconds /\ s.minDelaySeconds <= s.maxDelaySeconds
      /\ s.maxDelaySeconds <= 604800
  BY <1>2 DEF Accepted, MIN_DELAY_FLOOR, MAX_DELAY_CEILING
<1> QED
  BY <1>1, <1>2, <1>3

-----------------------------------------------------------------------------
(***************************************************************************)
(* Types and splits                                                        *)
(***************************************************************************)

\* The preset that is displayed after any handler.
LEMMA MatchedPreset == ASSUME MatchPreset PROVE preset' \in Levels \cup {"custom"}
  BY Zenon DEF MatchPreset

\* The effect displays the preset that the values are.
LEMMA MatchedIsDisplayed ==
    ASSUME NEW l \in Levels, MatchPreset,
           Matches(l, minSplits', maxSplits', minDelay', maxDelay')
    PROVE  preset' = l
<1>1. PICK k \in Levels :
        Matches(k, minSplits', maxSplits', minDelay', maxDelay') /\ preset' = k
  BY Zenon DEF MatchPreset
<1> QED
  BY <1>1, PresetsDiffer, Zenon

\* A handler of the delays leaves the splits alone, and gives each delay a unit.
LEMMA DelaysTyped ==
    ASSUME TypeOK, SplitsValid, UNCHANGED <<splits, dragging>>, MatchPreset,
           minDelay' \in Delays, maxDelay' \in Delays
    PROVE  TypeOK' /\ SplitsValid'
<1>1. preset' \in Levels \cup {"custom"}
  BY MatchedPreset
<1> QED
  BY <1>1, Zenon DEF TypeOK, SplitsValid, splits

\* A handler of the splits leaves the delays alone and keeps the range.
LEMMA SplitsTyped ==
    ASSUME TypeOK, UNCHANGED <<dragging, delays>>, MatchPreset,
           minSplits' \in Int, maxSplits' \in Int, SplitsValid'
    PROVE  TypeOK' /\ SplitsValid'
<1>1. preset' \in Levels \cup {"custom"}
  BY MatchedPreset
<1> QED
  BY <1>1, Zenon DEF TypeOK, delays

\* A thumb that is moved stops at the other one.
LEMMA ThumbsKeepRange ==
    ASSUME TypeOK, SplitsValid, NEW v \in 1..10, MoveMin(v) \/ MoveMax(v)
    PROVE  minSplits' \in Int /\ maxSplits' \in Int /\ SplitsValid'
  BY SMT DEF TypeOK, SplitsValid, MoveMin, MoveMax, Least, Greatest, MAX_SPLITS

\* Types and the range of the splits hold initially.
LEMMA InitValid == Init => TypeOK /\ SplitsValid
  BY SMT DEF Init, TypeOK, SplitsValid, PRIVACY_PRESETS, Preset, MAX_SPLITS, Delay, Delays,
     Units, Levels

\* They are kept by every handler, whatever the position of the mouse or the number typed.
LEMMA NextValid == TypeOK /\ SplitsValid /\ [Next]_vars => TypeOK' /\ SplitsValid'
<1> SUFFICES ASSUME TypeOK, SplitsValid, [Next]_vars PROVE TypeOK' /\ SplitsValid'
  OBVIOUS
<1>1. minDelay \in Delays /\ maxDelay \in Delays
  BY DEF TypeOK
<1>2. ASSUME NEW l \in Levels, ApplyPreset(l) PROVE TypeOK' /\ SplitsValid'
  <2>1. PRIVACY_PRESETS[l].minDelay \in Nat \ {0} /\ PRIVACY_PRESETS[l].maxDelay \in Nat \ {0}
    BY SMT DEF PRIVACY_PRESETS, Preset, Levels
  <2>2. minDelay' \in Delays /\ maxDelay' \in Delays
    BY <1>2, <2>1, FormattedIsDelay, Zenon DEF ApplyPreset
  <2>3. minSplits' \in Int /\ maxSplits' \in Int /\ SplitsValid'
    BY <1>2, SMT DEF ApplyPreset, PRIVACY_PRESETS, Preset, Levels, SplitsValid, MAX_SPLITS
  <2>4. preset' \in Levels \cup {"custom"} /\ dragging' = dragging
    BY <1>2, MatchedPreset, Zenon DEF ApplyPreset
  <2> QED
    BY <2>2, <2>3, <2>4, Zenon DEF TypeOK
<1>3. ASSUME NEW v \in Positions, HandleSliderClick(v) \/ HandleMouseMove(v)
      PROVE  TypeOK' /\ SplitsValid'
  <2>1. MoveMin(v) \/ MoveMax(v)
    BY <1>3, Zenon DEF HandleSliderClick, HandleMouseMove
  <2>2. UNCHANGED <<dragging, delays>> /\ MatchPreset
    BY <1>3, Zenon DEF HandleSliderClick, HandleMouseMove
  <2>3. v \in 1..10
    BY PositionsAssumption
  <2> QED
    BY <2>1, <2>2, <2>3, ThumbsKeepRange, SplitsTyped
<1>4. ASSUME NEW thumb \in {"min", "max"}, MouseDown(thumb) PROVE TypeOK' /\ SplitsValid'
  BY <1>4, Zenon DEF MouseDown, TypeOK, SplitsValid, splits, delays
<1>5. CASE HandleMouseUp
  BY <1>5, Zenon DEF HandleMouseUp, TypeOK, SplitsValid, splits, delays
<1>6. ASSUME NEW n \in Typed PROVE Greatest(1, n) \in Nat \ {0}
  BY <1>6, TypedAssumption, SMT DEF Greatest
<1>7. ASSUME NEW n \in Typed, HandleMinDelayValueChange(n) PROVE TypeOK' /\ SplitsValid'
  <2>1. Delay(Greatest(1, n), minDelay.unit) \in Delays
    BY <1>1, <1>6 DEF Delay, Delays
  <2>2. minDelay' \in Delays /\ maxDelay' \in Delays
    BY <1>1, <1>7, <2>1, AboveIsDelay, Zenon DEF HandleMinDelayValueChange
  <2> QED
    BY <1>7, <2>2, DelaysTyped, Zenon DEF HandleMinDelayValueChange
<1>8. ASSUME NEW n \in Typed, HandleMaxDelayValueChange(n) PROVE TypeOK' /\ SplitsValid'
  <2>1. Delay(Greatest(1, n), maxDelay.unit) \in Delays
    BY <1>1, <1>6 DEF Delay, Delays
  <2>2. minDelay' \in Delays /\ maxDelay' \in Delays
    BY <1>1, <1>8, <2>1, AboveIsDelay, Zenon DEF HandleMaxDelayValueChange
  <2> QED
    BY <1>8, <2>2, DelaysTyped, Zenon DEF HandleMaxDelayValueChange
<1>9. ASSUME NEW u \in Units, HandleMinDelayUnitChange(u) PROVE TypeOK' /\ SplitsValid'
  <2>1. Delay(minDelay.value, u) \in Delays
    BY <1>1 DEF Delay, Delays
  <2>2. Delay(minDelay.value + 1, u) \in Delays
    <3>1. minDelay.value + 1 \in Nat \ {0}
      BY <1>1, SMT DEF Delays
    <3> QED
      BY <3>1 DEF Delay, Delays
  <2>3. minDelay' \in Delays /\ maxDelay' \in Delays
    BY <1>1, <1>9, <2>1, <2>2, AboveIsDelay, Zenon DEF HandleMinDelayUnitChange
  <2> QED
    BY <1>9, <2>3, DelaysTyped, Zenon DEF HandleMinDelayUnitChange
<1>10. ASSUME NEW u \in Units, HandleMaxDelayUnitChange(u) PROVE TypeOK' /\ SplitsValid'
  <2>1. Delay(maxDelay.value, u) \in Delays
    BY <1>1 DEF Delay, Delays
  <2>2. Delay(RoundedUp(ToMinutes(minDelay) + MIN_DELAY_GAP, InUnit[u]), u) \in Delays
    BY <1>1, RoundedUpReaches DEF Delay, Delays
  <2>3. minDelay' \in Delays /\ maxDelay' \in Delays
    BY <1>1, <1>10, <2>1, <2>2, Zenon DEF HandleMaxDelayUnitChange
  <2> QED
    BY <1>10, <2>3, DelaysTyped, Zenon DEF HandleMaxDelayUnitChange
<1>11. CASE UNCHANGED vars
  BY <1>11, Zenon DEF vars, TypeOK, SplitsValid
<1> QED
  BY <1>2, <1>3, <1>4, <1>5, <1>7, <1>8, <1>9, <1>10, <1>11, Zenon DEF Next

\* Whatever is clicked, dragged or typed, the form keeps its types and a range of splits
\* that the circuits take.
THEOREM SplitsAlwaysValid == Spec => [](TypeOK /\ SplitsValid)
<1>1. Init => TypeOK /\ SplitsValid
  BY InitValid
<1>2. TypeOK /\ SplitsValid /\ [Next]_vars => TypeOK' /\ SplitsValid'
  BY NextValid
<1> QED
  BY <1>1, <1>2, PTL DEF Spec

-----------------------------------------------------------------------------
(***************************************************************************)
(* Presets and the gap                                                     *)
(***************************************************************************)

\* The button of a preset leaves that preset displayed: the effect that follows finds
\* the values it set.
THEOREM PresetsStick == Spec => PresetSticks
<1>1. ASSUME NEW l \in Levels, ApplyPreset(l) PROVE preset' = l
  <2>1. Matches(l, minSplits', maxSplits', minDelay', maxDelay') /\ MatchPreset
    BY <1>1, PresetsSurvive, Zenon DEF ApplyPreset
  <2> QED
    BY <2>1, MatchedIsDisplayed
<1>2. [\A l \in Levels : ApplyPreset(l) => preset' = l]_vars
  BY <1>1, Zenon
<1> QED
  BY <1>2, PTL DEF PresetSticks

\* A change of the maximum's unit leaves the gap, whatever the delays were.
THEOREM MaxUnitChangeKeepsGap == Spec => MaxUnitKeepsGap
<1>1. ASSUME TypeOK, NEW u \in Units, HandleMaxDelayUnitChange(u) PROVE Far(minDelay, maxDelay')
  <2> DEFINE least == RoundedUp(ToMinutes(minDelay) + MIN_DELAY_GAP, InUnit[u])
  <2>1. CASE Far(minDelay, Delay(maxDelay.value, u))
    BY <1>1, <2>1, Zenon DEF HandleMaxDelayUnitChange
  <2>2. CASE ~Far(minDelay, Delay(maxDelay.value, u))
    <3>1. maxDelay' = Delay(least, u)
      BY <1>1, <2>2, Zenon DEF HandleMaxDelayUnitChange
    <3>2. ToMinutes(maxDelay') = least * InUnit[u]
      BY <3>1 DEF ToMinutes, Delay
    <3>3. minDelay \in Delays
      BY <1>1 DEF TypeOK
    <3> QED
      BY <3>2, <3>3, RoundedUpReaches, Zenon DEF Far
  <2> QED
    BY <2>1, <2>2
<1>2. TypeOK => [\A u \in Units : HandleMaxDelayUnitChange(u) => Far(minDelay, maxDelay')]_vars
  BY <1>1, Zenon
<1> QED
  BY <1>2, SplitsAlwaysValid, PTL DEF MaxUnitKeepsGap

-----------------------------------------------------------------------------
(***************************************************************************)
(* The hook, under both of its callers                                     *)
(***************************************************************************)

\* The hook says it is loading just while initializeConfig waits for something.
LoadingWhileWaiting ==
    /\ stage \in {"idle", "key", "building", "sent", "finalizing"}
    /\ isLoading = (stage # "idle")

\* Initially it is idle.
LEMMA HookInitLoading == HookInit => LoadingWhileWaiting
  BY DEF HookInit, LoadingWhileWaiting

\* Every part of the hook that a caller's action is made of keeps that.
LEMMA StartKeepsLoading ==
    ASSUME LoadingWhileWaiting, NEW c, Refused(c) \/ Mocked(c) \/ Started(c)
    PROVE  LoadingWhileWaiting'
  BY DEF LoadingWhileWaiting, Refused, Mocked, Started, hookVars, call

\* While it waits, it goes on loading, with the same request.
LEMMA WaitingKeepsLoading ==
    ASSUME LoadingWhileWaiting, Waiting \/ OnChain
    PROVE  LoadingWhileWaiting' /\ UNCHANGED <<isLoading, request>>
<1>1. CASE Waiting
  BY <1>1 DEF Waiting, FetchKey, Send, Confirmed, LoadingWhileWaiting
<1>2. CASE OnChain
  BY <1>2 DEF OnChain, Execute, Finalize, LoadingWhileWaiting, call
<1> QED
  BY <1>1, <1>2

\* However the call ends, it is idle again.
LEMMA EndStopsLoading ==
    ASSUME Returns \/ Throws \/ Reload
    PROVE  LoadingWhileWaiting' /\ ~isLoading'
  BY DEF Returns, Throws, Reload, LoadingWhileWaiting

-----------------------------------------------------------------------------
(***************************************************************************)
(* The button of the settings page                                         *)
(***************************************************************************)

\* The page keeps what the hook's loading says.
LEMMA SaveStepLoading == LoadingWhileWaiting /\ [SaveNext]_saveVars => LoadingWhileWaiting'
<1> SUFFICES ASSUME LoadingWhileWaiting, [SaveNext]_saveVars PROVE LoadingWhileWaiting'
  OBVIOUS
<1>1. ASSUME NEW c, HandleSaveConfig(c) PROVE LoadingWhileWaiting'
  <2>1. CASE UNCHANGED hookVars
    BY <2>1 DEF hookVars, call, LoadingWhileWaiting
  <2> QED
    BY <1>1, <2>1, StartKeepsLoading DEF HandleSaveConfig
<1>2. CASE UNCHANGED hookVars
  BY <1>2 DEF hookVars, call, LoadingWhileWaiting
<1> QED
  BY <1>1, <1>2, WaitingKeepsLoading, EndStopsLoading
     DEF SaveNext, Saved, SaveFailed, TimerFires, saveVars

\* The button never starts a second save in the middle of one: its own status may have been reset
\* by the timer of an earlier save, but the hook's isLoading holds it back.
THEOREM SavesDoNotOverlap == SaveSpec => []OneSaveAtATime
<1>1. SaveInit => LoadingWhileWaiting
  BY HookInitLoading DEF SaveInit
<1>2. LoadingWhileWaiting => OneSaveAtATime
  BY DEF LoadingWhileWaiting, OneSaveAtATime, SaveOffered
<1> QED
  BY <1>1, <1>2, SaveStepLoading, PTL DEF SaveSpec

-----------------------------------------------------------------------------
(***************************************************************************)
(* The wizard                                                              *)
(***************************************************************************)

\* The presets, and what is entered, are settings.
SettingsTyped == selectedPreset \in DOMAIN Presets /\ customSettings \in Settings

\* What has been submitted stays what the page holds: nothing on the last step can be
\* changed while the hook is loading, and Back is disabled.
SubmittedIsHeld == isLoading => currentStep = "review" /\ request = Requested /\ Valid(request)

\* An executed transaction has brought the cluster what was submitted.
ExecutedIsStored == transaction = "executed" => ConfigData(request) \in queued \cup stored

\* The inductive invariant of the wizard.
WizardInv ==
    /\ LoadingWhileWaiting /\ DestinationsValid
    /\ SettingsTyped /\ SubmittedIsHeld /\ ExecutedIsStored

\* What the cluster gets of accepted settings is displayed as the settings are.
LEMMA StoredShows ==
    ASSUME SettingsTyped, Valid(Requested)
    PROVE  \A item \in DOMAIN ShownAs(ConfigData(Requested)) :
               ShownAs(ConfigData(Requested))[item] = Reviewed[item]
<1> DEFINE s == GetCurrentSettings
<1>1. s \in Settings
  <2>1. Presets[selectedPreset] \in Settings
    BY DEF SettingsTyped, Presets, InSeconds, Settings
  <2> QED
    BY <2>1 DEF GetCurrentSettings, SettingsTyped
<1>2. /\ Requested.settings = s /\ Requested.destinations = Cardinality(Given)
      /\ Requested.autoWithdraw = autoWithdrawEnabled
  BY DEF Requested, Config, GetCurrentSettings
<1>3. Accepted(s) /\ Cardinality(Given) \in 1..5
  BY <1>2 DEF Valid, MAX_DESTINATIONS
<1> HIDE DEF s
<1>4. /\ Decoded(Encoded(s.minDelaySeconds)) = s.minDelaySeconds
      /\ Decoded(Encoded(s.maxDelaySeconds)) = s.maxDelaySeconds
  BY <1>1, <1>3, EncodingLosesNothing
<1>5. s.minSplits \in 1..10 /\ s.maxSplits \in 1..10
  BY <1>1, <1>3 DEF Accepted, Settings, MAX_SPLITS
<1>6. s.minSplits % 256 = s.minSplits /\ s.maxSplits % 256 = s.maxSplits
  BY <1>5
<1>7. Cardinality(Given) % 256 = Cardinality(Given)
  BY <1>3
<1> DEFINE shown == ShownAs(ConfigData(Requested))
<1>8. shown = [destinations |-> Cardinality(Given),
               minSplits |-> s.minSplits, maxSplits |-> s.maxSplits,
               minDelay |-> FormatDuration(s.minDelaySeconds),
               maxDelay |-> FormatDuration(s.maxDelaySeconds),
               autoWithdraw |-> autoWithdrawEnabled]
  BY <1>2, <1>4, <1>6, <1>7 DEF ShownAs, ConfigData
<1>9. /\ Reviewed.destinations = Cardinality(Given)
      /\ Reviewed.minSplits = s.minSplits /\ Reviewed.maxSplits = s.maxSplits
      /\ Reviewed.minDelay = FormatDuration(s.minDelaySeconds)
      /\ Reviewed.maxDelay = FormatDuration(s.maxDelaySeconds)
      /\ Reviewed.autoWithdraw = autoWithdrawEnabled
  BY DEF Reviewed, s
<1> HIDE DEF shown
<1>10. DOMAIN shown = {"destinations", "minSplits", "maxSplits", "minDelay", "maxDelay", "autoWithdraw"}
  BY <1>8
<1>11. /\ shown["destinations"] = Reviewed["destinations"]
       /\ shown["minSplits"] = Reviewed["minSplits"] /\ shown["maxSplits"] = Reviewed["maxSplits"]
       /\ shown["minDelay"] = Reviewed["minDelay"] /\ shown["maxDelay"] = Reviewed["maxDelay"]
       /\ shown["autoWithdraw"] = Reviewed["autoWithdraw"]
  BY <1>8, <1>9
<1>12. \A item \in DOMAIN shown : shown[item] = Reviewed[item]
  BY <1>10, <1>11, Zenon
<1> QED
  BY <1>12 DEF shown

\* Which step follows and precedes which.
LEMMA StepsInOrder ==
    /\ After("destinations") = 2 /\ After("privacy") = 3 /\ After("auto-withdraw") = 4
    /\ Before("privacy") = 1 /\ Before("auto-withdraw") = 2 /\ Before("review") = 3
<1>1. /\ Steps[1] = "destinations" /\ Steps[2] = "privacy" /\ Steps[3] = "auto-withdraw"
      /\ Steps[4] = "review"
  BY DEF Steps
<1>2. \A k \in 2..4 : k = 2 \/ k = 3 \/ k = 4
  OBVIOUS
<1>3. \A k \in 1..3 : k = 1 \/ k = 2 \/ k = 3
  OBVIOUS
<1>4. After("destinations") = 2 /\ After("privacy") = 3 /\ After("auto-withdraw") = 4
  BY <1>1, <1>2 DEF After
<1>5. Before("privacy") = 1 /\ Before("auto-withdraw") = 2 /\ Before("review") = 3
  BY <1>1, <1>3 DEF Before
<1> QED
  BY <1>4, <1>5

\* Whether the list is valid is a matter of the inputs, not of the messages.
LEMMA ListValidKept == ASSUME UNCHANGED destinations PROVE ListValid' = ListValid
  BY DEF ListValid, Fields

\* The wizard starts on the first step, with nothing under way.
LEMMA WizardStarts == WizardInit => WizardInv
<1> SUFFICES ASSUME WizardInit PROVE WizardInv
  OBVIOUS
<1>1. LoadingWhileWaiting /\ DestinationsValid /\ SubmittedIsHeld /\ ExecutedIsStored
  BY HookInitLoading
     DEF WizardInit, HookInit, DestinationsValid, SubmittedIsHeld, ExecutedIsStored
<1>2. SettingsTyped
  BY DEF WizardInit, SettingsTyped, Presets, InSeconds, Settings
<1> QED
  BY <1>1, <1>2 DEF WizardInv

\* A step to another page of the wizard, with the hook idle, keeps the invariant if it
\* comes past the first page with valid destinations only.
LEMMA IdleKeepsInv ==
    ASSUME LoadingWhileWaiting', ~isLoading', SettingsTyped', ExecutedIsStored',
           currentStep' \notin {"destinations", "closed"} => ListValid'
    PROVE  WizardInv'
  BY DEF WizardInv, DestinationsValid, SubmittedIsHeld

\* A step that leaves the hook alone while it is idle.
LEMMA HookKept ==
    ASSUME WizardInv, ~isLoading \/ currentStep # "review", UNCHANGED hookVars
    PROVE  LoadingWhileWaiting' /\ ~isLoading' /\ ExecutedIsStored'
  BY DEF WizardInv, SubmittedIsHeld, LoadingWhileWaiting, ExecutedIsStored, hookVars, call, chain,
     ConfigData

\* What is selected and entered is settings.
LEMMA SettingsKept ==
    ASSUME SettingsTyped,
           \/ UNCHANGED settings
           \/ \E p \in DOMAIN Presets : SelectPreset(p)
           \/ CustomSettings
    PROVE  SettingsTyped'
<1>1. CASE UNCHANGED settings
  BY <1>1 DEF settings, SettingsTyped
<1>2. ASSUME NEW p \in DOMAIN Presets, SelectPreset(p) PROVE SettingsTyped'
  <2>1. Presets[p] \in Settings
    BY DEF Presets, InSeconds, Settings
  <2> QED
    BY <1>2, <2>1 DEF SelectPreset, SettingsTyped
<1>3. CASE CustomSettings
  BY <1>3, EnteredSettingsAssumption DEF CustomSettings, SettingsTyped
<1> QED
  BY <1>1, <1>2, <1>3

\* The chain and the cluster drop nothing that was executed.
LEMMA ChainKeeps ==
    ASSUME ExecutedIsStored, Waiting \/ OnChain
    PROVE  ExecutedIsStored'
<1>1. CASE FetchKey \/ Confirmed
  <2>1. UNCHANGED <<transaction, request, queued, stored>>
    BY <1>1 DEF FetchKey, Confirmed, chain
  <2> QED
    BY <2>1 DEF ExecutedIsStored, ConfigData
<1>2. CASE Send
  BY <1>2 DEF Send, ExecutedIsStored
<1>3. CASE Execute
  <2>1. UNCHANGED <<request, stored>> /\ queued \subseteq queued'
    BY <1>3 DEF Execute, call
  <2>2. UNCHANGED transaction \/ ConfigData(request) \in queued'
    BY <1>3 DEF Execute
  <2>3. ConfigData(request)' = ConfigData(request)
    BY <2>1 DEF ConfigData
  <2> QED
    BY <2>1, <2>2, <2>3 DEF ExecutedIsStored
<1>4. CASE Finalize
  <2>1. UNCHANGED <<request, transaction>> /\ queued \cup stored \subseteq queued' \cup stored'
    BY <1>4 DEF Finalize, call
  <2>2. ConfigData(request)' = ConfigData(request)
    BY <2>1 DEF ConfigData
  <2> QED
    BY <2>1, <2>2 DEF ExecutedIsStored
<1> QED
  BY <1>1, <1>2, <1>3, <1>4 DEF Waiting, OnChain

\* Every step of the wizard keeps the invariant.
LEMMA WizardSteps == WizardInv /\ [WizardNext]_wizardVars => WizardInv'
<1> SUFFICES ASSUME WizardInv, [WizardNext]_wizardVars PROVE WizardInv'
  OBVIOUS
<1>0. SettingsTyped
  BY DEF WizardInv
<1>1. CASE NextStep
  <2>1. UNCHANGED <<hookVars, destinations, settings>> /\ currentStep # "review"
    BY <1>1 DEF NextStep, ValidateDestinations, listVars
  <2>2. currentStep' \notin {"destinations", "closed"} => ListValid
    BY <1>1 DEF NextStep, WizardInv, DestinationsValid
  <2>3. SettingsTyped'
    BY <1>0, <2>1, SettingsKept
  <2> QED
    BY <2>1, <2>2, <2>3, HookKept, ListValidKept, IdleKeepsInv
<1>2. CASE PrevStep
  <2>1. UNCHANGED <<hookVars, destinations, settings>> /\ ~isLoading
    BY <1>2 DEF PrevStep, listVars
  <2>2. ListValid
    BY <1>2 DEF PrevStep, WizardInv, DestinationsValid
  <2>3. SettingsTyped'
    BY <1>0, <2>1, SettingsKept
  <2> QED
    BY <2>1, <2>2, <2>3, HookKept, ListValidKept, IdleKeepsInv
<1>3. CASE Cancel \/ EditDestinations
  <2>1. /\ UNCHANGED <<hookVars, settings>>
        /\ currentStep # "review" /\ currentStep' \in {"destinations", "closed"}
    BY <1>3 DEF Cancel, EditDestinations
  <2>2. SettingsTyped'
    BY <1>0, <2>1, SettingsKept
  <2> QED
    BY <2>1, <2>2, HookKept, IdleKeepsInv
<1>4. CASE (\E p \in DOMAIN Presets : SelectPreset(p)) \/ CustomSettings \/ AutoWithdraw
  <2>1. /\ UNCHANGED hookVars /\ UNCHANGED destinations /\ UNCHANGED currentStep
        /\ currentStep \in {"privacy", "auto-withdraw"}
    BY <1>4 DEF SelectPreset, CustomSettings, AutoWithdraw, listVars
  <2>2. ListValid
    BY <2>1 DEF WizardInv, DestinationsValid
  <2>3. SettingsTyped'
    <3>1. CASE AutoWithdraw
      <4>1. UNCHANGED settings
        BY <3>1 DEF AutoWithdraw
      <4> QED
        BY <1>0, <4>1, SettingsKept
    <3> QED
      BY <1>0, <1>4, <3>1, SettingsKept
  <2> QED
    BY <2>1, <2>2, <2>3, HookKept, ListValidKept, IdleKeepsInv
<1>5. CASE HandleSubmit
  <2>1. /\ UNCHANGED destinations /\ UNCHANGED <<settings, autoWithdraw>>
        /\ currentStep = "review" /\ ~isLoading /\ ListValid
    BY <1>5 DEF HandleSubmit, listVars, WizardInv, DestinationsValid
  <2>2. SettingsTyped'
    BY <1>0, <2>1, SettingsKept
  <2>3. CASE Refused(Requested) /\ UNCHANGED currentStep
    <3>1. UNCHANGED hookVars
      BY <2>3 DEF Refused
    <3> QED
      BY <2>1, <2>2, <3>1, HookKept, ListValidKept, IdleKeepsInv
  <2>4. CASE Mocked(Requested) /\ currentStep' = "closed"
    <3>1. UNCHANGED <<call, chain>>
      BY <2>4 DEF Mocked
    <3>2. LoadingWhileWaiting' /\ ~isLoading' /\ ExecutedIsStored'
      BY <2>1, <3>1
         DEF WizardInv, LoadingWhileWaiting, ExecutedIsStored, call, chain, ConfigData
    <3> QED
      BY <2>2, <2>4, <3>2, IdleKeepsInv
  <2>5. CASE Started(Requested) /\ UNCHANGED currentStep
    <3>1. LoadingWhileWaiting'
      BY <2>5, StartKeepsLoading DEF WizardInv
    <3>2. Requested' = Requested
      BY <2>1 DEF Requested, Given, Fields, settings, autoWithdraw
    <3>3. request' = Requested' /\ Valid(request)' /\ currentStep' = "review"
      BY <2>1, <2>5, <3>2 DEF Started, Valid
    <3>4. ExecutedIsStored'
      BY <2>5 DEF Started, ExecutedIsStored
    <3> QED
      BY <2>1, <2>2, <3>1, <3>3, <3>4, ListValidKept
         DEF WizardInv, DestinationsValid, SubmittedIsHeld
  <2> QED
    BY <1>5, <2>3, <2>4, <2>5 DEF HandleSubmit
<1>6. CASE Submitted
  <2>1. LoadingWhileWaiting' /\ ~isLoading'
    BY <1>6, EndStopsLoading DEF Submitted
  <2>2. UNCHANGED <<destinations, settings>> /\ currentStep' \in {currentStep, "closed"}
    BY <1>6 DEF Submitted, listVars
  <2>3. SettingsTyped'
    BY <1>0, <2>2, SettingsKept
  <2>4. ExecutedIsStored'
    BY <1>6 DEF Submitted, Returns, Throws, Leave, ExecutedIsStored
  <2> QED
    BY <2>1, <2>2, <2>3, <2>4, ListValidKept, IdleKeepsInv DEF WizardInv, DestinationsValid
<1>7. CASE Open
  <2>1. LoadingWhileWaiting' /\ ~isLoading' /\ currentStep' = "destinations"
    BY <1>7, EndStopsLoading DEF Open
  <2>2. SettingsTyped'
    <3>1. selectedPreset' = "medium" /\ customSettings' = Presets.medium
      BY <1>7 DEF Open
    <3>2. "medium" \in DOMAIN Presets /\ Presets.medium \in Settings
      BY DEF Presets, InSeconds, Settings
    <3> QED
      BY <3>1, <3>2, Zenon DEF SettingsTyped
  <2>3. ExecutedIsStored'
    BY <1>7 DEF Open, Reload, Leave, ExecutedIsStored
  <2> QED
    BY <2>1, <2>2, <2>3, IdleKeepsInv
<1>8. ASSUME Waiting \/ OnChain \/ UNCHANGED hookVars,
             UNCHANGED <<listVars, currentStep, settings, autoWithdraw>>
      PROVE  WizardInv'
  <2>1. LoadingWhileWaiting' /\ UNCHANGED <<isLoading, request>>
    BY <1>8, WaitingKeepsLoading DEF WizardInv, LoadingWhileWaiting, hookVars, call
  <2>2. Requested' = Requested /\ UNCHANGED destinations
    BY <1>8 DEF Requested, Given, Fields, settings, autoWithdraw, listVars
  <2>3. SettingsTyped'
    BY <1>0, <1>8, SettingsKept
  <2>4. ExecutedIsStored'
    <3>1. CASE UNCHANGED hookVars
      BY <3>1 DEF WizardInv, ExecutedIsStored, hookVars, call, chain, ConfigData
    <3> QED
      BY <1>8, <3>1, ChainKeeps DEF WizardInv
  <2>5. SubmittedIsHeld'
    BY <1>8, <2>1, <2>2 DEF WizardInv, SubmittedIsHeld, Valid
  <2> QED
    BY <1>8, <2>1, <2>2, <2>3, <2>4, <2>5, ListValidKept DEF WizardInv, DestinationsValid
<1> QED
  BY <1>1, <1>2, <1>3, <1>4, <1>5, <1>6, <1>7, <1>8 DEF WizardNext, wizardVars

\* However the four steps are walked back and forth, whatever the hook answers: past the
\* first one the list holds an address and nothing that is none.
THEOREM SubmittedDestinationsValid == WizardSpec => []DestinationsValid
<1>1. WizardInv => DestinationsValid
  BY DEF WizardInv
<1> QED
  BY <1>1, WizardStarts, WizardSteps, PTL DEF WizardSpec

\* While the wizard waits for the cluster, its last step displays what the cluster has got,
\* through the encoding of the delays and their display: whatever is entered, and however
\* calls that were given up are executed late.
THEOREM StoredIsShownAsReviewed == WizardSpec => []StoredShowsAsReviewed
<1>1. WizardInv => StoredShowsAsReviewed
  <2> SUFFICES ASSUME WizardInv, isLoading, transaction = "executed"
               PROVE  /\ currentStep = "review"
                      /\ \E d \in queued \cup stored :
                             \A item \in DOMAIN ShownAs(d) : ShownAs(d)[item] = Reviewed[item]
    BY DEF StoredShowsAsReviewed
  <2>1. currentStep = "review" /\ request = Requested /\ Valid(Requested)
    BY DEF WizardInv, SubmittedIsHeld
  <2>2. ConfigData(Requested) \in queued \cup stored
    BY <2>1 DEF WizardInv, ExecutedIsStored
  <2>3. \A item \in DOMAIN ShownAs(ConfigData(Requested)) :
            ShownAs(ConfigData(Requested))[item] = Reviewed[item]
    BY <2>1, StoredShows DEF WizardInv
  <2> QED
    BY <2>1, <2>2, <2>3
<1> QED
  BY <1>1, WizardStarts, WizardSteps, PTL DEF WizardSpec
=============================================================================
