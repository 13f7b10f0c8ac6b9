--------------------------- MODULE DelaySettings ---------------------------
(***************************************************************************)
(* The form of Default Claim Settings on the settings page                 *)
(* (app/settings/page.tsx).  The check and the encoding that its values    *)
(* meet on the way to the chain are the hook's (PrivacySettings).          *)
(*                                                                         *)
(* Two numbers of splits on a slider with two thumbs, two delays that are  *)
(* each a number and a unit, and three presets.  Every handler corrects    *)
(* the other bound; an effect that runs after each of them works out which *)
(* preset the values are, if any.                                          *)
(***************************************************************************)
EXTENDS PrivacySettings

CONSTANTS
    Positions,    \* positions of the slider that the mouse reaches
    Typed         \* numbers that are typed into a delay

ASSUME PositionsAssumption == Positions \subseteq 1..10
ASSUME TypedAssumption == Typed \subseteq Int

VARIABLES
    minSplits, maxSplits,    \* the thumbs of the slider
    dragging,                \* the thumbs being dragged
    minDelay, maxDelay,      \* [value, unit] as displayed
    preset                   \* the preset displayed, or "custom"

splits == <<minSplits, maxSplits>>
delays == <<minDelay, maxDelay>>
vars == <<minSplits, maxSplits, dragging, minDelay, maxDelay, preset>>

Units == {"mins", "hours", "days"}
Levels == {"low", "medium", "high"}

MIN_DELAY_GAP == 10    \* minutes

Preset(minS, maxS, minD, maxD) ==
    [minSplits |-> minS, maxSplits |-> maxS, minDelay |-> minD, maxDelay |-> maxD]

PRIVACY_PRESETS == [low    |-> Preset(1, 3, 1, 10),
                    medium |-> Preset(2, 5, 5, 30),
                    high   |-> Preset(3, 5, 120, 480)]

Least(a, b) == IF a < b THEN a ELSE b
Greatest(a, b) == IF a < b THEN b ELSE a
Distance(a, b) == IF a < b THEN b - a ELSE a - b

InUnit == [mins |-> 1, hours |-> 60, days |-> 1440]
Delay(value, unit) == [value |-> value, unit |-> unit]

\* Math.ceil of a quotient of positive numbers.
RoundedUp(m, d) == (m + d - 1) \div d

\* Minutes in the largest unit of which they make one; the rest is rounded.
FormatDelay(m) ==
    IF m >= 1440 THEN Delay(Rounded(m, 1440), "days")
    ELSE IF m >= 60 THEN Delay(Rounded(m, 60), "hours")
    ELSE Delay(m, "mins")

ToMinutes(d) == d.value * InUnit[d.unit]

Far(min, max) == ToMinutes(max) >= ToMinutes(min) + MIN_DELAY_GAP
\* The maximum that a minimum calls for.
Above(min) == FormatDelay(ToMinutes(min) + MIN_DELAY_GAP)

-----------------------------------------------------------------------------
(***************************************************************************)
(* Handlers                                                                *)
(***************************************************************************)

Matches(l, minS, maxS, minD, maxD) ==
    PRIVACY_PRESETS[l] = Preset(minS, maxS, ToMinutes(minD), ToMinutes(maxD))

\* The effect that follows every change.
MatchPreset ==
    \/ \E l \in Levels : Matches(l, minSplits', maxSplits', minDelay', maxDelay') /\ preset' = l
    \/ /\ \A l \in Levels : ~Matches(l, minSplits', maxSplits', minDelay', maxDelay')
       /\ preset' = "custom"

\* A click on the button of a preset.
ApplyPreset(l) ==
    /\ minSplits' = PRIVACY_PRESETS[l].minSplits
    /\ maxSplits' = PRIVACY_PRESETS[l].maxSplits
    /\ minDelay' = FormatDelay(PRIVACY_PRESETS[l].minDelay)
    /\ maxDelay' = FormatDelay(PRIVACY_PRESETS[l].maxDelay)
    /\ MatchPreset
    /\ UNCHANGED dragging

MoveMin(v) == minSplits' = Least(v, maxSplits) /\ UNCHANGED maxSplits
MoveMax(v) == maxSplits' = Greatest(v, minSplits) /\ UNCHANGED minSplits

\* A click moves the nearer thumb, the upper one when both are as near.
HandleSliderClick(v) ==
    /\ IF Distance(v, minSplits) < Distance(v, maxSplits) THEN MoveMin(v) ELSE MoveMax(v)
    /\ UNCHANGED <<dragging, delays>>
    /\ MatchPreset

MouseDown(thumb) ==
    /\ dragging' = dragging \cup {thumb}
    /\ UNCHANGED <<splits, delays, preset>>

HandleMouseMove(v) ==
    /\ dragging # {}
    /\ IF "min" \in dragging THEN MoveMin(v) ELSE MoveMax(v)
    /\ UNCHANGED <<dragging, delays>>
    /\ MatchPreset

\* The listeners are on the window while a thumb is dragged.
HandleMouseUp ==
    /\ dragging # {}
    /\ dragging' = {}
    /\ UNCHANGED <<splits, delays, preset>>

HandleMinDelayValueChange(n) ==
    LET new == Delay(Greatest(1, n), minDelay.unit)
    IN  /\ minDelay' = new
        /\ maxDelay' = IF Far(new, maxDelay) THEN maxDelay ELSE Above(new)
        /\ UNCHANGED <<splits, dragging>>
        /\ MatchPreset

\* To a larger unit than the maximum has, the maximum follows.
HandleMinDelayUnitChange(u) ==
    LET new == Delay(minDelay.value, u)
    IN  /\ minDelay' = new
        /\ maxDelay' = IF InUnit[u] > InUnit[maxDelay.unit] THEN Delay(minDelay.value + 1, u)
                       ELSE IF Far(new, maxDelay) THEN maxDelay
                       ELSE Above(new)
        /\ UNCHANGED <<splits, dragging>>
        /\ MatchPreset

HandleMaxDelayValueChange(n) ==
    LET new == Delay(Greatest(1, n), maxDelay.unit)
    IN  /\ maxDelay' = IF Far(minDelay, new) THEN new ELSE Above(minDelay)
        /\ UNCHANGED <<splits, dragging, minDelay>>
        /\ MatchPreset

\* Mutant: the value is rounded as the other handlers do.
HandleMaxDelayUnitChangeRounded(u) ==
    LET new == Delay(maxDelay.value, u)
        least == Rounded(ToMinutes(minDelay) + MIN_DELAY_GAP, InUnit[u])
    IN  /\ maxDelay' = IF Far(minDelay, new) THEN new ELSE Delay(least, u)
        /\ UNCHANGED <<splits, dragging, minDelay>>
        /\ MatchPreset

\* The unit is kept and the value corrected.
HandleMaxDelayUnitChange(u) ==
    LET new == Delay(maxDelay.value, u)
        least == RoundedUp(ToMinutes(minDelay) + MIN_DELAY_GAP, InUnit[u])
    IN  /\ maxDelay' = IF Far(minDelay, new) THEN new ELSE Delay(least, u)
        /\ UNCHANGED <<splits, dragging, minDelay>>
        /\ MatchPreset

-----------------------------------------------------------------------------
Init ==
    /\ minSplits = PRIVACY_PRESETS.medium.minSplits
    /\ maxSplits = PRIVACY_PRESETS.medium.maxSplits
    /\ dragging = {}
    /\ minDelay = Delay(5, "mins")
    /\ maxDelay = Delay(30, "mins")
    /\ preset = "medium"

Next ==
    \/ \E l \in Levels : ApplyPreset(l)
    \/ \E v \in Positions : HandleSliderClick(v) \/ HandleMouseMove(v)
    \/ \E thumb \in {"min", "max"} : MouseDown(thumb)
    \/ HandleMouseUp
    \/ \E n \in Typed : HandleMinDelayValueChange(n) \/ HandleMaxDelayValueChange(n)
    \/ \E u \in Units : HandleMinDelayUnitChange(u) \/ HandleMaxDelayUnitChange(u)

Spec == Init /\ [][Next]_vars

-----------------------------------------------------------------------------
(***************************************************************************)
(* Properties                                                              *)
(***************************************************************************)

\* A delay as the form can show it.
Delays == [value : Nat \ {0}, unit : Units]

\* Every variable holds a value of its type.
TypeOK ==
    /\ minSplits \in Int /\ maxSplits \in Int
    /\ dragging \subseteq {"min", "max"}
    /\ minDelay \in Delays /\ maxDelay \in Delays
    /\ preset \in Levels \cup {"custom"}

\* Whatever is clicked, dragged past the other thumb or dropped, and in whatever order,
\* the splits are a range that validateConfig and the circuits accept.
SplitsValid == 1 <= minSplits /\ minSplits <= maxSplits /\ maxSplits <= MAX_SPLITS

\* The preset that is applied is the one displayed: its delays survive the conversion
\* to the units of the form and back, or the effect would change it to custom.
PresetSticks == [][\A l \in Levels : ApplyPreset(l) => preset' = l]_vars

\* A change of the maximum's unit leaves the gap, from every state the other handlers
\* reach.
MaxUnitKeepsGap ==
    [][\A u \in Units : HandleMaxDelayUnitChange(u) => Far(minDelay, maxDelay')]_vars
=============================================================================
