--------------------------- MODULE DestinationList ---------------------------
(***************************************************************************)
(* The list of destination wallets, which the settings page                *)
(* (app/settings/page.tsx) and the wizard (PrivateConfigSetup.tsx) each    *)
(* hold a copy of the code of.  They differ in one thing: the wizard keeps *)
(* the errors where they are when a destination is removed.                *)
(*                                                                         *)
(* The errors are a JavaScript array with holes, a function on the indices *)
(* that hold an element.  Copying it with a spread fills the holes;        *)
(* Array.filter drops them and moves up what follows.                      *)
(***************************************************************************)
EXTENDS Naturals, Sequences, SequencesExt, FiniteSets

CONSTANTS
    MaxDestinations,    \* 5 in the code
    ErrorsMove          \* TRUE: removing a destination removes its error (settings page)

ASSUME MaxDestinationsAssumption == MaxDestinations \in Nat \ {0}
ASSUME ErrorsMoveAssumption == ErrorsMove \in BOOLEAN

VARIABLES
    destinations,        \* the inputs: nothing, an address, or something else
    destinationErrors    \* the message under an input, by index

listVars == <<destinations, destinationErrors>>

Inputs == {"", "address", "other"}

Fields == 1..Len(destinations)
\* The message displayed under field i; an element may be empty or undefined.
ErrorAt(i) == IF i \in DOMAIN destinationErrors THEN destinationErrors[i] ELSE ""

-----------------------------------------------------------------------------
AddDestination ==
    /\ Len(destinations) < MaxDestinations
    /\ destinations' = Append(destinations, "")
    /\ UNCHANGED destinationErrors

\* errors.filter((_, j) => j !== i): what is left, each at its place among them.
Filtered(i) ==
    LET left == DOMAIN destinationErrors \ {i}
        place(j) == Cardinality({l \in left : l <= j})
    IN  [k \in {place(j) : j \in left} |-> destinationErrors[CHOOSE j \in left : place(j) = k]]

RemoveDestination(i) ==
    /\ Len(destinations) > 1 /\ i \in Fields
    /\ destinations' = RemoveAt(destinations, i)
    /\ destinationErrors' = IF ErrorsMove THEN Filtered(i) ELSE destinationErrors

\* [...errors], and an empty message for the field.
Cleared(i) ==
    LET spread == UNION {1..j : j \in DOMAIN destinationErrors}
    IN  [j \in spread \cup {i} |-> IF j = i THEN "" ELSE ErrorAt(j)]

UpdateDestination(i, input) ==
    /\ i \in Fields
    /\ destinations' = [destinations EXCEPT ![i] = input]
    /\ destinationErrors' = Cleared(i)

\* The inputs are an address at least, and nothing that is none.
ListValid ==
    /\ \E i \in Fields : destinations[i] = "address"
    /\ \A i \in Fields : destinations[i] # "other"

\* The fields whose addresses are handed over.
Given == {i \in Fields : destinations[i] # ""}

Faults == {i \in Fields : destinations[i] = "other"}
NoneGiven == \A i \in Fields : destinations[i] = ""

\* The messages of validateDestinations; the first field's `At least one destination
\* required' is overwritten at once.
Validated ==
    IF NoneGiven THEN [i \in {1} |-> "Required"]
    ELSE [i \in Faults |-> "Invalid"]

ValidateDestinations ==
    /\ destinationErrors' = Validated
    /\ UNCHANGED destinations

-----------------------------------------------------------------------------
ListInit ==
    /\ destinations = <<"">>
    /\ destinationErrors = <<>>

Edit ==
    \/ AddDestination
    \/ \E i \in Fields : RemoveDestination(i)
    \/ \E i \in Fields, input \in Inputs : UpdateDestination(i, input)

-----------------------------------------------------------------------------
(***************************************************************************)
(* Properties                                                              *)
(***************************************************************************)

\* Every variable holds a value of its type; there is a field, and no message beyond the
\* fields that there were.
ListTypeOK ==
    /\ destinations \in UNION {[1..n -> Inputs] : n \in 1..MaxDestinations}
    /\ DOMAIN destinationErrors \subseteq 1..MaxDestinations
    /\ \A i \in DOMAIN destinationErrors : destinationErrors[i] \in {"", "Required", "Invalid"}
=============================================================================
