---------------------------- MODULE DomainCustody ----------------------------
(***************************************************************************)
(* What the vault lifecycle of the program promises about an SNS name, with *)
(* no accounts, balances or policies: a name may have a keeper, and the     *)
(* keeper may hold it in custody.  While it is held nobody but its keeper's *)
(* custodian moves it, and the keeper neither changes nor is forgotten.     *)
(***************************************************************************)
CONSTANTS
    Names,          \* SNS names
    Users,          \* keys that can sign
    Nobody,         \* the keeper of a name that has none
    Keys,           \* every key a name can be registered to
    Custodian(_)    \* the key a name in custody is registered to

VARIABLES
    registered,     \* registered[n]: the key n is registered to
    keeper,         \* keeper[n]: the user for whom n is or may be held
    held            \* held[n]: whether n is in custody

vars == <<registered, keeper, held>>

Init ==
    /\ registered \in [Names -> Users]
    /\ keeper = [n \in Names |-> Nobody]
    /\ held = [n \in Names |-> FALSE]

\* A name that is not held moves to any key, at the wish of the user it is
\* registered to.
Move(n, to) ==
    /\ ~held[n]
    /\ registered[n] \in Users
    /\ registered' = [registered EXCEPT ![n] = to]
    /\ UNCHANGED <<keeper, held>>

\* The user a name is registered to becomes its keeper, in place of another.
Enter(n, u) ==
    /\ ~held[n]
    /\ registered[n] = u
    /\ keeper' = [keeper EXCEPT ![n] = u]
    /\ UNCHANGED <<registered, held>>

\* A keeper that holds nothing leaves.
Leave(n) ==
    /\ ~held[n]
    /\ keeper[n] # Nobody
    /\ keeper' = [keeper EXCEPT ![n] = Nobody]
    /\ UNCHANGED <<registered, held>>

\* A name registered to its custodian is held for its keeper.
Admit(n) ==
    /\ ~held[n]
    /\ keeper[n] # Nobody
    /\ registered[n] = Custodian(n)
    /\ held' = [held EXCEPT ![n] = TRUE]
    /\ UNCHANGED <<registered, keeper>>

\* The custodian hands the name over.
Release(n, to) ==
    /\ held[n]
    /\ registered[n] = Custodian(n)
    /\ registered' = [registered EXCEPT ![n] = to]
    /\ held' = [held EXCEPT ![n] = FALSE]
    /\ UNCHANGED keeper

Step(n) ==
    \/ \E to \in Keys : Move(n, to) \/ Release(n, to)
    \/ \E u \in Users : Enter(n, u)
    \/ Leave(n)
    \/ Admit(n)

Next == \E n \in Names : Step(n)

Spec == Init /\ [][Next]_vars
=============================================================================
