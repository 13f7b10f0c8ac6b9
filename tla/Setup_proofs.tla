---------------------------- MODULE Setup_proofs ----------------------------
(***************************************************************************)
(* Proofs about setting up a vault in the app, for any wallets, number of  *)
(* names, levels of privacy and bounds: the setup page (SetupWizard) keeps *)
(* its types and announces a vault only where the program has one, and the *)
(* form that registers a name on devnet (DomainRegistration) displays what *)
(* it registers.                                                           *)
(*                                                                         *)
(* Both stand on the hook useSnsDomains (SnsDomains), whose answers come   *)
(* late and for whichever wallet they were asked for.                      *)
(***************************************************************************)
EXTENDS SetupWizard, DomainRegistration, SumTheorems, SequenceTheorems

-----------------------------------------------------------------------------
(***************************************************************************)
(* The list of destinations                                                *)
(***************************************************************************)

\* What the type of the destinations says of them as a sequence.
LEMMA DestinationsAreASequence ==
    ASSUME NEW s
    PROVE  s \in UNION {[1..n -> Inputs] : n \in 1..MaxDestinations}
           <=> s \in Seq(Inputs) /\ Len(s) \in 1..MaxDestinations
<1>1. MaxDestinations \in Nat
  BY MaxDestinationsAssumption
<1>2. ASSUME NEW n \in 1..MaxDestinations, s \in [1..n -> Inputs]
      PROVE  s \in Seq(Inputs) /\ Len(s) \in 1..MaxDestinations
  BY <1>1, <1>2
<1>3. ASSUME s \in Seq(Inputs), Len(s) \in 1..MaxDestinations
      PROVE  s \in UNION {[1..n -> Inputs] : n \in 1..MaxDestinations}
  <2>1. s \in [1..Len(s) -> Inputs]
    BY <1>3
  <2> QED
    BY <1>3, <2>1, Zenon
<1> QED
  BY <1>2, <1>3

\* The type of the messages.
ErrorsTyped(errors) ==
    /\ DOMAIN errors \subseteq 1..MaxDestinations
    /\ \A i \in DOMAIN errors : errors[i] \in {"", "Required", "Invalid"}

\* The list as the type invariant has it, on sequences.
LEMMA ListTypes ==
    ListTypeOK <=> /\ destinations \in Seq(Inputs) /\ Len(destinations) \in 1..MaxDestinations
                   /\ ErrorsTyped(destinationErrors)
  BY DestinationsAreASequence DEF ListTypeOK, ErrorsTyped

\* The same after a step.
LEMMA ListTypesNext ==
    ListTypeOK' <=> /\ destinations' \in Seq(Inputs) /\ Len(destinations') \in 1..MaxDestinations
                    /\ ErrorsTyped(destinationErrors')
  BY DestinationsAreASequence DEF ListTypeOK, ErrorsTyped

\* Array.filter moves messages up, and makes none.
LEMMA FilteredTyped ==
    ASSUME ListTypeOK, NEW i
    PROVE  ErrorsTyped(Filtered(i))
<1> DEFINE left == DOMAIN destinationErrors \ {i}
           place(j) == Cardinality({l \in left : l <= j})
           from(k) == CHOOSE j \in left : place(j) = k
<1>1. MaxDestinations \in Nat
  BY MaxDestinationsAssumption
<1>2. left \subseteq 1..MaxDestinations
  BY DEF ListTypeOK
<1>3. ASSUME NEW j \in left PROVE place(j) \in 1..MaxDestinations
  <2> DEFINE upTo == {l \in left : l <= j}
  <2>1. IsFiniteSet(1..MaxDestinations) /\ Cardinality(1..MaxDestinations) = MaxDestinations
    BY <1>1, FS_Interval
  <2>3. j \in upTo /\ upTo \subseteq 1..MaxDestinations
    BY <1>2, <1>3
  <2> HIDE DEF upTo
  <2>2. IsFiniteSet(upTo) /\ Cardinality(upTo) <= MaxDestinations
    BY <2>1, <2>3, FS_Subset
  <2>4. Cardinality(upTo) \in Nat /\ Cardinality(upTo) # 0
    BY <2>2, <2>3, FS_CardinalityType, FS_EmptySet
  <2> QED
    BY <1>1, <2>2, <2>4 DEF upTo
<1> HIDE DEF place
<1>4. ASSUME NEW k \in {place(j) : j \in left} PROVE from(k) \in left
  BY <1>4, Zenon
<1> HIDE DEF from
<1>5. \A k \in {place(j) : j \in left} : destinationErrors[from(k)] \in {"", "Required", "Invalid"}
  BY <1>4 DEF ListTypeOK
<1>6. Filtered(i) = [k \in {place(j) : j \in left} |-> destinationErrors[from(k)]]
  BY Zenon DEF Filtered, place, from
<1> HIDE DEF left
<1>7. DOMAIN Filtered(i) = {place(j) : j \in left}
  BY <1>6
<1>8. \A k \in DOMAIN Filtered(i) : Filtered(i)[k] = destinationErrors[from(k)]
  BY <1>6, <1>7, Zenon
<1> QED
  BY <1>3, <1>5, <1>7, <1>8, Zenon DEF ErrorsTyped

\* Editing keeps the type of the list.
LEMMA EditTyped == ASSUME ListTypeOK, Edit PROVE ListTypeOK'
<1>1. /\ destinations \in Seq(Inputs) /\ Len(destinations) \in 1..MaxDestinations
      /\ ErrorsTyped(destinationErrors) /\ MaxDestinations \in Nat
  BY ListTypes, MaxDestinationsAssumption
<1>2. CASE AddDestination
  <2>1. destinations' \in Seq(Inputs) /\ Len(destinations') = Len(destinations) + 1
    <3>1. "" \in Inputs /\ destinations' = Append(destinations, "")
      BY <1>2 DEF AddDestination, Inputs
    <3> QED
      BY <1>1, <3>1, AppendProperties
  <2>2. Len(destinations') \in 1..MaxDestinations
    <3>1. Len(destinations) < MaxDestinations
      BY <1>2 DEF AddDestination
    <3> QED
      BY <1>1, <2>1, <3>1
  <2>3. ErrorsTyped(destinationErrors')
    BY <1>1, <1>2 DEF AddDestination, ErrorsTyped
  <2> QED
    BY <2>1, <2>2, <2>3, ListTypesNext
<1>3. ASSUME NEW i \in Fields, RemoveDestination(i) PROVE ListTypeOK'
  <2> DEFINE before == SubSeq(destinations, 1, i - 1)
             after == SubSeq(destinations, i + 1, Len(destinations))
  <2>1. i \in 1..Len(destinations) /\ Len(destinations) > 1
    BY <1>3 DEF Fields, RemoveDestination
  <2>2. before \in Seq(Inputs) /\ Len(before) = i - 1
    BY <1>1, <2>1, SubSeqProperties
  <2>3. after \in Seq(Inputs) /\ Len(after) = Len(destinations) - i
    BY <1>1, <2>1, SubSeqProperties
  <2>4. destinations' = before \o after
    BY <1>3 DEF RemoveDestination, RemoveAt
  <2> HIDE DEF before, after
  <2>5. destinations' \in Seq(Inputs) /\ Len(destinations') = Len(destinations) - 1
    BY <1>1, <2>1, <2>2, <2>3, <2>4, ConcatProperties
  <2>6. ErrorsTyped(destinationErrors')
    BY <1>1, <1>3, FilteredTyped DEF RemoveDestination
  <2> QED
    BY <1>1, <2>1, <2>5, <2>6, ListTypesNext
<1>4. ASSUME NEW i \in Fields, NEW input \in Inputs, UpdateDestination(i, input) PROVE ListTypeOK'
  <2>1. destinations' \in Seq(Inputs) /\ Len(destinations') = Len(destinations)
    BY <1>1, <1>4 DEF UpdateDestination, Fields
  <2> DEFINE spread == UNION {1..j : j \in DOMAIN destinationErrors}
  <2>2. spread \subseteq 1..MaxDestinations
    <3>1. DOMAIN destinationErrors \subseteq 1..MaxDestinations
      BY <1>1 DEF ErrorsTyped
    <3>2. \A j \in 1..MaxDestinations : 1..j \subseteq 1..MaxDestinations
      BY <1>1
    <3> QED
      BY <3>1, <3>2, Zenon
  <2>3. i \in 1..MaxDestinations
    BY <1>1 DEF Fields
  <2>4. \A j : ErrorAt(j) \in {"", "Required", "Invalid"}
    BY <1>1 DEF ErrorAt, ErrorsTyped
  <2>5. destinationErrors' = [j \in spread \cup {i} |-> IF j = i THEN "" ELSE ErrorAt(j)]
    BY <1>4 DEF UpdateDestination, Cleared
  <2> HIDE DEF spread
  <2>6. ErrorsTyped(destinationErrors')
    BY <2>2, <2>3, <2>4, <2>5 DEF ErrorsTyped
  <2> QED
    BY <1>1, <2>1, <2>6, ListTypesNext
<1> QED
  BY <1>2, <1>3, <1>4 DEF Edit

\* Validating gives messages to fields that there are.
LEMMA ValidationTyped == ASSUME ListTypeOK, ValidateDestinations PROVE ListTypeOK'
<1>1. /\ destinations \in Seq(Inputs) /\ Len(destinations) \in 1..MaxDestinations
      /\ MaxDestinations \in Nat \ {0}
  BY ListTypes, MaxDestinationsAssumption
<1>2. ErrorsTyped(Validated)
  <2>1. CASE NoneGiven
    <3>1. Validated = [i \in {1} |-> "Required"]
      BY <2>1 DEF Validated
    <3> QED
      BY <1>1, <3>1 DEF ErrorsTyped
  <2>2. CASE ~NoneGiven
    <3>1. Validated = [i \in Faults |-> "Invalid"] /\ Faults \subseteq 1..MaxDestinations
      BY <1>1, <2>2 DEF Validated, Faults, Fields
    <3> QED
      BY <3>1 DEF ErrorsTyped
  <2> QED
    BY <2>1, <2>2
<1> QED
  BY <1>1, <1>2, ListTypesNext DEF ValidateDestinations

\* The list starts with one empty field.
LEMMA ListStartsTyped == ListInit => ListTypeOK
<1> SUFFICES ASSUME ListInit PROVE ListTypeOK
  OBVIOUS
<1>1. destinations \in Seq(Inputs) /\ Len(destinations) = 1
  <2>1. "" \in Inputs /\ destinations = <<"">>
    BY DEF ListInit, Inputs
  <2>2. \A x \in Inputs : <<x>> \in Seq(Inputs) /\ Len(<<x>>) = 1
    OBVIOUS
  <2> QED
    BY <2>1, <2>2
<1>2. ErrorsTyped(destinationErrors)
  <2>1. destinationErrors = << >>
    BY DEF ListInit
  <2>2. DOMAIN destinationErrors = {}
    BY <2>1
  <2> QED
    BY <2>2 DEF ErrorsTyped
<1> QED
  BY <1>1, <1>2, ListTypes, MaxDestinationsAssumption

-----------------------------------------------------------------------------
(***************************************************************************)
(* The hook useSnsDomains                                                  *)
(***************************************************************************)

\* A request keeps the hook's types, for whichever wallet it is.
LEMMA RequestTyped ==
    ASSUME DomainsTypeOK, NEW w \in Wallets \cup {NoWallet}, FetchDomains(w),
           wallet' \in Wallets \cup {NoWallet}, UNCHANGED sns
    PROVE  DomainsTypeOK'
<1>1. CASE w = NoWallet
  BY <1>1 DEF FetchDomains, DomainsTypeOK, sns
<1>2. CASE w # NoWallet
  <2>1. fetching[w] \in 0..MaxFetches /\ fetching[w] < MaxFetches
    BY <1>2 DEF FetchDomains, DomainsTypeOK
  <2>2. fetching[w] + 1 \in 0..MaxFetches
    BY <2>1, MaxFetchesAssumption
  <2>3. fetching' \in [Wallets -> 0..MaxFetches]
    BY <1>2, <2>2 DEF FetchDomains, DomainsTypeOK
  <2> QED
    BY <1>2, <2>3 DEF FetchDomains, DomainsTypeOK, sns
<1> QED
  BY <1>1, <1>2

\* So does an answer: it names some of what the wallet owns.
LEMMA AnswerTyped ==
    ASSUME DomainsTypeOK, NEW w \in Wallets, Fetched(w)
    PROVE  DomainsTypeOK'
<1>1. PICK a \in Answers(w) :
        /\ domains' = a.names
        /\ primaryDomain' = IF a.primary \in a.names THEN a.primary ELSE NoName
        /\ failed' = (a.names # Owned(w))
  BY DEF Fetched
<1>2. a.names \subseteq Names
  BY <1>1 DEF Answers, DevnetAnswers, MainnetAnswers, Owned
<1>3. fetching' \in [Wallets -> 0..MaxFetches]
  <2>1. fetching[w] \in 0..MaxFetches /\ fetching[w] > 0
    BY DEF Fetched, DomainsTypeOK
  <2>2. fetching[w] - 1 \in 0..MaxFetches
    BY <2>1, MaxFetchesAssumption
  <2> QED
    BY <2>2 DEF Fetched, DomainsTypeOK
<1>4. primaryDomain' \in Names \cup {NoName} /\ failed' \in BOOLEAN
  BY <1>1, <1>2
<1> QED
  BY <1>1, <1>2, <1>3, <1>4 DEF Fetched, DomainsTypeOK, sns

\* And a change of the wallet, with the request that the effect makes.
LEMMA WalletChangeTyped == ASSUME DomainsTypeOK, WalletChanges PROVE DomainsTypeOK'
  BY RequestTyped DEF WalletChanges

\* A step that leaves the hook alone.
LEMMA DomainsKept == ASSUME DomainsTypeOK, UNCHANGED domainsVars PROVE DomainsTypeOK'
  BY DEF DomainsTypeOK, domainsVars, sns, shown

\* The hook starts without a wallet, and with nothing under way.
LEMMA DomainsStartTyped == DomainsInit => DomainsTypeOK
<1> SUFFICES ASSUME DomainsInit PROVE DomainsTypeOK
  OBVIOUS
<1>1. 0 \in 0..MaxFetches
  BY MaxFetchesAssumption
<1>2. fetching \in [Wallets -> 0..MaxFetches]
  BY <1>1 DEF DomainsInit
<1> QED
  BY <1>2 DEF DomainsInit, DomainsTypeOK

-----------------------------------------------------------------------------
(***************************************************************************)
(* The setup page                                                          *)
(***************************************************************************)

\* The name of a verification and of a creation is one, or none.
NamesTyped ==
    /\ verification.name \in Names \cup {NoName}
    /\ creating.name \in Names \cup {NoName}

\* A verification that is under way finds the page where it left it.
VerifiedOnFirstPage == verification # NoVerification => step = "domain"

\* A vault is created for the name the page holds, or for none: while it is created, or
\* once it has been, the answer of a late fetch selects a name only where there is none.
CreatingTheName ==
    /\ stage # "idle" => creating.name \in {NoName, GetDomainName}
    /\ stage \in {"signing", "status", "height", "fetching"} => creating.name # NoName

\* An executed transaction has left a vault, and the last fetch comes after one.
ExecutedMeansVault ==
    transaction = "executed" \/ stage = "fetching" => creating.name \in Names /\ vaults[creating.name] # NoVault

\* The announced name is one, and has a vault.
AnnouncedHasVault == step = "complete" => GetDomainName \in Names /\ CompleteMeansVault

\* The inductive invariant of the page.
SetupInv ==
    /\ TypeOK /\ NamesTyped /\ VerifiedOnFirstPage /\ CreatingTheName /\ ExecutedMeansVault
    /\ AnnouncedHasVault

\* No name is none.
LEMMA NoNameIsNone == NoName \notin Names
  BY LastNameAssumption DEF Names, NoName

\* What is displayed and entered is a name or none.
LEMMA NameOfThePage == TypeOK => GetDomainName \in Names \cup {NoName}
  BY DEF TypeOK, GetDomainName

\* The effect selects nothing but names, and leaves a selected name alone.
LEMMA SelectedTyped ==
    ASSUME TypeOK, NEW names \in SUBSET Names, NEW p \in Names \cup {NoName}
    PROVE  /\ AutoSelect(names, p) \in Names \cup {NoName}
           /\ selectedDomain # NoName => AutoSelect(names, p) = selectedDomain
<1>1. CASE selectedDomain # NoName \/ names = {} \/ p # NoName
  BY <1>1 DEF AutoSelect, TypeOK
<1>2. CASE selectedDomain = NoName /\ names # {} /\ p = NoName
  <2>1. AutoSelect(names, p) = CHOOSE n \in names : \A o \in names : n <= o
    BY <1>2 DEF AutoSelect
  <2>2. names \subseteq Nat
    BY LastNameAssumption DEF Names
  <2>3. \E n \in names : \A o \in names : n <= o
    BY <1>2, <2>2, LeastNatural
  <2> QED
    BY <1>2, <2>1, <2>3, Zenon
<1> QED
  BY <1>1, <1>2

\* Initially the page holds nothing.
LEMMA SetupStarts == Init => SetupInv
<1> SUFFICES ASSUME Init PROVE SetupInv
  OBVIOUS
<1>1. DomainsTypeOK /\ ListTypeOK
  BY DomainsStartTyped, ListStartsTyped DEF Init
<1>2. TypeOK
  BY <1>1, LevelsAssumption DEF Init, TypeOK, Policies
<1> QED
  BY <1>2 DEF SetupInv, Init, NamesTyped, NoVerification, VerifiedOnFirstPage, CreatingTheName,
     ExecutedMeansVault, AnnouncedHasVault

\* A step that keeps what the rest of the invariant is about: nothing is created or
\* announced after it that was not before, for the same name.
LEMMA CreationKept ==
    ASSUME SetupInv, UNCHANGED creation, TypeOK', NamesTyped', VerifiedOnFirstPage',
           stage # "idle" \/ step' = "complete" =>
               GetDomainName' = GetDomainName \/ GetDomainName = NoName,
           step' = "complete" => step = "complete"
    PROVE  SetupInv'
<1>1. CreatingTheName'
  BY DEF SetupInv, CreatingTheName, creation
<1>2. ExecutedMeansVault'
  BY DEF SetupInv, ExecutedMeansVault, creation
<1>3. AnnouncedHasVault'
  <2> SUFFICES ASSUME step' = "complete"
               PROVE  GetDomainName' \in Names /\ vaults'[GetDomainName'] # NoVault
    BY DEF AnnouncedHasVault, CompleteMeansVault, Announced
  <2>1. GetDomainName \in Names /\ vaults[GetDomainName] # NoVault
    BY DEF SetupInv, AnnouncedHasVault, CompleteMeansVault, Announced
  <2>2. GetDomainName' = GetDomainName
    BY <2>1, NoNameIsNone
  <2> QED
    BY <2>1, <2>2 DEF creation
<1> QED
  BY <1>1, <1>2, <1>3 DEF SetupInv

\* The hook's answer, and its requests.
LEMMA DomainsAnsweredKeeps == ASSUME SetupInv, DomainsAnswered PROVE SetupInv'
<1>1. TypeOK /\ DomainsTypeOK
  BY DEF SetupInv, TypeOK
<1>2. DomainsTypeOK'
  BY <1>1, AnswerTyped DEF DomainsAnswered
<1>3. /\ selectedDomain' \in Names \cup {NoName}
      /\ selectedDomain # NoName => selectedDomain' = selectedDomain
  <2>1. domains' \in SUBSET Names /\ primaryDomain' \in Names \cup {NoName}
    BY <1>2 DEF DomainsTypeOK
  <2>2. selectedDomain' = AutoSelect(domains', primaryDomain')
    BY DEF DomainsAnswered
  <2> QED
    BY <1>1, <2>1, <2>2, SelectedTyped
<1>4. UNCHANGED <<listVars, testMode, step, manualDomain, useManualEntry, verification, policy,
                  pageError, creation>>
  BY DEF DomainsAnswered
<1>5. TypeOK'
  BY <1>1, <1>2, <1>3, <1>4 DEF TypeOK, ListTypeOK, listVars, creation
<1>6. GetDomainName' = GetDomainName \/ GetDomainName = NoName
  BY <1>3, <1>4 DEF GetDomainName
<1>7. NamesTyped' /\ VerifiedOnFirstPage'
  BY <1>4 DEF SetupInv, NamesTyped, VerifiedOnFirstPage, creation
<1> QED
  BY <1>4, <1>5, <1>6, <1>7, CreationKept

\* Asking for the domains changes nothing else.
LEMMA DomainsRequestedKeeps == ASSUME SetupInv, DomainsRequested PROVE SetupInv'
<1>1. TypeOK /\ DomainsTypeOK
  BY DEF SetupInv, TypeOK
<1>2. DomainsTypeOK'
  <2>1. CASE WalletChanges
    BY <1>1, <2>1, WalletChangeTyped
  <2>2. CASE Refetch
    <3>1. wallet \in Wallets \cup {NoWallet} /\ UNCHANGED <<wallet, sns>>
      BY <1>1, <2>2 DEF DomainsTypeOK, Refetch
    <3> QED
      BY <1>1, <2>2, <3>1, RequestTyped DEF Refetch
  <2> QED
    BY <2>1, <2>2 DEF DomainsRequested
<1>3. UNCHANGED <<listVars, testMode, step, naming, policy, pageError, creation>>
  BY DEF DomainsRequested
<1>4. TypeOK' /\ GetDomainName' = GetDomainName
  BY <1>1, <1>2, <1>3 DEF TypeOK, ListTypeOK, listVars, creation, naming, GetDomainName
<1>5. NamesTyped' /\ VerifiedOnFirstPage'
  BY <1>3 DEF SetupInv, NamesTyped, VerifiedOnFirstPage, creation, naming
<1> QED
  BY <1>3, <1>4, <1>5, CreationKept

\* A handler of a page other than the last two: nothing is created or announced there.
LEMMA NothingUnderWay ==
    ASSUME SetupInv, UNCHANGED creation, TypeOK', NamesTyped', VerifiedOnFirstPage',
           step \notin {"processing", "complete"}, step' # "complete"
    PROVE  SetupInv'
<1>1. stage = "idle"
  BY DEF SetupInv, TypeOK
<1> QED
  BY <1>1, CreationKept

\* Choosing, entering, submitting and verifying a name.
LEMMA NamingKeeps ==
    ASSUME SetupInv, ChooseDomain \/ EnterDomain \/ HandleDomainSubmit \/ Verified
    PROVE  SetupInv'
<1>1. /\ TypeOK /\ NamesTyped /\ VerifiedOnFirstPage
      /\ UNCHANGED <<domainsVars, listVars, testMode, policy, creation>>
  BY DEF SetupInv, ChooseDomain, EnterDomain, HandleDomainSubmit, Verified
<1>2. DomainsTypeOK' /\ ListTypeOK'
  BY <1>1, DomainsKept DEF TypeOK, ListTypeOK, listVars
<1>3. step = "domain" /\ stage = "idle"
  BY <1>1 DEF TypeOK, VerifiedOnFirstPage, Shown, ChooseDomain, EnterDomain, HandleDomainSubmit,
     Verified
<1>4. /\ selectedDomain' \in Names \cup {NoName} /\ manualDomain' \in Names \cup {NoName}
      /\ useManualEntry' \in BOOLEAN
  BY <1>1 DEF TypeOK, DomainsTypeOK, ChooseDomain, EnterDomain, HandleDomainSubmit, Verified
<1>5. step' \in {"domain", "destinations"} /\ pageError' \in {"none", "expired", "other"}
  BY <1>1, <1>3 DEF TypeOK, ChooseDomain, EnterDomain, HandleDomainSubmit, Verified
<1>6. TypeOK'
  BY <1>1, <1>2, <1>3, <1>4, <1>5 DEF TypeOK, creation
<1>7. verification'.name \in Names \cup {NoName} /\ VerifiedOnFirstPage'
  <2>1. CASE ChooseDomain \/ EnterDomain
    BY <1>1, <2>1 DEF ChooseDomain, EnterDomain, NamesTyped, VerifiedOnFirstPage
  <2>2. CASE HandleDomainSubmit
    BY <1>1, <1>3, <2>2, NameOfThePage
       DEF HandleDomainSubmit, NamesTyped, VerifiedOnFirstPage, ContinueOffered
  <2>3. CASE Verified
    BY <2>3 DEF Verified, NoVerification, VerifiedOnFirstPage
  <2> QED
    BY <2>1, <2>2, <2>3
<1>8. NamesTyped'
  BY <1>1, <1>7 DEF NamesTyped, creation
<1> QED
  BY <1>1, <1>3, <1>5, <1>6, <1>7, <1>8, NothingUnderWay

\* The pages of the destinations, of the privacy settings and of the confirmation.
LEMMA PagesKeep ==
    ASSUME SetupInv,
           \/ EditDestinations \/ UseConnectedWallet \/ HandleDestinationsSubmit
           \/ \E level \in Levels : ApplyPreset(level)
           \/ EditPolicy \/ HandlePolicySubmit \/ Back
    PROVE  SetupInv'
<1>1. TypeOK /\ NamesTyped /\ VerifiedOnFirstPage /\ ListTypeOK
  BY DEF SetupInv, TypeOK
<1>2. UNCHANGED <<domainsVars, testMode, naming, creation>>
  BY DEF EditDestinations, UseConnectedWallet, HandleDestinationsSubmit, ApplyPreset, EditPolicy,
     HandlePolicySubmit, Back
<1>3. step \in {"destinations", "policy", "confirm"}
  BY DEF Shown, EditDestinations, UseConnectedWallet, HandleDestinationsSubmit, ApplyPreset,
     EditPolicy, HandlePolicySubmit, Back
<1>4. /\ step' \in {"domain", "destinations", "policy", "confirm"}
      /\ policy' \in Policies /\ pageError' \in {"none", "expired", "other"}
  BY <1>1, <1>3 DEF TypeOK, Policies, Shown, EditDestinations, UseConnectedWallet,
     HandleDestinationsSubmit, ApplyPreset, EditPolicy, HandlePolicySubmit, Back
<1>5. ListTypeOK'
  <2>1. CASE EditDestinations
    BY <1>1, <2>1, EditTyped DEF EditDestinations
  <2>2. CASE UseConnectedWallet
    <3>1. 1 \in Fields /\ "address" \in Inputs /\ UpdateDestination(1, "address")
      BY <2>2 DEF UseConnectedWallet, UpdateDestination, Inputs
    <3>2. Edit
      BY <3>1 DEF Edit
    <3> QED
      BY <1>1, <3>2, EditTyped
  <2>3. CASE HandleDestinationsSubmit
    BY <1>1, <2>3, ValidationTyped DEF HandleDestinationsSubmit
  <2>4. CASE UNCHANGED listVars
    BY <1>1, <2>4 DEF ListTypeOK, listVars
  <2> QED
    BY <2>1, <2>2, <2>3, <2>4 DEF ApplyPreset, EditPolicy, HandlePolicySubmit, Back
<1>6. DomainsTypeOK' /\ stage = "idle"
  BY <1>1, <1>2, <1>3, DomainsKept DEF TypeOK
<1>7. TypeOK'
  BY <1>1, <1>2, <1>4, <1>5, <1>6 DEF TypeOK, naming, creation
<1>8. NamesTyped' /\ VerifiedOnFirstPage'
  BY <1>1, <1>2, <1>3 DEF NamesTyped, VerifiedOnFirstPage, naming, creation
<1> QED
  BY <1>2, <1>3, <1>4, <1>7, <1>8, NothingUnderWay

\* The steps of a creation leave the hook, the list and the choice of the name alone.
LEMMA CreationTyped ==
    ASSUME SetupInv, UNCHANGED <<domainsVars, listVars, testMode, naming, policy>>,
           step' \in {"domain", "destinations", "policy", "confirm", "processing", "complete"},
           pageError' \in {"none", "expired", "other"},
           stage' \in {"idle", "checking", "signing", "status", "height", "fetching"},
           step' = "processing" <=> stage' # "idle",
           vaults' \in [Names -> {NoVault, NewVault}]
    PROVE  TypeOK' /\ GetDomainName' = GetDomainName
<1>1. TypeOK /\ DomainsTypeOK /\ ListTypeOK
  BY DEF SetupInv, TypeOK
<1>2. DomainsTypeOK' /\ ListTypeOK'
  BY <1>1, DomainsKept DEF ListTypeOK, listVars
<1> QED
  BY <1>1, <1>2 DEF TypeOK, naming, GetDomainName

\* Create Vault takes the name the page holds, which may be none.
LEMMA ConfirmKeeps == ASSUME SetupInv, HandleConfirm PROVE SetupInv'
<1>1. TypeOK /\ NamesTyped /\ VerifiedOnFirstPage
  BY DEF SetupInv
<1>2. UNCHANGED <<domainsVars, listVars, testMode, naming, policy, late, vaults>>
  BY DEF HandleConfirm
<1>3. /\ step = "confirm" /\ step' = "processing" /\ pageError' = "none" /\ stage' = "checking"
      /\ creating'.name = GetDomainName /\ transaction' = "none"
  BY DEF HandleConfirm, Shown
<1>4. vaults' \in [Names -> {NoVault, NewVault}]
  BY <1>1, <1>2 DEF TypeOK
<1>5. TypeOK' /\ GetDomainName' = GetDomainName
  BY <1>2, <1>3, <1>4, CreationTyped
<1>6. NamesTyped' /\ VerifiedOnFirstPage'
  <2>1. UNCHANGED verification /\ verification = NoVerification
    BY <1>1, <1>2, <1>3 DEF naming, VerifiedOnFirstPage
  <2> QED
    BY <1>1, <1>3, <2>1, NameOfThePage DEF NamesTyped, VerifiedOnFirstPage
<1>7. CreatingTheName' /\ ExecutedMeansVault' /\ AnnouncedHasVault'
  BY <1>3, <1>5 DEF CreatingTheName, ExecutedMeansVault, AnnouncedHasVault
<1> QED
  BY <1>5, <1>6, <1>7 DEF SetupInv

\* The check, sending and polling go on for the same name.
LEMMA InitializeVaultKeeps ==
    ASSUME SetupInv, Checked \/ Send \/ PollForConfirmation \/ CreationConfirmed
    PROVE  SetupInv'
<1>1. /\ TypeOK /\ NamesTyped /\ VerifiedOnFirstPage /\ CreatingTheName /\ ExecutedMeansVault
  BY DEF SetupInv
<1>2. UNCHANGED <<domainsVars, listVars, testMode, step, naming, policy, pageError, creating, vaults>>
  BY DEF Checked, Send, PollForConfirmation, CreationConfirmed
<1>3. /\ stage # "idle" /\ stage' \in {"signing", "status", "height", "fetching"}
      /\ transaction' \in {transaction, "sent"}
      /\ stage' = "fetching" => transaction = "executed"
      /\ stage \in {"signing", "status", "height"} \/ creating.name # NoName
  BY DEF Checked, Send, PollForConfirmation, CreationConfirmed, Accepted
<1>4. TypeOK' /\ GetDomainName' = GetDomainName
  BY <1>1, <1>2, <1>3, CreationTyped DEF TypeOK
<1>5. NamesTyped' /\ VerifiedOnFirstPage'
  BY <1>1, <1>2 DEF NamesTyped, VerifiedOnFirstPage, naming
<1>6. CreatingTheName' /\ ExecutedMeansVault'
  BY <1>1, <1>2, <1>3, <1>4 DEF CreatingTheName, ExecutedMeansVault
<1>7. step' # "complete"
  BY <1>1, <1>2, <1>3 DEF TypeOK
<1> QED
  BY <1>4, <1>5, <1>6, <1>7 DEF SetupInv, AnnouncedHasVault

\* A success announces the name that the executed transaction was for.
LEMMA CreatedKeeps == ASSUME SetupInv, Created PROVE SetupInv'
<1>1. /\ TypeOK /\ NamesTyped /\ VerifiedOnFirstPage /\ CreatingTheName /\ ExecutedMeansVault
  BY DEF SetupInv
<1>2. /\ UNCHANGED <<domainsVars, listVars, testMode, naming, policy, pageError, creating,
                     transaction, heightPassed, late, vaults>>
      /\ stage = "fetching" /\ stage' = "idle" /\ step' = "complete"
  BY DEF Created
<1>3. TypeOK' /\ GetDomainName' = GetDomainName
  BY <1>1, <1>2, CreationTyped DEF TypeOK
<1>4. creating.name = GetDomainName /\ GetDomainName \in Names /\ vaults[GetDomainName] # NoVault
  BY <1>1, <1>2 DEF CreatingTheName, ExecutedMeansVault
<1>5. AnnouncedHasVault'
  BY <1>2, <1>3, <1>4 DEF AnnouncedHasVault, CompleteMeansVault, Announced
<1>6. NamesTyped' /\ VerifiedOnFirstPage'
  <2>1. verification = NoVerification
    BY <1>1, <1>2 DEF TypeOK, VerifiedOnFirstPage
  <2> QED
    BY <1>1, <1>2, <2>1 DEF NamesTyped, VerifiedOnFirstPage, naming
<1>7. CreatingTheName' /\ ExecutedMeansVault'
  BY <1>1, <1>2 DEF CreatingTheName, ExecutedMeansVault
<1> QED
  BY <1>3, <1>5, <1>6, <1>7 DEF SetupInv

\* A failure of any kind leads back to the confirmation.
LEMMA NotCreatedKeeps == ASSUME SetupInv, NotCreated PROVE SetupInv'
<1>1. /\ TypeOK /\ NamesTyped /\ VerifiedOnFirstPage /\ ExecutedMeansVault
  BY DEF SetupInv
<1>2. /\ UNCHANGED <<domainsVars, listVars, testMode, naming, policy, creating, transaction,
                     heightPassed, vaults>>
      /\ stage # "idle" /\ stage' = "idle" /\ step' = "confirm"
      /\ pageError' \in {"expired", "other"}
  BY DEF NotCreated
<1>3. TypeOK'
  BY <1>1, <1>2, CreationTyped DEF TypeOK
<1>4. NamesTyped' /\ VerifiedOnFirstPage'
  <2>1. verification = NoVerification
    BY <1>1, <1>2 DEF TypeOK, VerifiedOnFirstPage
  <2> QED
    BY <1>1, <1>2, <2>1 DEF NamesTyped, VerifiedOnFirstPage, naming
<1>5. CreatingTheName' /\ ExecutedMeansVault' /\ AnnouncedHasVault'
  BY <1>1, <1>2 DEF CreatingTheName, ExecutedMeansVault, AnnouncedHasVault
<1> QED
  BY <1>3, <1>4, <1>5 DEF SetupInv

\* An execution creates the vault of its name if it does anything, and takes none away.
LEMMA ExecutionAdds ==
    ASSUME TypeOK, NEW c, Executed(c)
    PROVE  /\ vaults' \in [Names -> {NoVault, NewVault}]
           /\ \A n \in Names : vaults[n] # NoVault => vaults'[n] # NoVault
           /\ Accepted(c) /\ c.name \in Names => vaults'[c.name] # NoVault
<1>1. NoVault # NewVault
  <2>1. NoVault.policy = "none" /\ NewVault.policy = "medium"
    BY DEF NoVault, NewVault
  <2> QED
    BY <2>1
<1>2. vaults \in [Names -> {NoVault, NewVault}]
  BY DEF TypeOK
<1> QED
  BY <1>1, <1>2 DEF Executed

\* Whatever the chain executes, and whenever.
LEMMA OnChainKeeps == ASSUME SetupInv, OnChain PROVE SetupInv'
<1>1. /\ TypeOK /\ NamesTyped /\ VerifiedOnFirstPage /\ CreatingTheName /\ ExecutedMeansVault
      /\ AnnouncedHasVault
  BY DEF SetupInv
<1>2. UNCHANGED <<domainsVars, listVars, testMode, step, naming, policy, pageError, stage, creating>>
  BY DEF OnChain
<1>3. /\ vaults' \in [Names -> {NoVault, NewVault}]
      /\ \A n \in Names : vaults[n] # NoVault => vaults'[n] # NoVault
  <2>1. CASE UNCHANGED vaults
    BY <1>1, <2>1 DEF TypeOK
  <2>2. ASSUME NEW c, Executed(c) PROVE <1>3!:
    BY <1>1, <2>2, ExecutionAdds
  <2> QED
    BY <2>1, <2>2 DEF OnChain
<1>4. ExecutedMeansVault'
  <2> SUFFICES ASSUME transaction' = "executed" \/ stage = "fetching"
               PROVE  creating.name \in Names /\ vaults'[creating.name] # NoVault
    BY <1>2 DEF ExecutedMeansVault
  <2>1. CASE UNCHANGED transaction \/ stage = "fetching"
    BY <1>1, <1>3, <2>1 DEF ExecutedMeansVault
  <2>2. CASE Executed(creating) /\ Accepted(creating)
    <3>1. creating.name \in Names
      BY <1>1, <2>2 DEF NamesTyped, Accepted
    <3> QED
      BY <1>1, <2>2, <3>1, ExecutionAdds
  <2> QED
    BY <2>1, <2>2 DEF OnChain
<1>5. TypeOK' /\ GetDomainName' = GetDomainName
  BY <1>1, <1>2, <1>3, CreationTyped DEF TypeOK
<1>6. NamesTyped' /\ VerifiedOnFirstPage' /\ CreatingTheName'
  BY <1>1, <1>2, <1>5 DEF NamesTyped, VerifiedOnFirstPage, CreatingTheName, naming
<1>7. AnnouncedHasVault'
  BY <1>1, <1>2, <1>3, <1>5 DEF AnnouncedHasVault, CompleteMeansVault, Announced
<1> QED
  BY <1>4, <1>5, <1>6, <1>7 DEF SetupInv

\* Every step of the page keeps the invariant.
LEMMA SetupSteps == SetupInv /\ [Next]_vars => SetupInv'
<1> SUFFICES ASSUME SetupInv, [Next]_vars PROVE SetupInv'
  OBVIOUS
<1>1. CASE UNCHANGED vars
  <2>1. UNCHANGED <<domainsVars, listVars, testMode, step, naming, policy, pageError, creation>>
    BY <1>1 DEF vars
  <2>2. TypeOK' /\ GetDomainName' = GetDomainName
    BY <2>1, CreationTyped DEF SetupInv, TypeOK, creation
  <2>3. NamesTyped' /\ VerifiedOnFirstPage'
    BY <2>1 DEF SetupInv, NamesTyped, VerifiedOnFirstPage, naming, creation
  <2> QED
    BY <2>1, <2>2, <2>3, CreationKept
<1> QED
  BY <1>1, DomainsAnsweredKeeps, DomainsRequestedKeeps, NamingKeeps, PagesKeep, ConfirmKeeps,
     InitializeVaultKeeps, CreatedKeeps, NotCreatedKeeps, OnChainKeeps DEF Next

\* Every variable of the page keeps its type, the list of destinations and the hook's
\* included, and the page shows that it creates a vault just while it does.
THEOREM SetupTypeCorrect == Spec => []TypeOK
<1>1. SetupInv => TypeOK
  BY DEF SetupInv
<1> QED
  BY <1>1, SetupStarts, SetupSteps, PTL DEF Spec

\* Whatever is selected, entered, verified, refused, executed late or fetched on the way:
\* a vault is announced for a name only when the program has one.
THEOREM AnnouncedVaultExists == Spec => []CompleteMeansVault
<1>1. SetupInv => CompleteMeansVault
  BY DEF SetupInv, AnnouncedHasVault, CompleteMeansVault
<1> QED
  BY <1>1, SetupStarts, SetupSteps, PTL DEF Spec

-----------------------------------------------------------------------------
(***************************************************************************)
(* The registration of a name                                              *)
(***************************************************************************)

\* A registration under way.
Jobs ==
    [name : Names, by : Wallets, mounted : BOOLEAN,
     stage : {"building", "signing", "polling", "caching", "refetching"},
     tx : {"none", "sent", "executed", "failed", "expired"}]

\* At most one registration has the form.
OneRegistering == \A j, k \in jobs : Registering(j) /\ Registering(k) => j = k

\* The inductive invariant of the form.
RegistrationInv ==
    /\ wallet \in Wallets \cup {NoWallet}
    /\ jobs \subseteq Jobs
    /\ OneRegistering
    /\ FormShowsRegistration

\* A step of a job that keeps it registering or not, and tells the form nothing.
LEMMA JobGoesOn ==
    ASSUME RegistrationInv, NEW j \in jobs, NEW k \in Jobs, Goes(j, k),
           Registering(k) <=> Registering(j), k.name = j.name, k.by = j.by,
           UNCHANGED <<wallet, showRegistration, domainLabel, isRegistering>>
    PROVE  RegistrationInv'
<1>1. jobs' = (jobs \ {j}) \cup {k}
  BY DEF Goes
<1>2. jobs' \subseteq Jobs /\ OneRegistering'
  BY <1>1 DEF RegistrationInv, OneRegistering
<1>3. FormShowsRegistration'
  BY <1>1 DEF RegistrationInv, FormShowsRegistration
<1> QED
  BY <1>2, <1>3 DEF RegistrationInv

\* A step after which the form has no registration.
LEMMA JobLeaves ==
    ASSUME RegistrationInv, jobs' \subseteq Jobs, \A k \in jobs' : ~Registering(k),
           ~isRegistering', wallet' \in Wallets \cup {NoWallet}
    PROVE  RegistrationInv'
  BY DEF RegistrationInv, OneRegistering, FormShowsRegistration

\* A step of a job that is not the form's.
LEMMA OtherJobLeaves ==
    ASSUME RegistrationInv, NEW j \in jobs, ~Registering(j),
           jobs' \subseteq Jobs, \A k : Registering(k) => (k \in jobs' <=> k \in jobs),
           UNCHANGED <<wallet, showRegistration, domainLabel, isRegistering>>
    PROVE  RegistrationInv'
  BY DEF RegistrationInv, OneRegistering, FormShowsRegistration

\* The form starts empty.
LEMMA RegistrationStarts == RegistrationInit => RegistrationInv
  BY DEF RegistrationInit, DomainsInit, RegistrationInv, OneRegistering, FormShowsRegistration

\* A component that stays keeps its form and its wallet; one that goes, or comes, has none.
LEMMA RemountingKeeps ==
    ASSUME RegistrationInv, NEW rest \in SUBSET jobs,
           \A k \in jobs \ rest : ~Registering(k),
           Remounted(rest), wallet' \in Wallets \cup {NoWallet},
           Mounted' => wallet' = wallet
    PROVE  RegistrationInv'
<1>1. CASE Mounted' /\ Mounted
  <2>1. jobs' = rest /\ UNCHANGED form /\ wallet' = wallet
    BY <1>1 DEF Remounted
  <2> QED
    BY <2>1 DEF form, RegistrationInv, OneRegistering, FormShowsRegistration
<1>2. CASE ~(Mounted' /\ Mounted)
  <2>1. jobs' = {[j EXCEPT !.mounted = FALSE] : j \in rest} /\ Emptied
    BY <1>2 DEF Remounted
  <2>2. ASSUME NEW j \in rest
        PROVE  [j EXCEPT !.mounted = FALSE] \in Jobs /\ ~Registering([j EXCEPT !.mounted = FALSE])
    <3>1. j \in Jobs
      BY DEF RegistrationInv
    <3> QED
      BY <3>1 DEF Jobs, Registering
  <2>3. jobs' \subseteq Jobs /\ \A k \in jobs' : ~Registering(k)
    BY <2>1, <2>2
  <2> QED
    BY <2>1, <2>3, JobLeaves DEF Emptied
<1> QED
  BY <1>1, <1>2

\* The form's own handlers.
LEMMA FormKeeps ==
    ASSUME RegistrationInv, ShowForm \/ EnterLabel \/ HandleClose \/ HandleRegister
    PROVE  RegistrationInv'
<1>1. UNCHANGED wallet
  BY DEF ShowForm, EnterLabel, HandleClose, HandleRegister, page, domainsVars
<1>2. CASE ShowForm
  BY <1>1, <1>2 DEF ShowForm, RegistrationInv, OneRegistering, FormShowsRegistration
<1>3. CASE EnterLabel \/ HandleClose
  <2>1. ~isRegistering /\ ~isRegistering' /\ UNCHANGED jobs
    BY <1>3 DEF EnterLabel, HandleClose, Emptied
  <2> QED
    BY <1>1, <2>1, JobLeaves DEF RegistrationInv, FormShowsRegistration
<1>4. CASE HandleRegister
  <2> DEFINE new == [name |-> domainLabel, by |-> wallet, mounted |-> TRUE,
                     stage |-> "building", tx |-> "none"]
  <2>1. /\ ~isRegistering /\ showRegistration /\ wallet # NoWallet
        /\ UNCHANGED <<showRegistration, domainLabel>>
    BY <1>4 DEF HandleRegister, RegisterOffered, Mounted
  <2>2. CASE ~Registrable(domainLabel)
    <3>1. UNCHANGED <<isRegistering, jobs>>
      BY <1>4, <2>2 DEF HandleRegister
    <3> QED
      BY <1>1, <2>1, <3>1, JobLeaves DEF RegistrationInv, FormShowsRegistration
  <2>3. CASE Registrable(domainLabel)
    <3>1. isRegistering' = TRUE /\ jobs' = jobs \cup {new}
      BY <1>4, <2>3 DEF HandleRegister
    <3>2. new \in Jobs /\ Registering(new) /\ new.name = domainLabel /\ new.by = wallet
      BY <2>1, <2>3 DEF Registrable, Jobs, RegistrationInv, Registering
    <3> HIDE DEF new
    <3>3. \A k \in jobs : ~Registering(k)
      BY <2>1 DEF RegistrationInv, FormShowsRegistration
    <3> QED
      BY <1>1, <2>1, <3>1, <3>2, <3>3 DEF RegistrationInv, OneRegistering, FormShowsRegistration
  <2> QED
    BY <2>2, <2>3
<1> QED
  BY <1>2, <1>3, <1>4

\* The steps of a registration.
LEMMA JobsKeep ==
    ASSUME RegistrationInv, NEW j \in jobs,
           Built(j) \/ Sent(j) \/ Confirmed(j) \/ Cached(j) \/ Failed(j) \/ Registered(j)
    PROVE  RegistrationInv'
<1>1. j \in Jobs /\ wallet \in Wallets \cup {NoWallet} /\ jobs \subseteq Jobs
  BY DEF RegistrationInv
<1>2. UNCHANGED wallet
  BY DEF Built, Sent, Confirmed, Cached, Failed, Registered, page, domainsVars
<1>3. CASE Built(j)
  <2> DEFINE k == [j EXCEPT !.stage = "signing"]
  <2>1. k \in Jobs /\ (Registering(k) <=> Registering(j)) /\ k.name = j.name /\ k.by = j.by
    BY <1>1, <1>3 DEF Jobs, Built, Registering
  <2>2. Goes(j, k) /\ UNCHANGED <<showRegistration, domainLabel, isRegistering>>
    BY <1>3 DEF Built, form
  <2> HIDE DEF k
  <2> QED
    BY <1>2, <2>1, <2>2, JobGoesOn
<1>4. CASE Sent(j)
  <2> DEFINE k == [j EXCEPT !.stage = "polling", !.tx = "sent"]
  <2>1. k \in Jobs /\ (Registering(k) <=> Registering(j)) /\ k.name = j.name /\ k.by = j.by
    BY <1>1, <1>4 DEF Jobs, Sent, Registering
  <2>2. Goes(j, k) /\ UNCHANGED <<showRegistration, domainLabel, isRegistering>>
    BY <1>4 DEF Sent
  <2> HIDE DEF k
  <2> QED
    BY <1>2, <2>1, <2>2, JobGoesOn
<1>5. CASE Confirmed(j)
  <2> DEFINE k == [j EXCEPT !.stage = "caching"]
  <2>1. k \in Jobs /\ (Registering(k) <=> Registering(j)) /\ k.name = j.name /\ k.by = j.by
    BY <1>1, <1>5 DEF Jobs, Confirmed, Registering
  <2>2. Goes(j, k) /\ UNCHANGED <<showRegistration, domainLabel, isRegistering>>
    BY <1>5 DEF Confirmed, form
  <2> HIDE DEF k
  <2> QED
    BY <1>2, <2>1, <2>2, JobGoesOn
<1>6. CASE Cached(j)
  <2> DEFINE k == [j EXCEPT !.stage = "refetching"]
  <2>1. k \in Jobs /\ ~Registering(k) /\ (Registering(j) <=> j.mounted)
    BY <1>1, <1>6 DEF Jobs, Cached, Registering
  <2>2. jobs' = (jobs \ {j}) \cup {k} /\ UNCHANGED <<showRegistration, domainLabel>>
    BY <1>6 DEF Cached, Goes
  <2>3. isRegistering' = IF j.mounted THEN FALSE ELSE isRegistering
    BY <1>6 DEF Cached
  <2> HIDE DEF k
  <2>4. CASE j.mounted
    <3>1. \A l \in jobs' : ~Registering(l)
      BY <2>1, <2>2, <2>4 DEF RegistrationInv, OneRegistering
    <3> QED
      BY <1>1, <1>2, <2>1, <2>2, <2>3, <2>4, <3>1, JobLeaves
  <2>5. CASE ~j.mounted
    BY <1>1, <1>2, <2>1, <2>2, <2>3, <2>5, OtherJobLeaves
  <2> QED
    BY <2>4, <2>5
<1>7. CASE Failed(j)
  <2>1. jobs' = jobs \ {j} /\ UNCHANGED <<showRegistration, domainLabel>>
    BY <1>7 DEF Failed
  <2>2. Registering(j) <=> j.mounted
    BY <1>1, <1>7 DEF Failed, Registering, Jobs
  <2>3. CASE j.mounted
    <3>1. \A l \in jobs' : ~Registering(l)
      BY <2>1, <2>2, <2>3 DEF RegistrationInv, OneRegistering
    <3>2. ~isRegistering'
      BY <1>7, <2>3 DEF Failed
    <3> QED
      BY <1>1, <1>2, <2>1, <3>1, <3>2, JobLeaves
  <2>4. CASE ~j.mounted
    <3>1. UNCHANGED isRegistering
      BY <1>7, <2>4 DEF Failed
    <3> QED
      BY <1>1, <1>2, <2>1, <2>2, <2>4, <3>1, OtherJobLeaves
  <2> QED
    BY <2>3, <2>4
<1>8. CASE Registered(j)
  <2>1. ~Registering(j) /\ Remounted(jobs \ {j})
    BY <1>8 DEF Registered, Registering
  <2> QED
    BY <1>1, <1>2, <2>1, RemountingKeeps
<1> QED
  BY <1>3, <1>4, <1>5, <1>6, <1>7, <1>8

\* A change of the wallet, an answer or the page unmounts the component, unless it leaves
\* all as they are; the chain's steps are not the form's.
LEMMA PageAndChainKeep ==
    ASSUME RegistrationInv, PageChanges \/ PageTurns \/ RegistrationOnChain
    PROVE  RegistrationInv'
<1>1. CASE PageChanges
  <2>1. wallet' \in Wallets \cup {NoWallet} /\ (Mounted' => wallet' = wallet)
    <3>1. CASE WalletChanges
      BY <3>1 DEF WalletChanges, FetchDomains, Mounted
    <3>2. CASE \E w \in Wallets : Fetched(w)
      BY <3>2 DEF Fetched, RegistrationInv
    <3> QED
      BY <1>1, <3>1, <3>2 DEF PageChanges
  <2>2. Remounted(jobs)
    BY <1>1 DEF PageChanges
  <2> QED
    BY <2>1, <2>2, RemountingKeeps
<1>2. CASE RegistrationOnChain
  <2>1. UNCHANGED <<wallet, showRegistration, domainLabel, isRegistering>>
    BY <1>2 DEF RegistrationOnChain, form
  <2>2. ASSUME NEW j \in jobs, NEW t \in {"executed", "failed", "expired"}, j.stage = "polling",
               Goes(j, [j EXCEPT !.tx = t])
        PROVE  RegistrationInv'
    <3> DEFINE k == [j EXCEPT !.tx = t]
    <3>1. j \in Jobs
      BY DEF RegistrationInv
    <3>2. k \in Jobs /\ (Registering(k) <=> Registering(j)) /\ k.name = j.name /\ k.by = j.by
      BY <3>1 DEF Jobs, Registering
    <3>3. Goes(j, k)
      BY <2>2
    <3> HIDE DEF k
    <3> QED
      BY <2>1, <3>2, <3>3, JobGoesOn
  <2>3. CASE UNCHANGED jobs
    BY <2>1, <2>3 DEF RegistrationInv, OneRegistering, FormShowsRegistration
  <2>4. \/ UNCHANGED jobs
        \/ \E j \in jobs, t \in {"executed", "failed", "expired"} :
               j.stage = "polling" /\ Goes(j, [j EXCEPT !.tx = t])
    BY <1>2 DEF RegistrationOnChain
  <2> QED
    BY <2>2, <2>3, <2>4
<1>3. CASE PageTurns
  <2>1. Remounted(jobs) /\ UNCHANGED wallet
    BY <1>3 DEF PageTurns, domainsVars
  <2> QED
    BY <2>1, RemountingKeeps DEF RegistrationInv
<1> QED
  BY <1>1, <1>2, <1>3

\* Every step keeps the invariant.
LEMMA RegistrationSteps ==
    RegistrationInv /\ [RegistrationNext]_registrationVars => RegistrationInv'
<1> SUFFICES ASSUME RegistrationInv, [RegistrationNext]_registrationVars PROVE RegistrationInv'
  OBVIOUS
<1>1. CASE UNCHANGED registrationVars
  BY <1>1 DEF registrationVars, page, domainsVars, form, RegistrationInv, OneRegistering,
     FormShowsRegistration
<1> QED
  BY <1>1, FormKeeps, JobsKeep, PageAndChainKeep DEF RegistrationNext

\* However fetches, wallets and the ends of earlier registrations interleave, the form that
\* says it is registering displays the one name it registers, for the connected wallet.
THEOREM RegistrationIsDisplayed == RegistrationSpec => []FormShowsRegistration
<1>1. RegistrationInv => FormShowsRegistration
  BY DEF RegistrationInv
<1> QED
  BY <1>1, RegistrationStarts, RegistrationSteps, PTL DEF RegistrationSpec
=============================================================================
