----------------------- MODULE WithdrawalTracking_proofs -----------------------
(***************************************************************************)
(* Proofs about WithdrawalTracking, for any number of withdrawals and of   *)
(* components that hold an instance of the hook.                           *)
(***************************************************************************)
EXTENDS WithdrawalTracking, TLAPS

\* What has not been submitted is not on the chain.
UnsentIsNowhere ==
    \A p \in Plans : stage[p] \in {"new", "building", "built"} => chain[p] = "none"

IInv == TypeOK /\ ListedIsReal /\ UnsentIsNowhere

\* What a step does to the list: an entry stays as it is, or is given for a reason.
ListEntries ==
    \A i \in Instances, p \in Plans :
        \/ list'[i][p] = list[i][p]
        \/ list'[i][p] = "absent"
        \/ /\ list[i][p] # "absent" /\ list'[i][p] = "cancelled"
        \/ list'[i][p] = "pending" /\ chain[p] \in {"requested", "planned"}
        \/ list[i][p] # "absent" /\ list'[i][p] = "in_progress" /\ chain[p] = "planned"
        \/ list'[i][p] = "pending" /\ ~arciumAvailable

\* What a step does to the chain: a request only moves forward.
ChainEntries ==
    \A p \in Plans :
        \/ chain'[p] = chain[p]
        \/ chain[p] = "none" /\ chain'[p] = "sent" /\ stage'[p] = "sent"
        \/ chain[p] = "sent" /\ chain'[p] \in {"requested", "refused"} /\ stage'[p] = stage[p]
        \/ chain[p] = "requested" /\ chain'[p] = "planned" /\ stage'[p] = stage[p]

\* What a step does to a request: it is not taken back to before its submission.
StageEntries ==
    \A p \in Plans :
        stage'[p] \in {"new", "building", "built"} => stage[p] \in {"new", "building", "built"}

Entries == ListEntries /\ ChainEntries /\ StageEntries /\ arciumAvailable' = arciumAvailable

-----------------------------------------------------------------------------
\* Nothing is listed at first.
LEMMA InitEstablishes == Init => IInv
<1> SUFFICES ASSUME Init PROVE IInv
  OBVIOUS
<1>1. TypeOK
  BY DEF Init, TypeOK, Empty, Shown
<1>2. ListedIsReal /\ UnsentIsNowhere
  BY DEF Init, ListedIsReal, UnsentIsNowhere, Displayed, Empty
<1> QED
  BY <1>1, <1>2 DEF IInv

\* A step that keeps the types and changes entries as above keeps the invariant.
LEMMA EntriesSuffice ==
    ASSUME IInv, TypeOK', Entries PROVE IInv'
<1> USE DEF IInv, Entries
<1>1. ListedIsReal'
  <2> SUFFICES ASSUME arciumAvailable, NEW i \in Instances, NEW p \in Plans
               PROVE  /\ list'[i][p] # "absent" => chain'[p] \in {"requested", "planned"}
                      /\ list'[i][p] = "in_progress" => chain'[p] = "planned"
    BY DEF ListedIsReal, Displayed
  <2>1. /\ list[i][p] # "absent" => chain[p] \in {"requested", "planned"}
        /\ list[i][p] = "in_progress" => chain[p] = "planned"
    BY DEF ListedIsReal, Displayed
  <2>2. /\ chain[p] \in {"requested", "planned"} => chain'[p] \in {"requested", "planned"}
        /\ chain[p] = "planned" => chain'[p] = "planned"
    BY SMT DEF ChainEntries
  <2> QED
    BY <2>1, <2>2, SMT DEF ListEntries
<1>2. UnsentIsNowhere'
  <2> SUFFICES ASSUME NEW p \in Plans, stage'[p] \in {"new", "building", "built"}
               PROVE  chain'[p] = "none"
    BY DEF UnsentIsNowhere
  <2>1. stage[p] \in {"new", "building", "built"} /\ chain[p] = "none"
    BY DEF UnsentIsNowhere, StageEntries
  <2> QED
    BY <2>1, SMT DEF ChainEntries
<1> QED
  BY <1>1, <1>2

-----------------------------------------------------------------------------
\* Adding a plan and giving it a status change its entry alone.
LEMMA AddKeeps ==
    ASSUME TypeOK, NEW i \in Instances, NEW p \in Plans, Add(i, p)
    PROVE  /\ list' \in [Instances -> [Plans -> Shown \cup {"absent"}]]
           /\ \A j \in Instances, q \in Plans :
                  \/ list'[j][q] = list[j][q]
                  \/ q = p /\ list'[j][q] = "pending"
<1> USE DEF TypeOK, Add, Shown
<1>1. list' \in [Instances -> [Plans -> Shown \cup {"absent"}]]
  OBVIOUS
<1>2. \A j \in Instances, q \in Plans :
          list'[j][q] = IF j = i /\ q = p THEN "pending" ELSE list[j][q]
  OBVIOUS
<1> QED
  BY <1>1, <1>2

\* Setting a status changes one entry of one list, if it is there.
LEMMA SetStatusKeeps ==
    ASSUME TypeOK, NEW i \in Instances, NEW p \in Plans, NEW s \in Shown, SetStatus(i, p, s)
    PROVE  /\ list' \in [Instances -> [Plans -> Shown \cup {"absent"}]]
           /\ \A j \in Instances, q \in Plans :
                  \/ list'[j][q] = list[j][q]
                  \/ q = p /\ list[j][q] # "absent" /\ list'[j][q] = s
<1> USE DEF TypeOK, SetStatus
<1>1. list' \in [Instances -> [Plans -> Shown \cup {"absent"}]]
  OBVIOUS
<1>2. \A j \in Instances, q \in Plans :
          list'[j][q] = IF j = i /\ q = p /\ list[j][q] # "absent" THEN s ELSE list[j][q]
  OBVIOUS
<1> QED
  BY <1>1, <1>2

\* The end of a request.
LEMMA EndKeeps ==
    ASSUME TypeOK, NEW p \in Plans, End(p)
    PROVE  /\ stage' \in [Plans -> {"new", "building", "built", "sent", "waiting", "over"}]
           /\ loading' \in [Instances -> BOOLEAN]
           /\ StageEntries
<1> USE DEF TypeOK, End
<1>1. by[p] \in Instances
  OBVIOUS
<1>2. \A q \in Plans : stage'[q] = IF q = p THEN "over" ELSE stage[q]
  OBVIOUS
<1> QED
  BY <1>1, <1>2 DEF StageEntries

-----------------------------------------------------------------------------
\* Each part of a request keeps the entries in step with it.
LEMMA RequestingStep ==
    ASSUME IInv, NEW p \in Plans, Requesting(p) PROVE TypeOK' /\ Entries
<1> USE DEF IInv
<1>1. ASSUME NEW i \in Instances, RequestWithdrawal(i, p) PROVE TypeOK' /\ Entries
  <2> USE <1>1 DEF RequestWithdrawal
  <2>1. /\ by' \in [Plans -> Instances] /\ chain' = chain /\ arciumAvailable' = arciumAvailable
        /\ stage' \in [Plans -> {"new", "building", "built", "sent", "waiting", "over"}]
        /\ loading' \in [Instances -> BOOLEAN]
    BY DEF TypeOK
  <2>2. StageEntries
    BY DEF StageEntries, TypeOK
  <2>3. /\ list' \in [Instances -> [Plans -> Shown \cup {"absent"}]]
        /\ ListEntries
    <3>1. CASE arciumAvailable
      BY <3>1 DEF TypeOK, ListEntries
    <3>2. CASE ~arciumAvailable
      BY <3>2, AddKeeps DEF ListEntries
    <3> QED
      BY <3>1, <3>2
  <2> QED
    BY <2>1, <2>2, <2>3 DEF TypeOK, Entries, ChainEntries
<1>2. ASSUME Build(p) PROVE TypeOK' /\ Entries
  BY <1>2 DEF Build, TypeOK, Entries, ListEntries, ChainEntries, StageEntries
<1>3. ASSUME Submit(p) PROVE TypeOK' /\ Entries
  <2> USE <1>3 DEF Submit
  <2>1. TypeOK'
    BY DEF TypeOK
  <2>2. chain[p] = "none"
    BY DEF UnsentIsNowhere
  <2>3. ChainEntries /\ StageEntries
    BY <2>2 DEF TypeOK, ChainEntries, StageEntries
  <2> QED
    BY <2>1, <2>3 DEF Entries, ListEntries
<1>4. ASSUME Abort(p) PROVE TypeOK' /\ Entries
  BY <1>4, EndKeeps DEF Abort, TypeOK, Entries, ListEntries, ChainEntries
<1>5. ASSUME Confirmed(p) PROVE TypeOK' /\ Entries
  <2> USE <1>5 DEF Confirmed
  <2>1. by[p] \in Instances
    BY DEF TypeOK
  <2>2. /\ list' \in [Instances -> [Plans -> Shown \cup {"absent"}]]
        /\ ListEntries
    BY <2>1, AddKeeps DEF ListEntries
  <2>3. StageEntries /\ TypeOK'
    BY <2>2 DEF TypeOK, StageEntries
  <2> QED
    BY <2>2, <2>3 DEF Entries, ChainEntries
<1>6. ASSUME NotConfirmed(p) PROVE TypeOK' /\ Entries
  BY <1>6, EndKeeps DEF NotConfirmed, TypeOK, Entries, ListEntries, ChainEntries
<1>7. ASSUME Finalized(p) PROVE TypeOK' /\ Entries
  <2> USE <1>7 DEF Finalized
  <2>1. by[p] \in Instances /\ "in_progress" \in Shown
    BY DEF TypeOK, Shown
  <2>2. /\ list' \in [Instances -> [Plans -> Shown \cup {"absent"}]]
        /\ ListEntries
    BY <2>1, SetStatusKeeps DEF ListEntries
  <2> QED
    BY <2>2, EndKeeps DEF TypeOK, Entries, ChainEntries
<1>8. ASSUME TimedOut(p) PROVE TypeOK' /\ Entries
  BY <1>8, EndKeeps DEF TimedOut, TypeOK, Entries, ListEntries, ChainEntries
<1> QED
  BY <1>1, <1>2, <1>3, <1>4, <1>5, <1>6, <1>7, <1>8 DEF Requesting

\* A cancellation changes a listed entry.
LEMMA CancelStep ==
    ASSUME IInv, NEW i \in Instances, NEW p \in Plans, CancelWithdrawal(i, p)
    PROVE  TypeOK' /\ Entries
<1> USE DEF IInv, CancelWithdrawal
<1>1. "cancelled" \in Shown
  BY DEF Shown
<1>2. /\ list' \in [Instances -> [Plans -> Shown \cup {"absent"}]]
      /\ ListEntries
  BY <1>1, SetStatusKeeps DEF ListEntries
<1> QED
  BY <1>2 DEF TypeOK, Entries, ChainEntries, StageEntries

\* Closing a page empties its list.
LEMMA CloseStep ==
    ASSUME IInv, NEW i \in Instances, Close(i) PROVE TypeOK' /\ Entries
<1> USE DEF IInv, Close, TypeOK
<1>1. /\ list' \in [Instances -> [Plans -> Shown \cup {"absent"}]]
      /\ \A j \in Instances, q \in Plans : list'[j][q] \in {list[j][q], "absent"}
  BY DEF Empty
<1>2. /\ stage' \in [Plans -> {"new", "building", "built", "sent", "waiting", "over"}]
      /\ StageEntries
  BY DEF StageEntries
<1> QED
  BY <1>1, <1>2 DEF Entries, ListEntries, ChainEntries

\* A reload lists nothing.
LEMMA ReloadStep ==
    ASSUME IInv, Reload PROVE TypeOK' /\ Entries
<1> USE DEF IInv, Reload, TypeOK
<1>1. /\ list' \in [Instances -> [Plans -> Shown \cup {"absent"}]]
      /\ \A j \in Instances, q \in Plans : list'[j][q] = "absent"
  BY DEF Empty
<1>2. /\ stage' \in [Plans -> {"new", "building", "built", "sent", "waiting", "over"}]
      /\ StageEntries
  BY DEF StageEntries
<1> QED
  BY <1>1, <1>2 DEF Entries, ListEntries, ChainEntries

\* What the chain does changes no list.
LEMMA ChainStep ==
    ASSUME IInv, NEW p \in Plans, OnChain(p) PROVE TypeOK' /\ Entries
<1> USE DEF IInv, OnChain, TypeOK
<1>1. /\ chain' \in [Plans -> {"none", "sent", "requested", "refused", "planned"}]
      /\ ChainEntries
  BY DEF ChainEntries
<1> QED
  BY <1>1 DEF Entries, ListEntries, StageEntries

\* Every step keeps the invariant.
LEMMA NextPreserves == IInv /\ [Next]_vars => IInv'
<1> SUFFICES ASSUME IInv, [Next]_vars PROVE IInv'
  OBVIOUS
<1>1. CASE UNCHANGED vars
  BY <1>1 DEF vars, IInv, TypeOK, ListedIsReal, UnsentIsNowhere, Displayed
<1>2. CASE Next
  BY <1>2, EntriesSuffice, RequestingStep, CancelStep, CloseStep, ReloadStep, ChainStep DEF Next
<1> QED
  BY <1>1, <1>2

\* So it always holds.
LEMMA Invariance == Spec => []IInv
BY InitEstablishes, NextPreserves, PTL DEF Spec

-----------------------------------------------------------------------------
\* The statuses completed, failed and expired are never given, whatever the requests and
\* components do.
THEOREM TrackingTypeCorrect == Spec => []TypeOK
<1>1. IInv => TypeOK
  BY DEF IInv
<1> QED
  BY <1>1, Invariance, PTL

\* What the hook lists the chain took on, and what it calls in progress has a plan,
\* whatever is refused, lost, late or cancelled.
THEOREM ListedWasTakenOn == Spec => []ListedIsReal
<1>1. IInv => ListedIsReal
  BY DEF IInv
<1> QED
  BY <1>1, Invariance, PTL

\* No request pushes another withdrawal off the list it is on.
THEOREM ListsOnlyGrow == Spec => ListOnlyGrows
<1>1. ASSUME IInv, [Next]_vars, ~Reload, ~(\E i \in Instances : Close(i)),
             NEW i \in Instances
      PROVE  Displayed(i) \subseteq Displayed(i)'
  <2> SUFFICES ASSUME NEW p \in Plans, list[i][p] # "absent" PROVE list'[i][p] # "absent"
    BY DEF Displayed
  <2> USE DEF IInv
  <2>1. ASSUME NEW q \in Plans, NEW j \in Instances, Add(j, q) PROVE list'[i][p] # "absent"
    BY <1>1, <2>1, AddKeeps
  <2>2. ASSUME NEW q \in Plans, NEW j \in Instances, NEW s \in Shown, SetStatus(j, q, s)
        PROVE  list'[i][p] # "absent"
    BY <1>1, <2>2, SetStatusKeeps DEF Shown
  <2>3. ASSUME NEW q \in Plans, Requesting(q) PROVE list'[i][p] # "absent"
    <3>1. ASSUME NEW j \in Instances, RequestWithdrawal(j, q) PROVE list'[i][p] # "absent"
      BY <3>1, <2>1 DEF RequestWithdrawal
    <3>2. CASE Confirmed(q)
      BY <1>1, <3>2, <2>1 DEF Confirmed, TypeOK
    <3>3. CASE Finalized(q)
      BY <1>1, <3>3, <2>2 DEF Finalized, TypeOK, Shown
    <3>4. CASE Build(q) \/ Submit(q) \/ Abort(q) \/ NotConfirmed(q) \/ TimedOut(q)
      BY <3>4 DEF Build, Submit, Abort, NotConfirmed, TimedOut
    <3> QED
      BY <2>3, <3>1, <3>2, <3>3, <3>4 DEF Requesting
  <2>4. ASSUME NEW j \in Instances, NEW q \in Plans, CancelWithdrawal(j, q)
        PROVE  list'[i][p] # "absent"
    BY <2>4, <2>2 DEF CancelWithdrawal, Shown
  <2>5. CASE \E q \in Plans : OnChain(q)
    BY <2>5 DEF OnChain
  <2>6. CASE UNCHANGED vars
    BY <2>6 DEF vars
  <2> QED
    BY <1>1, <2>3, <2>4, <2>5, <2>6 DEF Next
<1>2. IInv /\ [Next]_vars =>
          [~Reload /\ ~(\E i \in Instances : Close(i)) =>
              \A i \in Instances : Displayed(i) \subseteq Displayed(i)']_vars
  BY <1>1
<1> QED
  BY <1>2, Invariance, PTL DEF Spec, ListOnlyGrows
===============================================================================
