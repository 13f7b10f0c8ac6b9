---------------------- MODULE DomainTransferFlow_proofs ----------------------
(***************************************************************************)
(* Proofs about DomainTransferFlow, for any users, names, page, starting   *)
(* balances and number of handlers at work: what the browser sends is what *)
(* the program executes, a handler has a transaction just while it waits   *)
(* for one, and it goes on as after a success only after one.              *)
(***************************************************************************)
EXTENDS DomainTransferFlow, HydentityProgram_proofs

-----------------------------------------------------------------------------
(***************************************************************************)
(* Handlers and transactions                                               *)
(***************************************************************************)

\* The handlers of the page, by name.
LEMMA HandlerNames == Handlers = {"transfer", "sync", "reclaim", "close", "claim", "create"}
  BY DEF Handlers, First

\* The kinds of transaction, and that every handler begins with one.
LEMMA KindNames ==
    /\ Kinds = {"sns", "mark", "reclaim", "close", "claim", "create"}
    /\ \A h \in Handlers : First[h] \in Kinds
<1>1. Kinds = {First[h] : h \in {"transfer", "sync", "reclaim", "close", "claim", "create"}}
  BY HandlerNames DEF Kinds
<1>2. /\ First["transfer"] = "sns" /\ First["sync"] = "mark" /\ First["reclaim"] = "reclaim"
      /\ First["close"] = "close" /\ First["claim"] = "claim" /\ First["create"] = "create"
  BY DEF First
<1>3. Kinds = {"sns", "mark", "reclaim", "close", "claim", "create"}
  BY <1>1, <1>2
<1> QED
  BY <1>2, <1>3, HandlerNames

\* What a transaction does is a step of the program.
LEMMA ExecuteIsProgramStep ==
    ASSUME NEW kind, Execute(kind)
    PROVE  Next
<1>1. Me \in Users /\ Page \in Names /\ Authority(Page) \in Keys /\ Users \subseteq Keys
  BY PageAssumption DEF Keys, Authorities
<1>2. CASE SnsTransfer(Page, Authority(Page))
  BY <1>1, <1>2 DEF Next, Environment
<1> QED
  BY <1>1, <1>2 DEF Execute, Next, Instruction

\* So is what goes on elsewhere.
LEMMA ElsewhereIsProgramStep ==
    ASSUME Elsewhere
    PROVE  Next
<1>1. Page \in Names /\ Users \subseteq Keys
  BY PageAssumption DEF Keys
<1>2. ASSUME NEW to \in Users, SnsTransfer(Page, to) PROVE Next
  BY <1>1, <1>2 DEF Next, Environment
<1> QED
  BY <1>1, <1>2 DEF Elsewhere, Next, Instruction

\* A transaction executed, or the program left alone.
LEMMA FlowStep == [FlowNext]_flowVars => [Next]_vars
<1> SUFFICES ASSUME [FlowNext]_flowVars PROVE [Next]_vars
  OBVIOUS
<1>1. ASSUME NEW h, Handler(h) PROVE [Next]_vars
  BY <1>1, ExecuteIsProgramStep
     DEF Handler, Click, Send, Land, Bounce, Expire, PollStatus, PollHeight, PollError
<1>2. ASSUME NEW f, NEW b, StartFetch(f, b) \/ EndFetch(f, b) PROVE [Next]_vars
  BY <1>2 DEF StartFetch, EndFetch
<1>3. ASSUME NEW kind, LandLoose(kind) \/ DropLoose(kind) PROVE [Next]_vars
  BY <1>3, ExecuteIsProgramStep DEF LandLoose, DropLoose
<1> QED
  BY <1>1, <1>2, <1>3, ElsewhereIsProgramStep
     DEF FlowNext, SubmitMark, Send, SkipMark, Reload, flowVars

\* The browser and the world around it implement the program: transactions that are lost, land
\* late, or are sent from a page that shows something else do nothing that a user of the program
\* could not do.  All that is proved of the program holds here.
THEOREM FlowImplementsProgram == FlowSpec => Spec
<1>1. FlowInit => Init
  BY DEF FlowInit
<1> QED
  BY <1>1, FlowStep, PTL DEF FlowSpec, Spec

-----------------------------------------------------------------------------
(***************************************************************************)
(* Types                                                                   *)
(***************************************************************************)

\* FlowTypeOK without the program's part.
AppTypeOK ==
    /\ view \in Views
    /\ step \in [Handlers -> Kinds \cup {"idle", "unmarked", "refetch"}]
    /\ tx \in [Handlers -> Statuses \cup {"none"}]
    /\ \A h \in Handlers : step[h] \in Kinds <=> tx[h] # "none"
    /\ fetch \in [Fetchers -> Views \cup {"no"}]
    /\ loose \subseteq Kinds

\* A snapshot is a view, and the page shows one.
LEMMA SnapshotIsView == \A sighted : Snapshot(sighted) \in Views
  BY DEF Snapshot, Views

\* Between transactions a handler is at a place that is no kind of transaction.
LEMMA PlacesAreNoKinds == {"idle", "unmarked", "refetch"} \cap Kinds = {}
  BY KindNames

\* A handler sends a transaction of a known kind.
LEMMA SendTyped ==
    ASSUME AppTypeOK, NEW h \in Handlers, NEW kind \in Kinds, Send(h, kind)
    PROVE  AppTypeOK'
<1>1. step' = [step EXCEPT ![h] = kind] /\ tx' = [tx EXCEPT ![h] = "pending"]
      /\ UNCHANGED <<view, fetch, loose>>
  BY DEF Send
<1> QED
  BY <1>1 DEF AppTypeOK, Statuses

\* What became of a transaction that was pending.
LEMMA OutcomeTyped ==
    ASSUME AppTypeOK, NEW h \in Handlers, tx[h] = "pending",
           NEW outcome \in Statuses, tx' = [tx EXCEPT ![h] = outcome],
           UNCHANGED <<view, step, fetch, loose>>
    PROVE  AppTypeOK'
  BY DEF AppTypeOK, Statuses

\* A handler ends its wait, one way or the other.
LEMMA WaitEndsTyped ==
    ASSUME AppTypeOK, NEW h \in Handlers, Confirmed(h) \/ Failed(h),
           UNCHANGED <<view, fetch>>, loose' \subseteq Kinds
    PROVE  AppTypeOK'
<1>1. PICK place \in {"idle", "unmarked", "refetch"} : step' = [step EXCEPT ![h] = place]
  BY DEF Confirmed, Failed
<1>2. tx' = [tx EXCEPT ![h] = "none"]
  BY DEF Confirmed, Failed
<1> QED
  BY <1>1, <1>2, PlacesAreNoKinds DEF AppTypeOK

\* A handler's start keeps the types.
LEMMA HandlerTyped ==
    ASSUME AppTypeOK, NEW h \in Handlers, Handler(h)
    PROVE  AppTypeOK'
<1>1. CASE Click(h)
  BY <1>1, KindNames, SendTyped DEF Click
<1>2. CASE Land(h)
  BY <1>2, OutcomeTyped DEF Land, Statuses
<1>3. CASE Bounce(h)
  BY <1>3, OutcomeTyped DEF Bounce, Statuses
<1>4. CASE Expire(h)
  BY <1>4, OutcomeTyped DEF Expire, Statuses
<1>5. CASE PollStatus(h)
  BY <1>5, WaitEndsTyped DEF PollStatus, AppTypeOK
<1>6. CASE PollHeight(h)
  BY <1>6, WaitEndsTyped DEF PollHeight, AppTypeOK
<1>7. CASE PollError(h)
  BY <1>7, WaitEndsTyped DEF PollError, AppTypeOK
<1> QED
  BY <1>1, <1>2, <1>3, <1>4, <1>5, <1>6, <1>7 DEF Handler

\* A handler whose transaction is over goes to a place without one.
LEMMA PlaceTyped ==
    ASSUME AppTypeOK, NEW h \in Handlers, step[h] \notin Kinds,
           NEW place \in {"idle", "refetch"}, step' = [step EXCEPT ![h] = place],
           view' \in Views, fetch' \in [Fetchers -> Views \cup {"no"}],
           UNCHANGED <<tx, loose>>
    PROVE  AppTypeOK'
  BY PlacesAreNoKinds DEF AppTypeOK

\* A handler fetches only at the end, when it waits for no transaction.
FetchesAtEnd == \A h \in Handlers : fetch[h] # "no" => step[h] = "refetch"

\* A fetch is begun by a handler or by the timer.
LEMMA FetcherNames == "timer" \in Fetchers /\ "timer" \notin Handlers /\ Handlers \subseteq Fetchers
  BY HandlerNames DEF Fetchers

\* A handler that starts does not fetch yet.
LEMMA HandlerFetchesAtEnd ==
    ASSUME AppTypeOK, FetchesAtEnd, NEW h \in Handlers, Handler(h)
    PROVE  FetchesAtEnd'
<1>1. UNCHANGED fetch /\ \A g \in Handlers \ {h} : step'[g] = step[g]
  BY DEF Handler, Click, Send, Land, Bounce, Expire, PollStatus, PollHeight, PollError,
         Confirmed, Failed, AppTypeOK
<1>2. step'[h] = step[h] \/ step[h] = "idle" \/ step[h] \in Kinds
  <2>1. tx[h] # "none" => step[h] \in Kinds
    BY DEF AppTypeOK
  <2> QED
    BY <2>1 DEF Handler, Click, Button, Land, Bounce, Expire, PollStatus, PollHeight, PollError
<1>3. fetch[h] = "no" \/ step'[h] = step[h]
  BY <1>2, PlacesAreNoKinds DEF FetchesAtEnd
<1> QED
  BY <1>1, <1>3 DEF FetchesAtEnd

\* The transfer's second transaction, or none, comes between its first and its fetch.
LEMMA TransferGoesOn ==
    ASSUME AppTypeOK, FetchesAtEnd, SubmitMark \/ SkipMark
    PROVE  AppTypeOK' /\ FetchesAtEnd'
<1>1. "transfer" \in Handlers /\ "mark" \in Kinds
  BY HandlerNames, KindNames
<1>2. step["transfer"] = "unmarked" /\ fetch["transfer"] = "no" /\ fetch' = fetch
  BY <1>1 DEF SubmitMark, SkipMark, Send, FetchesAtEnd
<1>3. \A g \in Handlers \ {"transfer"} : step'[g] = step[g]
  BY DEF SubmitMark, SkipMark, Send, AppTypeOK
<1>4. FetchesAtEnd'
  BY <1>2, <1>3 DEF FetchesAtEnd
<1>5. CASE SubmitMark
  BY <1>1, <1>4, <1>5, SendTyped DEF SubmitMark
<1>6. CASE SkipMark
  <2>1. step["transfer"] \notin Kinds
    BY <1>2, PlacesAreNoKinds
  <2>2. step' = [step EXCEPT !["transfer"] = "refetch"] /\ UNCHANGED <<view, tx, fetch, loose>>
    BY <1>6 DEF SkipMark
  <2>3. view' \in Views /\ fetch' \in [Fetchers -> Views \cup {"no"}]
    BY <2>2 DEF AppTypeOK
  <2> QED
    BY <1>1, <1>4, <2>1, <2>2, <2>3, PlaceTyped
<1> QED
  BY <1>5, <1>6

\* A fetch, of a handler or of the timer, begins and ends.
LEMMA FetchTyped ==
    ASSUME AppTypeOK, FetchesAtEnd, NEW f \in Fetchers, NEW b \in BOOLEAN,
           StartFetch(f, b) \/ EndFetch(f, b)
    PROVE  AppTypeOK' /\ FetchesAtEnd'
<1>1. f = "timer" \/ f \in Handlers
  BY DEF Fetchers
<1>2. CASE StartFetch(f, b)
  <2>1. fetch' = [fetch EXCEPT ![f] = Snapshot(b)] /\ UNCHANGED <<view, step, tx, loose>>
    BY <1>2 DEF StartFetch
  <2>2. AppTypeOK'
    BY <2>1, SnapshotIsView DEF AppTypeOK
  <2>3. f # "timer" => step[f] = "refetch"
    BY <1>2 DEF StartFetch
  <2>4. FetchesAtEnd'
    BY <1>1, <2>1, <2>3, FetcherNames DEF AppTypeOK, FetchesAtEnd
  <2> QED
    BY <2>2, <2>4
<1>3. CASE EndFetch(f, b)
  <2>1. fetch' = [fetch EXCEPT ![f] = "no"] /\ fetch[f] # "no" /\ UNCHANGED <<tx, loose>>
    BY <1>3 DEF EndFetch
  <2>2. fetch[f] \in Views /\ fetch' \in [Fetchers -> Views \cup {"no"}]
    BY <2>1 DEF AppTypeOK
  <2>3. view' \in Views
    BY <1>3, <2>2 DEF EndFetch, Shown, AppTypeOK, Views
  <2>4. CASE f = "timer"
    <3>1. step' = step /\ \A h \in Handlers : fetch'[h] = fetch[h]
      BY <1>3, <2>1, <2>4, FetcherNames DEF EndFetch, AppTypeOK
    <3> QED
      BY <2>1, <2>2, <2>3, <3>1 DEF AppTypeOK, FetchesAtEnd
  <2>5. CASE f \in Handlers
    <3>1. step[f] = "refetch" /\ step' = [step EXCEPT ![f] = "idle"]
      BY <1>3, <2>1, <2>5, FetcherNames DEF EndFetch, FetchesAtEnd
    <3>2. AppTypeOK'
      BY <2>1, <2>2, <2>3, <2>5, <3>1, PlacesAreNoKinds, PlaceTyped
    <3>3. FetchesAtEnd'
      BY <2>1, <2>5, <3>1, FetcherNames DEF AppTypeOK, FetchesAtEnd
    <3> QED
      BY <3>2, <3>3
  <2> QED
    BY <1>1, <2>4, <2>5
<1> QED
  BY <1>2, <1>3

\* A reload starts the page anew.
LEMMA ReloadTyped ==
    ASSUME AppTypeOK, Reload
    PROVE  AppTypeOK' /\ FetchesAtEnd'
<1>1. \A h \in Handlers : tx[h] = "pending" => step[h] \in Kinds
  BY DEF AppTypeOK
<1>2. loose' \subseteq Kinds
  BY <1>1 DEF Reload, AppTypeOK
<1> QED
  BY <1>2, PlacesAreNoKinds, FetcherNames DEF Reload, AppTypeOK, FetchesAtEnd, Views, Statuses

\* Every step keeps the types of the page, and that handlers fetch last.
LEMMA StepAppTyped ==
    AppTypeOK /\ FetchesAtEnd /\ [FlowNext]_flowVars => AppTypeOK' /\ FetchesAtEnd'
<1> SUFFICES ASSUME AppTypeOK, FetchesAtEnd, [FlowNext]_flowVars
             PROVE  AppTypeOK' /\ FetchesAtEnd'
  OBVIOUS
<1>1. ASSUME NEW kind \in Kinds, LandLoose(kind) \/ DropLoose(kind)
      PROVE  AppTypeOK' /\ FetchesAtEnd'
  BY <1>1 DEF LandLoose, DropLoose, AppTypeOK, FetchesAtEnd
<1>2. CASE UNCHANGED appVars
  BY <1>2 DEF appVars, AppTypeOK, FetchesAtEnd
<1> QED
  BY <1>1, <1>2, HandlerTyped, HandlerFetchesAtEnd, TransferGoesOn, FetchTyped, ReloadTyped
     DEF FlowNext, Elsewhere, flowVars

\* A page that was just loaded has them.
LEMMA InitAppTyped == FlowInit => AppTypeOK /\ FetchesAtEnd
  BY PlacesAreNoKinds, FetcherNames DEF FlowInit, AppTypeOK, FetchesAtEnd, Views, Statuses

\* In every interleaving of handlers, polls, fetches and reloads every variable has its type, and
\* a handler has a transaction just while it waits for one: none is forgotten by a handler that
\* goes on, none is waited for by a handler that has ended.
THEOREM FlowTypeCorrect == FlowSpec => []FlowTypeOK
<1>1. TypeOK /\ AppTypeOK => FlowTypeOK
  BY DEF AppTypeOK, FlowTypeOK
<1> QED
  BY <1>1, InitAppTyped, StepAppTyped, FlowImplementsProgram, TypeCorrect, PTL DEF FlowSpec

-----------------------------------------------------------------------------
(***************************************************************************)
(* Successes                                                               *)
(***************************************************************************)

\* A handler that leaves its wait for the next step or the final fetch has seen its transaction
\* land, except for the second one of a transfer.
LEMMA LeavesAfterLanding ==
    ASSUME AppTypeOK, FetchesAtEnd, [FlowNext]_flowVars, NEW h \in Handlers,
           step[h] \in Kinds, step'[h] \in {"unmarked", "refetch"}
    PROVE  tx[h] = "landed" \/ (h = "transfer" /\ step[h] = "mark")
<1>1. step \in [Handlers -> Kinds \cup {"idle", "unmarked", "refetch"}]
      /\ step[h] \notin {"idle", "unmarked", "refetch"} /\ step'[h] \notin Kinds
  BY PlacesAreNoKinds DEF AppTypeOK
<1>2. ASSUME NEW g \in Handlers, Handler(g)
      PROVE  tx[h] = "landed" \/ (h = "transfer" /\ step[h] = "mark")
  <2>1. CASE g # h
    <3>1. step'[h] = step[h]
      BY <1>1, <1>2, <2>1 DEF Handler, Click, Send, Land, Bounce, Expire, PollStatus, PollHeight,
                              PollError, Confirmed, Failed
    <3> QED
      BY <1>1, <3>1
  <2>2. CASE g = h /\ Failed(h)
    <3>1. step'[h] = IF h = "transfer" /\ step[h] = "mark" THEN "refetch" ELSE "idle"
      BY <1>1, <2>2 DEF Failed
    <3> QED
      BY <3>1
  <2>3. CASE g = h /\ Click(h)
    BY <1>1, <2>3 DEF Click, Button
  <2> QED
    BY <1>1, <1>2, <2>1, <2>2, <2>3
       DEF Handler, Land, Bounce, Expire, PollStatus, PollHeight, PollError
<1>3. ASSUME SubmitMark \/ SkipMark PROVE FALSE
  <2>1. h # "transfer"
    BY <1>1, <1>3 DEF SubmitMark, SkipMark
  <2>2. step'[h] = step[h]
    BY <1>1, <1>3, <2>1 DEF SubmitMark, SkipMark, Send
  <2> QED
    BY <1>1, <2>2
<1>4. ASSUME NEW f, NEW b, StartFetch(f, b) \/ EndFetch(f, b) PROVE FALSE
  <2>1. step'[h] = step[h] \/ step'[h] = "idle"
    BY <1>1, <1>4 DEF StartFetch, EndFetch
  <2> QED
    BY <1>1, <2>1
<1>5. ASSUME Reload PROVE FALSE
  <2>1. step'[h] = "idle"
    BY <1>5 DEF Reload
  <2> QED
    BY <2>1
<1>6. CASE UNCHANGED step
  BY <1>1, <1>6
<1> QED
  BY <1>2, <1>3, <1>4, <1>5, <1>6 DEF FlowNext, LandLoose, DropLoose, Elsewhere, appVars, flowVars

\* No success is reported that did not happen: a handler goes on as after one only if its
\* transaction was executed, in whatever order statuses, block heights and errors come back.
THEOREM SuccessesHappened == FlowSpec => SuccessWasExecuted
<1>1. AppTypeOK /\ FetchesAtEnd /\ [FlowNext]_flowVars =>
        [\A h \in Handlers :
            (step[h] \in Kinds /\ step'[h] \in {"unmarked", "refetch"})
            => tx[h] = "landed" \/ (h = "transfer" /\ step[h] = "mark")]_flowVars
  BY LeavesAfterLanding
<1> QED
  BY <1>1, InitAppTyped, StepAppTyped, PTL DEF FlowSpec, SuccessWasExecuted
=============================================================================
