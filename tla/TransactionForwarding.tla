------------------------ MODULE TransactionForwarding ------------------------
(***************************************************************************)
(* The SDK's transaction forwarders: a batch of signed transactions is     *)
(* sent one by one over a connection (connection-forwarder.ts) or by a     *)
(* relayer (relayer-forwarder.ts), with sleeps in between, and resumed at  *)
(* an offset after an error.  An error carries no result: what was sent    *)
(* before it is known from the chain only.                                 *)
(*                                                                         *)
(* External: the chain, which executes a signed transaction at most once;  *)
(* the relayer; the caller, who looks at the chain and resumes with the    *)
(* first transaction that has not been executed.                           *)
(***************************************************************************)
EXTENDS Naturals, Sequences

CONSTANT N    \* transactions of the batch

ASSUME NAssumption == N \in Nat \ {0}

Batch == 1..N
NoCode == "none"

VARIABLES
    kind,              \* "connection" or "relayer"
    skipPreflight,     \* an option of the connection
    step,              \* of the call under way
    offset, i,         \* where the call began, and the transaction it is at
    sleeps,            \* the transactions it sleeps before
    results, code,     \* what it returns or throws
    status,            \* of each transaction, on the chain
    asked              \* what the relayer has been given

call == <<step, offset, i, sleeps, results, code>>
options == <<kind, skipPreflight>>
vars == <<options, call, status, asked>>

-----------------------------------------------------------------------------
(***************************************************************************)
(* A call                                                                  *)
(***************************************************************************)

\* The transactions after the first `from` are to be sent, with a sleep before those of `before`.
Begin(from, before) ==
    /\ step' = IF from = N THEN "returned" ELSE "next"
    /\ offset' = from /\ i' = from + 1
    /\ sleeps' = before
    /\ results' = <<>> /\ code' = NoCode
    /\ UNCHANGED <<options, status, asked>>

Throws(c) ==
    /\ step' = "thrown" /\ code' = c
    /\ UNCHANGED <<offset, i, sleeps, results>>

\* A signature is added to the results, and the loop goes on.
Collected ==
    /\ results' = Append(results, i)
    /\ i' = i + 1
    /\ step' = IF i = N THEN "returned" ELSE "next"
    /\ UNCHANGED <<offset, sleeps, code>>

ForwardTransactions ==
    /\ step = "idle"
    /\ Begin(0, {})

ForwardTransactionsWithDelay ==
    /\ step = "idle"
    /\ Begin(0, 2..N)

\* given: which of the delays are not zero.
ForwardTransactionsWithDelays(given) ==
    /\ step = "idle"
    /\ Len(given) \in {0, N - 1}
    /\ Begin(0, {t \in 2..N : Len(given) > 0 /\ given[t - 1]})

\* validateDelayArray
WrongDelays(given) ==
    /\ step = "idle"
    /\ Len(given) \notin {0, N - 1}
    /\ Throws("INVALID_DELAY_ARRAY")
    /\ UNCHANGED <<options, status, asked>>

\* Mutant: the slice begins after the transaction it should begin with.
FromOffsetOfOne(from) == Begin(IF from + 1 <= N THEN from + 1 ELSE N, (from + 3)..N)

ForwardTransactionsFromOffset(from) == Begin(from, (from + 2)..N)

\* The caller's: resume with the first transaction that the chain has not executed.
Resume ==
    /\ step = "thrown" /\ code # "INVALID_DELAY_ARRAY"
    /\ \E t \in Batch :
           /\ status[t] # "executed"
           /\ \A u \in 1..(t - 1) : status[u] = "executed"
           /\ ForwardTransactionsFromOffset(t - 1)

-----------------------------------------------------------------------------
(***************************************************************************)
(* A turn of the loop                                                      *)
(***************************************************************************)

Sleep ==
    /\ step = "next" /\ i \in sleeps
    /\ step' = "awake"
    /\ UNCHANGED <<options, offset, i, sleeps, results, code, status, asked>>

\* A transaction goes out.
SendNow ==
    /\ \/ step = "awake"
       \/ step = "next" /\ i \notin sleeps
    /\ UNCHANGED options

Submitted(t) == [status EXCEPT ![t] = IF @ = "unsent" THEN "pending" ELSE @]

-----------------------------------------------------------------------------
(***************************************************************************)
(* ConnectionForwarder.forwardTransaction                                  *)
(***************************************************************************)

\* sendTransaction is answered; the simulation refuses what is executed or expired.
Send ==
    /\ kind = "connection" /\ SendNow
    /\ IF ~skipPreflight /\ status[i] \in {"executed", "failed", "expired"} THEN
          /\ Throws("SEND_TRANSACTION_ERROR")
          /\ UNCHANGED status
       ELSE
          /\ step' = "confirming"
          /\ status' = Submitted(i)
          /\ UNCHANGED <<offset, i, sleeps, results, code>>
    /\ UNCHANGED asked

\* It is not answered: the transaction may have been sent or not.
SendLost ==
    /\ kind = "connection" /\ SendNow
    /\ Throws("UNKNOWN_ERROR")
    /\ status' \in {status, Submitted(i)}
    /\ UNCHANGED asked

\* Mutant: the result of the confirmation is not looked at.
ConfirmedUnchecked ==
    /\ step = "confirming"
    /\ status[i] \in {"executed", "failed"}
    /\ Collected
    /\ UNCHANGED <<options, status, asked>>

Confirmed ==
    /\ step = "confirming"
    /\ \/ status[i] = "executed" /\ Collected
       \/ status[i] = "failed" /\ Throws("TRANSACTION_FAILED")
    /\ UNCHANGED <<options, status, asked>>

\* confirmTransaction gives up; a transaction that is pending may be executed later.
Unconfirmed ==
    /\ step = "confirming"
    /\ status[i] \in {"pending", "expired"}
    /\ Throws("UNKNOWN_ERROR")
    /\ UNCHANGED <<options, status, asked>>

-----------------------------------------------------------------------------
(***************************************************************************)
(* RelayerForwarder.forwardTransaction                                     *)
(***************************************************************************)

Post ==
    /\ kind = "relayer" /\ SendNow
    /\ asked' = asked \cup {i}
    /\ step' = "posted"
    /\ UNCHANGED <<offset, i, sleeps, results, code, status>>

\* The timer aborts the request, or the network does.  The relayer may go on with it.
NotAnswered ==
    /\ step = "posted"
    /\ Throws("RELAYER_TIMEOUT")
    /\ UNCHANGED <<options, status, asked>>

\* The status line is there: the timer is cleared before the body is read.
Answered ==
    /\ step = "posted" /\ status[i] # "unsent"
    /\ step' = "reading"
    /\ UNCHANGED <<offset, i, sleeps, results, code, options, status, asked>>

\* The body: a signature, or a refusal of what the chain will not execute (again).
BodyRead ==
    /\ step = "reading"
    /\ \/ status[i] \in {"pending", "executed"} /\ Collected
       \/ status[i] \in {"executed", "failed", "expired"} /\ Throws("RELAYER_FAILED")
    /\ UNCHANGED <<options, status, asked>>

RelayerSubmits(t) ==
    /\ t \in asked /\ status[t] = "unsent"
    /\ status' = Submitted(t)
    /\ UNCHANGED <<options, call, asked>>

-----------------------------------------------------------------------------
(***************************************************************************)
(* The chain                                                               *)
(***************************************************************************)

Lands(t) ==
    /\ status[t] = "pending"
    /\ status' \in {[status EXCEPT ![t] = s] : s \in {"executed", "failed"}}
    /\ UNCHANGED <<options, call, asked>>

\* The blockhash that a transaction was signed with grows too old.
Expires(t) ==
    /\ status[t] \in {"unsent", "pending"} /\ step # "idle"
    /\ status' = [status EXCEPT ![t] = "expired"]
    /\ UNCHANGED <<options, call, asked>>

-----------------------------------------------------------------------------
Init ==
    /\ kind \in {"connection", "relayer"} /\ skipPreflight \in BOOLEAN
    /\ step = "idle" /\ offset = 0 /\ i = 1 /\ sleeps = {} /\ results = <<>> /\ code = NoCode
    /\ status = [t \in Batch |-> "unsent"]
    /\ asked = {}

DelayArrays == UNION {[1..n -> BOOLEAN] : n \in 0..N}

Next ==
    \/ ForwardTransactions
    \/ ForwardTransactionsWithDelay
    \/ \E given \in DelayArrays : ForwardTransactionsWithDelays(given) \/ WrongDelays(given)
    \/ Resume
    \/ Sleep \/ Send \/ SendLost \/ Confirmed \/ Unconfirmed
    \/ Post \/ NotAnswered \/ Answered \/ BodyRead
    \/ \E t \in Batch : RelayerSubmits(t) \/ Lands(t) \/ Expires(t)

Spec == Init /\ [][Next]_vars

\* The event loop runs what is ready, confirmTransaction gives up some time, the timer of a
\* request fires, and the relayer ends the answers that it begins.  The caller resumes, the chain
\* and the relayer get on with what they have, and what is tried again and again works some time.
Fairness ==
    /\ WF_vars(Sleep)
    /\ WF_vars(Send \/ SendLost \/ Post)
    /\ WF_vars(Confirmed \/ Unconfirmed)
    /\ WF_vars(NotAnswered \/ Answered) /\ WF_vars(BodyRead)
    /\ WF_vars(Resume)
    /\ WF_vars(\E t \in Batch : RelayerSubmits(t))
    /\ WF_vars(\E t \in Batch : Lands(t))
    /\ SF_vars(Send) /\ SF_vars(Answered)

FairSpec == Spec /\ Fairness

-----------------------------------------------------------------------------
(***************************************************************************)
(* Properties                                                              *)
(***************************************************************************)

\* Every variable holds a value of its type.
TypeOK ==
    /\ kind \in {"connection", "relayer"} /\ skipPreflight \in BOOLEAN
    /\ step \in {"idle", "next", "awake", "confirming", "posted", "reading", "returned", "thrown"}
    /\ offset \in 0..N /\ i \in 1..(N + 1) /\ sleeps \subseteq Batch
    /\ results \in Seq(Batch)
    /\ code \in {NoCode, "INVALID_DELAY_ARRAY", "SEND_TRANSACTION_ERROR", "UNKNOWN_ERROR",
                 "TRANSACTION_FAILED", "RELAYER_TIMEOUT", "RELAYER_FAILED"}
    /\ status \in [Batch -> {"unsent", "pending", "executed", "failed", "expired"}]
    /\ asked \subseteq Batch

\* The results of a call are the signatures of the transactions from its offset on, without a
\* gap; over a connection, each has been executed without an error.
ResultsAreExecuted ==
    /\ Len(results) <= N - offset
    /\ step = "returned" => Len(results) = N - offset
    /\ \A k \in 1..Len(results) :
           /\ results[k] = offset + k
           /\ kind = "connection" => status[results[k]] = "executed"

\* Over a connection, whatever was lost, given up or executed late, and however often the batch
\* was resumed, a transaction is sent only when all before it have been executed.
KeepsOrder ==
    kind = "connection" =>
        \A t \in Batch : status[t] \in {"pending", "executed", "failed"} =>
            \A u \in 1..(t - 1) : status[u] = "executed"

\* A batch that is resumed after each error is executed to its end, or to a transaction that
\* fails or expires: timeouts and late executions neither skip nor block the rest.
BatchCompletes ==
    (step = "next") ~> \/ \A t \in Batch : status[t] = "executed"
                       \/ \E t \in Batch : status[t] \in {"failed", "expired"}
=============================================================================
