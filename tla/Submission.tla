----------------------------- MODULE Submission -----------------------------
(***************************************************************************)
(* One Soroban transaction from the sequence-number read to the answer the *)
(* caller gets: sdkt-rpc's get_next_sequence, simulate_transaction,        *)
(* send_transaction, submit_and_wait and poll_transaction, all of them     *)
(* driven through SorobanRpcClient::request and its two-attempt budget.    *)
(*                                                                         *)
(* Several transactions, of the same or of different source accounts, run  *)
(* concurrently against one RPC node.  The node, the ledger and the wire   *)
(* are external: the wire may deliver a request whose answer the client    *)
(* has stopped waiting for, and may do so long after the client returned.  *)
(***************************************************************************)
EXTENDS Integers, FiniteSets

CONSTANTS
    Tx,         \* signed envelopes; an envelope and its hash are the same thing
    Accounts,   \* source accounts
    Source,     \* [Tx -> Accounts]
    Waiting,    \* the transactions submitted with wait = true
    Timeout,    \* PollConfig.timeout, in clock ticks
    Interval,   \* PollConfig.interval, in clock ticks
    MaxSeq      \* bound: other wallets stop using an account at this sequence

(* validate_poll_pair rejects every other pair before anything is sent.    *)
ASSUME PollPairAssumption ==
    /\ Timeout \in Nat /\ Interval \in Nat
    /\ Interval > 0 /\ Timeout >= Interval

ASSUME TxAssumption ==
    /\ Source \in [Tx -> Accounts]
    /\ Waiting \subseteq Tx
    /\ MaxSeq \in Nat

VARIABLES
    \* the network (external)
    seqNum,     \* the ledger's sequence number of every account
    queue,      \* transactions in the node's queue
    ledger,     \* what the ledger says of every transaction
    wire,       \* sendTransaction requests the client gave up on, still in transit
    \* the client
    pc,         \* the request every transaction is in
    attempt,    \* failed attempts of that request
    seqOf,      \* sequence number put into the envelope, 0 before it is read
    elapsed,    \* poll_transaction's clock
    outcome     \* what the caller was told

network == <<seqNum, queue, ledger, wire>>
client  == <<pc, attempt, seqOf, elapsed, outcome>>
vars    == <<network, client>>

MaxAttempts == 2

Requests == {"sequence", "simulate", "send", "poll"}

(* The answers a caller can get.  "failed" is a settled failure, "bad_seq" *)
(* and "rejected" are sendTransaction's ERROR with its two kinds of code,  *)
(* "pending" is the answer without --wait, "err_*" an RpcError raised by   *)
(* the request named.                                                      *)
Errors   == {"err_sequence", "err_simulate", "err_send", "err_poll"}
Outcomes == {"none", "success", "failed", "bad_seq", "rejected", "pending",
             "timeout"} \cup Errors

ErrorOf(request) ==
    IF request = "sequence" THEN "err_sequence"
    ELSE IF request = "simulate" THEN "err_simulate"
    ELSE IF request = "send" THEN "err_send" ELSE "err_poll"

(* All variables stay in their types.                                     *)
TypeOK ==
    /\ seqNum \in [Accounts -> Nat]
    /\ queue \subseteq Tx
    /\ ledger \in [Tx -> {"none", "success", "failed"}]
    /\ wire \in [Tx -> Nat]
    /\ pc \in [Tx -> Requests \cup {"idle", "done"}]
    /\ attempt \in [Tx -> 0 .. MaxAttempts]
    /\ seqOf \in [Tx -> Nat]
    /\ elapsed \in [Tx -> 0 .. Timeout]
    /\ outcome \in [Tx -> Outcomes]

Init ==
    /\ seqNum = [a \in Accounts |-> 0]
    /\ queue = {}
    /\ ledger = [t \in Tx |-> "none"]
    /\ wire = [t \in Tx |-> 0]
    /\ pc = [t \in Tx |-> "idle"]
    /\ attempt = [t \in Tx |-> 0]
    /\ seqOf = [t \in Tx |-> 0]
    /\ elapsed = [t \in Tx |-> 0]
    /\ outcome = [t \in Tx |-> "none"]

-----------------------------------------------------------------------------
(* The RPC node's handling of one sendTransaction request (external).  A   *)
(* transaction the ledger has already applied is no duplicate any more:    *)
(* its sequence number is used up.                                         *)
NodeHandles(t, status) ==
    \/ /\ status = "DUPLICATE"
       /\ t \in queue
       /\ UNCHANGED queue
    \/ /\ status = "BAD_SEQ"
       /\ t \notin queue
       /\ seqOf[t] # seqNum[Source[t]] + 1
       /\ UNCHANGED queue
    \/ /\ status \in {"ERROR", "TRY_AGAIN_LATER"}
       /\ t \notin queue
       /\ UNCHANGED queue
    \/ /\ status = "PENDING"
       /\ t \notin queue
       /\ seqOf[t] = seqNum[Source[t]] + 1
       /\ \A u \in queue : Source[u] # Source[t]
       /\ queue' = queue \cup {t}

Statuses == {"DUPLICATE", "BAD_SEQ", "ERROR", "TRY_AGAIN_LATER", "PENDING"}

(* A request the client no longer waits for reaches the node.              *)
Deliver(t) ==
    /\ wire[t] > 0
    /\ wire' = [wire EXCEPT ![t] = @ - 1]
    /\ \E status \in Statuses : NodeHandles(t, status)
    /\ UNCHANGED <<seqNum, ledger, client>>

(* A ledger closes over a queued transaction.  Success or not, it consumes *)
(* the sequence number.                                                    *)
Apply(t, result) ==
    /\ t \in queue
    /\ seqOf[t] = seqNum[Source[t]] + 1
    /\ queue' = queue \ {t}
    /\ seqNum' = [seqNum EXCEPT ![Source[t]] = seqOf[t]]
    /\ ledger' = [ledger EXCEPT ![t] = result]
    /\ UNCHANGED <<wire, client>>

(* The node evicts a queued transaction.                                   *)
Evict(t) ==
    /\ t \in queue
    /\ queue' = queue \ {t}
    /\ UNCHANGED <<seqNum, ledger, wire, client>>

(* Another wallet uses the account.                                        *)
ForeignTx(a) ==
    /\ seqNum[a] < MaxSeq
    /\ seqNum' = [seqNum EXCEPT ![a] = @ + 1]
    /\ UNCHANGED <<queue, ledger, wire, client>>

-----------------------------------------------------------------------------
Return(t, answer) ==
    /\ pc' = [pc EXCEPT ![t] = "done"]
    /\ outcome' = [outcome EXCEPT ![t] = answer]

(* A request succeeded: the next one starts with a fresh budget.           *)
Proceed(t, request) ==
    /\ pc' = [pc EXCEPT ![t] = request]
    /\ attempt' = [attempt EXCEPT ![t] = 0]

(* Whether a failed send left the request in transit.  A connection that   *)
(* was never made did not; an answer that timed out, a 5xx from a gateway  *)
(* or a body that could not be read may have.                              *)
MayStayInTransit(t) ==
    IF pc[t] = "send" THEN wire' \in {wire, [wire EXCEPT ![t] = @ + 1]}
                      ELSE UNCHANGED wire

(* Mutant: the budget is refilled after the back-off.                      *)
RetryableFailureRefilled(t) ==
    /\ pc[t] \in Requests
    /\ attempt' = [attempt EXCEPT ![t] = (@ + 1) % MaxAttempts]
    /\ MayStayInTransit(t)
    /\ UNCHANGED <<seqNum, queue, ledger, seqOf, elapsed, pc, outcome>>

(* request(): a timeout, a connect error, a 429 or a 5xx is retried once   *)
(* after the back-off; the second one is returned.                         *)
RetryableFailure(t) ==
    /\ pc[t] \in Requests
    /\ attempt' = [attempt EXCEPT ![t] = @ + 1]
    /\ IF attempt[t] + 1 < MaxAttempts
       THEN UNCHANGED <<pc, outcome>>
       ELSE Return(t, ErrorOf(pc[t]))
    /\ MayStayInTransit(t)
    /\ UNCHANGED <<seqNum, queue, ledger, seqOf, elapsed>>

(* request(): any other transport error, any other HTTP status, a body     *)
(* that does not decode, a JSON-RPC error or a missing result is returned  *)
(* at once.  The same exit stands for what the callers reject in a good    *)
(* answer: no account entry, a simulation error, no transaction data, an   *)
(* unparsable fee.                                                         *)
FatalFailure(t) ==
    /\ pc[t] \in Requests
    /\ Return(t, ErrorOf(pc[t]))
    /\ MayStayInTransit(t)
    /\ UNCHANGED <<seqNum, queue, ledger, attempt, seqOf, elapsed>>

-----------------------------------------------------------------------------
Begin(t) ==
    /\ pc[t] = "idle"
    /\ Proceed(t, "sequence")
    /\ UNCHANGED <<network, seqOf, elapsed, outcome>>

(* The sequence is the ledger's, plus one: queued transactions are not     *)
(* counted.                                                                *)
GetNextSequence(t) ==
    /\ pc[t] = "sequence"
    /\ seqOf' = [seqOf EXCEPT ![t] = seqNum[Source[t]] + 1]
    /\ Proceed(t, "simulate")
    /\ UNCHANGED <<network, elapsed, outcome>>

(* simulate, adopt footprint and fee, build and sign the final envelope.   *)
SimulateTransaction(t) ==
    /\ pc[t] = "simulate"
    /\ Proceed(t, "send")
    /\ UNCHANGED <<network, seqOf, elapsed, outcome>>

(* Mutant: an answer other than SUCCESS is taken for a rejection.          *)
SendTransactionRejectsPending(t) ==
    /\ pc[t] = "send"
    /\ \E status \in Statuses : NodeHandles(t, status)
    /\ Return(t, "rejected")
    /\ elapsed' = [elapsed EXCEPT ![t] = 0]
    /\ UNCHANGED <<seqNum, ledger, wire, seqOf, attempt>>

(* submit_and_wait with the node's answer: ERROR is final, and every other *)
(* status, TRY_AGAIN_LATER included, goes on to poll when waiting.  The    *)
(* attempts the send took are kept in the outcome's `attempt`.             *)
SendTransaction(t) ==
    /\ pc[t] = "send"
    /\ \/ /\ NodeHandles(t, "BAD_SEQ")
          /\ Return(t, "bad_seq")
          /\ UNCHANGED attempt
       \/ /\ NodeHandles(t, "ERROR")
          /\ Return(t, "rejected")
          /\ UNCHANGED attempt
       \/ /\ \E status \in Statuses \ {"BAD_SEQ", "ERROR"} : NodeHandles(t, status)
          /\ t \in Waiting
          /\ Proceed(t, "poll")
          /\ UNCHANGED outcome
       \/ /\ \E status \in Statuses \ {"BAD_SEQ", "ERROR"} : NodeHandles(t, status)
          /\ t \notin Waiting
          /\ Return(t, "pending")
          /\ UNCHANGED attempt
    /\ elapsed' = [elapsed EXCEPT ![t] = 0]
    /\ UNCHANGED <<seqNum, ledger, wire, seqOf>>

(* Mutant: a transaction not found when the time is up counts as failed.   *)
PollTransactionTimeoutFails(t) ==
    /\ pc[t] = "poll"
    /\ Return(t, IF ledger[t] = "success" THEN "success" ELSE "failed")
    /\ UNCHANGED <<network, seqOf, attempt, elapsed>>

(* One turn of poll_transaction: the answer arrives at time `now`; an      *)
(* unsettled transaction times out at `Timeout`, otherwise the loop sleeps *)
(* for one interval.                                                       *)
PollTransaction(t) ==
    /\ pc[t] = "poll"
    /\ \E now \in elapsed[t] .. Timeout :
         \/ /\ ledger[t] # "none"
            /\ Return(t, ledger[t])
            /\ UNCHANGED <<attempt, elapsed>>
         \/ /\ ledger[t] = "none" /\ now >= Timeout
            /\ Return(t, "timeout")
            /\ UNCHANGED <<attempt, elapsed>>
         \/ /\ ledger[t] = "none" /\ now < Timeout
            /\ elapsed' = [elapsed EXCEPT ![t] =
                              IF now + Interval < Timeout THEN now + Interval
                                                          ELSE Timeout]
            /\ Proceed(t, "poll")
            /\ UNCHANGED outcome
    /\ UNCHANGED <<network, seqOf>>

-----------------------------------------------------------------------------
ClientStep(t) ==
    \/ GetNextSequence(t) \/ SimulateTransaction(t) \/ SendTransaction(t)
    \/ PollTransaction(t) \/ RetryableFailure(t) \/ FatalFailure(t)

NetworkStep ==
    \/ \E t \in Tx : Deliver(t) \/ Evict(t) \/ Apply(t, "success") \/ Apply(t, "failed")
    \/ \E a \in Accounts : ForeignTx(a)

Next ==
    \/ \E t \in Tx : Begin(t) \/ ClientStep(t)
    \/ NetworkStep

(* Every request ends, because the HTTP client has a timeout, and the      *)
(* async runtime resumes every sleep: a client that has begun keeps going. *)
(* Nothing is promised of the network.                                     *)
Fairness == \A t \in Tx : WF_vars(ClientStep(t))

Spec == Init /\ [][Next]_vars /\ Fairness
-----------------------------------------------------------------------------
(* What the answers mean.                                                  *)

(* Nothing of t is in the network, or ever will be without a new send.     *)
Untouched(t) == ledger[t] = "none" /\ t \notin queue /\ wire[t] = 0

(* poll_transaction's SUCCESS and FAILED are the ledger's verdict, now and *)
(* for ever, whatever was lost, delayed or sent twice on the way.          *)
SettledAnswersAreTrue ==
    \A t \in Tx : outcome[t] \in {"success", "failed"} => ledger[t] = outcome[t]

(* An ERROR that answers the first attempt of sendTransaction is final:    *)
(* the transaction is not queued, not in transit and never reaches the     *)
(* ledger.  After a retried attempt no such thing can be said.             *)
FirstRejectionIsFinal ==
    \A t \in Tx :
        outcome[t] \in {"bad_seq", "rejected"} /\ attempt[t] = 0 => Untouched(t)

(* An error raised while the envelope is prepared leaves no trace.         *)
PrepareErrorLeavesNoTrace ==
    \A t \in Tx : outcome[t] \in {"err_sequence", "err_simulate"} => Untouched(t)

(* Sending the same signed envelope again is safe: request() builds its    *)
(* payload once, so a transaction the ledger has applied is never queued   *)
(* again and its sequence number stays used up.                            *)
ResendIsIdempotent ==
    \A t \in Tx : ledger[t] # "none" =>
        t \notin queue /\ seqOf[t] <= seqNum[Source[t]]

(* What is settled with the network stays settled: neither a rejected      *)
(* envelope nor an applied one is ever queued again, whatever is delayed,  *)
(* duplicated or sent anew by request().                                   *)
SettledStaysSettled == FirstRejectionIsFinal /\ ResendIsIdempotent

(* submit_and_wait always comes back: the retry budget and the poll        *)
(* timeout bound every wait.                                               *)
AlwaysAnswered == \A t \in Tx : pc[t] \in Requests ~> pc[t] = "done"

(* submit_and_wait's doc: "`status` on return reflects the final state     *)
(* reached".  Stated of the failures that are a verdict on the envelope:   *)
(* a settled one, and the tx_bad_seq rejection of sendTransaction.         *)
StatusReflectsFinalState ==
    \A t \in Tx : outcome[t] \in {"failed", "bad_seq"} => ledger[t] # "success"
-----------------------------------------------------------------------------
(* The inductive invariant behind the four answers.                        *)

(* Every client phase before the first send has left no trace.             *)
UnsentIsUntouched ==
    \A t \in Tx :
        \/ pc[t] \in {"idle", "sequence", "simulate"}
        \/ pc[t] = "send" /\ attempt[t] = 0
        => Untouched(t)

(* A transaction has an answer exactly when its call has returned, and a   *)
(* running request has budget left.                                        *)
AnswerMeansDone ==
    \A t \in Tx :
        /\ outcome[t] # "none" <=> pc[t] = "done"
        /\ pc[t] \in Requests => attempt[t] < MaxAttempts

IInv ==
    /\ TypeOK
    /\ UnsentIsUntouched
    /\ AnswerMeansDone
    /\ SettledAnswersAreTrue
    /\ FirstRejectionIsFinal
    /\ PrepareErrorLeavesNoTrace
    /\ ResendIsIdempotent
=============================================================================
