---------------------------- MODULE DeployProofs -----------------------------
(***************************************************************************)
(* What submit_and_wait's answers mean, for every set of transactions and  *)
(* accounts, every poll pair and every bound; and that the deployment      *)
(* protocol built on it keeps the promise of DeployPromise, for every      *)
(* number of deployments, every account and every assignment of ids.       *)
(***************************************************************************)
EXTENDS Deploy, FiniteSetTheorems, TLAPS

-----------------------------------------------------------------------------
(* Submission                                                              *)

(* The initial state satisfies the inductive invariant.                    *)
LEMMA InitIInv == Init => IInv
  BY PollPairAssumption, TxAssumption
     DEF Init, IInv, TypeOK, UnsentIsUntouched, AnswerMeansDone, Untouched,
         SettledAnswersAreTrue, FirstRejectionIsFinal, Requests, Outcomes,
         PrepareErrorLeavesNoTrace, ResendIsIdempotent, MaxAttempts

(* A step of the network keeps every answer true.                          *)
LEMMA NetworkKeepsIInv == IInv /\ NetworkStep => IInv'
<1> SUFFICES ASSUME IInv, NetworkStep PROVE IInv'
  OBVIOUS
<1> USE PollPairAssumption, TxAssumption
    DEF IInv, TypeOK, UnsentIsUntouched, AnswerMeansDone, Untouched,
        SettledAnswersAreTrue, FirstRejectionIsFinal, Requests,
        PrepareErrorLeavesNoTrace, ResendIsIdempotent, MaxAttempts, client
<1>1. ASSUME NEW t \in Tx, Deliver(t) PROVE IInv'
  BY <1>1 DEF Deliver, NodeHandles, Statuses
<1>2. ASSUME NEW t \in Tx, Evict(t) PROVE IInv'
  BY <1>2 DEF Evict
<1>3. ASSUME NEW t \in Tx, NEW r \in {"success", "failed"}, Apply(t, r) PROVE IInv'
  BY <1>3 DEF Apply
<1>4. ASSUME NEW a \in Accounts, ForeignTx(a) PROVE IInv'
  BY <1>4 DEF ForeignTx
<1> QED
  BY <1>1, <1>2, <1>3, <1>4 DEF NetworkStep

(* A step of one client keeps every answer true.                           *)
LEMMA ClientKeepsIInv ==
  ASSUME IInv, NEW t \in Tx, Begin(t) \/ ClientStep(t) PROVE IInv'
<1> USE PollPairAssumption, TxAssumption
    DEF IInv, TypeOK, UnsentIsUntouched, AnswerMeansDone, Untouched,
        SettledAnswersAreTrue, FirstRejectionIsFinal, Requests, Outcomes, Errors,
        PrepareErrorLeavesNoTrace, ResendIsIdempotent, MaxAttempts, network,
        Proceed, Return
<1>1. CASE Begin(t)
  BY <1>1 DEF Begin
<1>2. CASE GetNextSequence(t)
  BY <1>2 DEF GetNextSequence
<1>3. CASE SimulateTransaction(t)
  BY <1>3 DEF SimulateTransaction
<1>4. CASE SendTransaction(t)
  BY <1>4 DEF SendTransaction, NodeHandles, Statuses
<1>5. CASE PollTransaction(t)
  BY <1>5 DEF PollTransaction
<1>6. CASE RetryableFailure(t)
  BY <1>6 DEF RetryableFailure, MayStayInTransit, ErrorOf
<1>7. CASE FatalFailure(t)
  BY <1>7 DEF FatalFailure, MayStayInTransit, ErrorOf
<1> QED
  BY <1>1, <1>2, <1>3, <1>4, <1>5, <1>6, <1>7 DEF ClientStep

(* Stuttering changes nothing the invariant speaks of.                     *)
LEMMA StutterKeepsIInv == IInv /\ UNCHANGED vars => IInv'
  BY DEF vars, network, client, IInv, TypeOK, UnsentIsUntouched, AnswerMeansDone,
         Untouched, SettledAnswersAreTrue, FirstRejectionIsFinal,
         PrepareErrorLeavesNoTrace, ResendIsIdempotent

(* Every step keeps the inductive invariant.                               *)
LEMMA NextKeepsIInv == IInv /\ [Next]_vars => IInv'
  BY NetworkKeepsIInv, ClientKeepsIInv, StutterKeepsIInv DEF Next

(* The inductive invariant holds of every behaviour, fair or not.          *)
THEOREM InductiveInvariant == Spec => []IInv
  BY InitIInv, NextKeepsIInv, PTL DEF Spec

(* poll_transaction's verdict is the ledger's, in every behaviour.         *)
THEOREM AnswersAreTrue == Spec => []SettledAnswersAreTrue
<1>1. IInv => SettledAnswersAreTrue
  BY DEF IInv
<1> QED
  BY <1>1, InductiveInvariant, PTL

(* A first-attempt rejection is final, in every behaviour.                 *)
THEOREM RejectionsAreFinal == Spec => []FirstRejectionIsFinal
<1>1. IInv => FirstRejectionIsFinal
  BY DEF IInv
<1> QED
  BY <1>1, InductiveInvariant, PTL

(* A failed preparation leaves nothing behind, in every behaviour.         *)
THEOREM PrepareErrorsAreClean == Spec => []PrepareErrorLeavesNoTrace
<1>1. IInv => PrepareErrorLeavesNoTrace
  BY DEF IInv
<1> QED
  BY <1>1, InductiveInvariant, PTL

(* Resending an envelope never applies it twice, in every behaviour.       *)
THEOREM ResendsAreIdempotent == Spec => []ResendIsIdempotent
<1>1. IInv => ResendIsIdempotent
  BY DEF IInv
<1> QED
  BY <1>1, InductiveInvariant, PTL

(* Neither a rejected nor an applied envelope is queued again, in every    *)
(* behaviour of request() and of the wire.                                 *)
THEOREM SettledForGood == Spec => []SettledStaysSettled
<1>1. FirstRejectionIsFinal /\ ResendIsIdempotent => SettledStaysSettled
  BY DEF SettledStaysSettled
<1> QED
  BY <1>1, RejectionsAreFinal, ResendsAreIdempotent, PTL

-----------------------------------------------------------------------------
(* Deployment                                                              *)

(* The two transactions of a call are transactions, and no two calls share *)
(* one.                                                                    *)
LEMMA TxsOfCalls ==
  /\ \A p \in Procs : Upload(p) \in Tx /\ Create(p) \in Tx
  /\ \A p, q \in Procs : Upload(p) # Create(q)
  /\ \A p, q \in Procs : p # q => Upload(p) # Upload(q) /\ Create(p) # Create(q)
  BY DeployAssumption DEF Upload, Create

(* Every step of the protocol is, of its transactions, a Submission step.  *)
LEMMA DeployIsSubmission == [DeployNext]_deployVars => [Next]_vars
<1> SUFFICES ASSUME [DeployNext]_deployVars PROVE [Next]_vars
  OBVIOUS
<1>1. CASE \E p \in Procs : DeployStep(p)
  BY <1>1, TxsOfCalls
     DEF DeployStep, DeployContract, UploadSucceeded, UploadFailed, CreateReturned, Next
<1>2. CASE NetworkOrClient
  BY <1>2 DEF NetworkOrClient, Next, NetworkStep
<1>3. CASE \E t \in Tx, r \in {"success", "failed"} : ApplyOnLedger(t, r)
  BY <1>3 DEF ApplyOnLedger, Next, NetworkStep
<1>4. CASE UNCHANGED deployVars
  BY <1>4 DEF deployVars
<1> QED
  BY <1>1, <1>2, <1>3, <1>4 DEF DeployNext

(* The inductive invariant of the protocol, initially.                     *)
LEMMA DeployInitInv == DeployInit => DeployInv
  BY InitIInv, TxsOfCalls DEF DeployInit, DeployInv, CallInv, Init

(* Whether and how far a client step moves a transaction, as CallInv needs *)
(* it: it starts none, and a transaction that has an answer keeps it.      *)
LEMMA ClientMoves ==
  ASSUME IInv, [Next]_vars, NEW u \in Tx
  PROVE  /\ pc[u] = "done" => pc'[u] = "done" /\ outcome'[u] = outcome[u]
         /\ outcome[u] # "none" => outcome'[u] = outcome[u]
  BY PollPairAssumption, TxAssumption
     DEF IInv, TypeOK, AnswerMeansDone, Next, NetworkStep, ClientStep, Begin,
         GetNextSequence, SimulateTransaction, SendTransaction, PollTransaction,
         RetryableFailure, FatalFailure, Deliver, Evict, Apply, ForeignTx,
         Proceed, Return, Requests, client, network, vars


(* Only Begin takes a transaction out of "idle".                           *)
LEMMA IdleStaysIdle ==
  ASSUME IInv, NEW u \in Tx, pc[u] = "idle",
         NetworkStep \/ (\E t \in Tx : ClientStep(t)) \/ UNCHANGED vars
  PROVE  pc'[u] = "idle"
  BY PollPairAssumption, TxAssumption
     DEF IInv, TypeOK, NetworkStep, ClientStep, GetNextSequence,
         SimulateTransaction, SendTransaction, PollTransaction, RetryableFailure,
         FatalFailure, Deliver, Evict, Apply, ForeignTx, Proceed, Return, Requests,
         client, network, vars

(* Every step of the protocol keeps its inductive invariant.               *)
LEMMA DeployNextInv == DeployInv /\ [DeployNext]_deployVars => DeployInv'
<1> SUFFICES ASSUME DeployInv, [DeployNext]_deployVars PROVE DeployInv'
  OBVIOUS
<1>1. IInv /\ IInv' /\ [Next]_vars
  BY NextKeepsIInv, DeployIsSubmission DEF DeployInv
<1>2. \A u \in Tx :
        /\ pc[u] = "done" => pc'[u] = "done" /\ outcome'[u] = outcome[u]
        /\ outcome[u] # "none" => outcome'[u] = outcome[u]
  BY <1>1, ClientMoves
<1>3. ASSUME NEW p \in Procs, DeployContract(p) PROVE DeployInv'
  BY <1>1, <1>2, <1>3, TxsOfCalls
     DEF DeployInv, CallInv, DeployContract, Finish, Begin, Proceed, IInv, TypeOK
<1>4. ASSUME NEW p \in Procs, UploadSucceeded(p) PROVE DeployInv'
  BY <1>1, <1>2, <1>4, TxsOfCalls
     DEF DeployInv, CallInv, UploadSucceeded, Uploading, Begin, Proceed, IInv, TypeOK
<1>5. ASSUME NEW p \in Procs, UploadFailed(p) PROVE DeployInv'
  BY <1>1, <1>5, TxsOfCalls
     DEF DeployInv, CallInv, UploadFailed, Uploading, Finish, vars, client
<1>6. ASSUME NEW p \in Procs, CreateReturned(p) PROVE DeployInv'
  BY <1>1, <1>6, TxsOfCalls
     DEF DeployInv, CallInv, CreateReturned, Finish, vars, client
<1>7. CASE UNCHANGED result /\ (NetworkStep \/ (\E t \in Tx : ClientStep(t)) \/ UNCHANGED vars)
  <2>1. \A u \in Tx : pc[u] = "idle" => pc'[u] = "idle"
    BY <1>1, <1>7, IdleStaysIdle
  <2>2. ASSUME NEW p \in Procs PROVE CallInv(p)'
    <3>1. Upload(p) \in Tx /\ Create(p) \in Tx /\ CallInv(p) /\ result' = result
      BY <1>7, TxsOfCalls DEF DeployInv
    <3> QED
      BY <1>2, <2>1, <3>1 DEF CallInv
  <2> QED
    BY <1>1, <1>7, <2>2 DEF DeployInv
<1> QED
  BY <1>3, <1>4, <1>5, <1>6, <1>7
     DEF DeployNext, DeployStep, NetworkOrClient, ApplyOnLedger, NetworkStep, deployVars

(* The protocol's inductive invariant holds of every behaviour.            *)
THEOREM DeployInvariant == DeploySpec => []DeployInv
  BY DeployInitInv, DeployNextInv, PTL DEF DeploySpec


(* The initial states of the protocol are initial states of the promise.   *)
LEMMA InitRefines == DeployInit => Promise!PromiseInit
  BY TxsOfCalls DEF DeployInit, Init, Promise!PromiseInit, landed

(* A step that leaves the ledger alone lands nothing.                      *)
LEMMA SameLedgerSameLanded == ledger' = ledger => landed' = landed
  BY DEF landed

(* Only the ledger's own step changes what it says of a transaction.       *)
LEMMA LedgerMoves ==
  (\E t \in Tx : Begin(t) \/ ClientStep(t) \/ Deliver(t) \/ Evict(t))
  \/ (\E a \in Accounts : ForeignTx(a)) => ledger' = ledger
  BY DEF Begin, ClientStep, GetNextSequence, SimulateTransaction, SendTransaction,
         PollTransaction, RetryableFailure, FatalFailure, Deliver, Evict, ForeignTx,
         network

(* A create that the ledger executes belongs to a call that is running or  *)
(* has had an ambiguous answer: the four other results exclude a queued    *)
(* create.                                                                 *)
LEMMA QueuedCreateIsAllowed ==
  ASSUME DeployInv, NEW p \in Procs, Create(p) \in queue
  PROVE  result[p] = "running" \/ Promise!Ambiguous(p)
<1>1. Create(p) \in Tx /\ CallInv(p) /\ IInv
  BY TxsOfCalls DEF DeployInv
<1>2. /\ ledger[Create(p)] = "none"
      /\ pc[Create(p)] # "idle"
      /\ outcome[Create(p)] # "err_sequence"
  BY <1>1 DEF IInv, ResendIsIdempotent, UnsentIsUntouched, Untouched,
              PrepareErrorLeavesNoTrace
<1>3. outcome[Create(p)] # "success"
  BY <1>1, <1>2 DEF IInv, SettledAnswersAreTrue
<1> QED
  BY <1>1, <1>2, <1>3 DEF CallInv, Promise!Ambiguous

(* Every step of the protocol is a step of the promise or changes nothing  *)
(* the promise speaks of.                                                  *)
LEMMA StepRefines ==
  DeployInv /\ [DeployNext]_deployVars => [Promise!PromiseNext]_(Promise!promiseVars)
<1> SUFFICES ASSUME DeployInv, [DeployNext]_deployVars
             PROVE  Promise!PromiseNext \/ UNCHANGED <<result, landed>>
  BY DEF Promise!promiseVars
<1> USE DEF Promise!PromiseNext, Promise!Answer
<1>1. ASSUME NEW p \in Procs, DeployContract(p) PROVE Promise!PromiseNext
  BY <1>1, TxsOfCalls, LedgerMoves, SameLedgerSameLanded
     DEF DeployContract, Finish, Promise!Start
<1>2. ASSUME NEW p \in Procs, UploadSucceeded(p) PROVE UNCHANGED <<result, landed>>
  BY <1>2, TxsOfCalls, LedgerMoves, SameLedgerSameLanded DEF UploadSucceeded
<1>3. ASSUME NEW p \in Procs, UploadFailed(p) PROVE Promise!PromiseNext
  <2>1. p \notin landed
    BY <1>3, TxsOfCalls
       DEF UploadFailed, Uploading, landed, DeployInv, IInv, UnsentIsUntouched, Untouched
  <2>2. landed' = landed
    BY <1>3, SameLedgerSameLanded DEF UploadFailed, vars, network
  <2> QED
    BY <1>3, <2>1, <2>2
       DEF UploadFailed, Uploading, Finish, Promise!ReturnErr, Promise!ReturnFailure
<1>4. ASSUME NEW p \in Procs, CreateReturned(p) PROVE Promise!PromiseNext
  <2>1. landed' = landed
    BY <1>4, SameLedgerSameLanded DEF CreateReturned, vars, network
  <2>2. outcome[Create(p)] = "success" => p \in landed
    BY TxsOfCalls DEF DeployInv, IInv, SettledAnswersAreTrue, landed
  <2>3. outcome[Create(p)] = "err_sequence" => p \notin landed
    BY TxsOfCalls DEF DeployInv, IInv, PrepareErrorLeavesNoTrace, Untouched, landed
  <2> QED
    BY <1>4, <2>1, <2>2, <2>3
       DEF CreateReturned, Finish, Promise!ReturnSuccess, Promise!ReturnErr,
           Promise!ReturnFailure, Promise!ReturnPartial
<1>5. CASE NetworkOrClient
  BY <1>5, LedgerMoves, SameLedgerSameLanded DEF NetworkOrClient
<1>6. ASSUME NEW t \in Tx, NEW r \in {"success", "failed"}, ApplyOnLedger(t, r)
      PROVE  Promise!PromiseNext \/ UNCHANGED <<result, landed>>
  <2>1. /\ t \in queue /\ UNCHANGED result
        /\ ledger' = [ledger EXCEPT ![t] = r]
        /\ ledger[t] = "none" /\ ledger \in [Tx -> {"none", "success", "failed"}]
    BY <1>6 DEF ApplyOnLedger, Apply, DeployInv, IInv, TypeOK, ResendIsIdempotent
  <2>2. CASE \E p \in Procs : t = Create(p) /\ r = "success"
    <3>1. PICK p \in Procs : t = Create(p) /\ r = "success"
      BY <2>2
    <3>2. landed' = landed \cup {p}
      BY <2>1, <3>1, TxsOfCalls DEF landed
    <3>3. Promise!IdFree(p)
      BY <1>6, <3>1 DEF ApplyOnLedger, Promise!IdFree
    <3> QED
      BY <2>1, <3>1, <3>2, <3>3, QueuedCreateIsAllowed DEF Promise!Land
  <2>3. CASE ~\E p \in Procs : t = Create(p) /\ r = "success"
    BY <2>1, <2>3, TxsOfCalls DEF landed
  <2> QED
    BY <2>2, <2>3
<1>7. CASE UNCHANGED deployVars
  BY <1>7, SameLedgerSameLanded DEF deployVars, vars, network
<1> QED
  BY <1>1, <1>2, <1>3, <1>4, <1>5, <1>6, <1>7 DEF DeployNext, DeployStep

(* Retries, delayed deliveries, timeouts and shared accounts included, the *)
(* deployment protocol implements DeployPromise.                           *)
THEOREM DeployKeepsPromise == DeploySpec => KeepsPromise
  BY InitRefines, StepRefines, DeployInvariant, PTL
     DEF DeploySpec, KeepsPromise, Promise!PromiseSpec

(* A Partial outcome always comes with an upload the ledger has executed.  *)
THEOREM PartialIsResumable == DeploySpec => []PartialKeepsUpload
<1>1. DeployInv => PartialKeepsUpload
  BY TxsOfCalls
     DEF DeployInv, CallInv, IInv, SettledAnswersAreTrue, PartialKeepsUpload
<1> QED
  BY <1>1, DeployInvariant, PTL

-----------------------------------------------------------------------------
(* The sequence number of a create                                         *)

(* How many transactions a call puts on the ledger before its create.      *)
Uploads(p) == IF p \in FromHash THEN 0 ELSE 1

(* The sequence number in an envelope was the account's next one when it   *)
(* was read, so an applied or refused one shows how far the account is; a  *)
(* create reads it after the upload of its call has used one up.           *)
SequencesAreRead ==
    /\ \A t \in Tx :
         /\ pc[t] \in {"simulate", "send"} => seqOf[t] <= seqNum[Source[t]] + 1
         /\ ledger[t] # "none" => seqNum[Source[t]] >= 1
    /\ \A p \in Procs :
         /\ p \in FromHash => pc[Upload(p)] = "idle"
         /\ pc[Create(p)] \in {"simulate", "send"} => seqOf[Create(p)] >= 1 + Uploads(p)
         /\ outcome[Create(p)] = "bad_seq" => seqNum[Source[Create(p)]] >= 1 + Uploads(p)

LEMMA SequencesInit == DeployInit => SequencesAreRead
  BY TxsOfCalls DEF DeployInit, Init, SequencesAreRead

(* A step of the network only moves sequence numbers forward.              *)
LEMMA SequencesNetwork ==
  ASSUME DeployInv, SequencesAreRead, NetworkStep \/ UNCHANGED vars
  PROVE  SequencesAreRead'
<1>1. /\ UNCHANGED <<pc, seqOf, outcome>>
      /\ \A a \in Accounts : seqNum[a] \in Nat /\ seqNum'[a] \in Nat /\ seqNum[a] <= seqNum'[a]
  BY TxAssumption
     DEF DeployInv, IInv, TypeOK, NetworkStep, Deliver, Evict, Apply, ForeignTx, client, network, vars
<1>2. \A t \in Tx : ledger'[t] # ledger[t] => seqNum'[Source[t]] >= 1
  BY TxAssumption
     DEF DeployInv, IInv, TypeOK, NetworkStep, Deliver, Evict, Apply, ForeignTx, client, network, vars
<1>3. \A t \in Tx : Source[t] \in Accounts /\ seqOf[t] \in Nat
  BY TxAssumption DEF DeployInv, IInv, TypeOK
<1>4. \A p \in Procs : Create(p) \in Tx /\ Uploads(p) \in {0, 1}
  BY TxsOfCalls DEF Uploads
<1> QED
  BY <1>1, <1>2, <1>3, <1>4 DEF SequencesAreRead

(* A client reads the number that is next and keeps it.                    *)
LEMMA SequencesClient ==
  ASSUME DeployInv, SequencesAreRead, NEW t \in Tx, ClientStep(t)
  PROVE  SequencesAreRead'
<1>1. seqNum' = seqNum /\ ledger' = ledger
  BY LedgerMoves
     DEF ClientStep, GetNextSequence, SimulateTransaction, SendTransaction, PollTransaction,
         RetryableFailure, FatalFailure, network
<1>2. /\ pc[t] # "idle" /\ pc'[t] # "idle" /\ seqNum[Source[t]] \in Nat
      /\ \A u \in Tx \ {t} : pc'[u] = pc[u] /\ seqOf'[u] = seqOf[u] /\ outcome'[u] = outcome[u]
  BY TxAssumption
     DEF DeployInv, IInv, TypeOK, ClientStep, GetNextSequence, SimulateTransaction, SendTransaction,
         PollTransaction, RetryableFailure, FatalFailure, Proceed, Return, Requests
<1>3. CASE GetNextSequence(t)
  <2>1. pc'[t] = "simulate" /\ seqOf'[t] = seqNum[Source[t]] + 1 /\ outcome' = outcome
    BY <1>3 DEF DeployInv, IInv, TypeOK, GetNextSequence, Proceed
  <2>2. ASSUME NEW p \in Procs, t = Create(p)
        PROVE  seqNum[Source[t]] >= Uploads(p)
    <3>1. CASE p \in FromHash
      BY <1>2, <3>1 DEF Uploads
    <3>2. CASE p \notin FromHash
      <4>1. outcome[Upload(p)] = "success" /\ Upload(p) \in Tx
        BY <1>2, <2>2, <3>2, TxsOfCalls DEF DeployInv, CallInv
      <4>2. ledger[Upload(p)] = "success"
        BY <4>1 DEF DeployInv, IInv, SettledAnswersAreTrue
      <4>3. seqNum[Source[Upload(p)]] >= 1
        BY <4>1, <4>2 DEF SequencesAreRead
      <4> QED
        BY <2>2, <3>2, <4>3, DeployAssumption DEF Uploads
    <3> QED
      BY <3>1, <3>2
  <2>3. \A p \in Procs : Uploads(p) \in {0, 1}
    BY DEF Uploads
  <2> QED
    BY <1>1, <1>2, <2>1, <2>2, <2>3, TxsOfCalls DEF SequencesAreRead
<1>4. CASE ~GetNextSequence(t)
  <2>1. seqOf' = seqOf
    BY <1>4 DEF ClientStep, SimulateTransaction, SendTransaction, PollTransaction, RetryableFailure,
       FatalFailure
  <2>2. pc'[t] \in {"simulate", "send"} => pc[t] \in {"simulate", "send"}
    BY <1>4
       DEF DeployInv, IInv, TypeOK, ClientStep, SimulateTransaction, SendTransaction, PollTransaction,
           RetryableFailure, FatalFailure, Proceed, Return
  <2>3. outcome'[t] = "bad_seq" =>
          \/ outcome[t] = "bad_seq"
          \/ pc[t] = "send" /\ seqOf[t] # seqNum[Source[t]] + 1
    BY <1>4
       DEF DeployInv, IInv, TypeOK, ClientStep, SimulateTransaction, SendTransaction, NodeHandles,
           PollTransaction, RetryableFailure, FatalFailure, Proceed, Return, ErrorOf
  <2>4. seqOf[t] \in Nat /\ \A p \in Procs : Uploads(p) \in {0, 1}
    BY DEF DeployInv, IInv, TypeOK, Uploads
  <2> QED
    BY <1>1, <1>2, <2>1, <2>2, <2>3, <2>4, TxsOfCalls DEF SequencesAreRead
<1> QED
  BY <1>3, <1>4

(* The calls themselves neither read nor send anything.                    *)
LEMMA SequencesCall ==
  ASSUME DeployInv, SequencesAreRead, NEW p \in Procs, DeployStep(p)
  PROVE  SequencesAreRead'
<1>1. UNCHANGED <<seqNum, ledger, seqOf, outcome>>
  BY DEF DeployStep, DeployContract, UploadSucceeded, UploadFailed, CreateReturned, Begin, vars,
     network, client
<1>2. \A t \in Tx : pc'[t] = pc[t] \/ pc'[t] = "sequence"
  BY TxsOfCalls
     DEF DeployInv, IInv, TypeOK, DeployStep, DeployContract, UploadSucceeded, UploadFailed,
         CreateReturned, Begin, Proceed, vars, client
<1>3. \A q \in Procs : q \in FromHash => pc'[Upload(q)] = pc[Upload(q)]
  BY TxsOfCalls
     DEF DeployInv, IInv, TypeOK, DeployStep, DeployContract, UploadSucceeded, UploadFailed,
         CreateReturned, Begin, Proceed, vars, client
<1> QED
  BY <1>1, <1>2, <1>3, TxsOfCalls DEF SequencesAreRead

LEMMA SequencesAlwaysRead == DeploySpec => []SequencesAreRead
<1>1. DeployInv /\ SequencesAreRead /\ [DeployNext]_deployVars => SequencesAreRead'
  BY SequencesNetwork, SequencesClient, SequencesCall
     DEF DeployNext, NetworkOrClient, ApplyOnLedger, NetworkStep, deployVars
<1> QED
  BY <1>1, SequencesInit, DeployInvariant, PTL DEF DeploySpec

(* deploy.rs reads the sequence anew after the upload, so a create that is *)
(* refused for its sequence at the first attempt was overtaken by somebody *)
(* else: the account is further than this call has taken it.               *)
THEOREM BadSeqIsForeign == DeploySpec => []NoSelfInflictedBadSeq
<1>1. DeployInv /\ SequencesAreRead => NoSelfInflictedBadSeq
  <2> SUFFICES ASSUME DeployInv, SequencesAreRead, NEW p \in Procs,
                      outcome[Create(p)] = "bad_seq", attempt[Create(p)] = 0
               PROVE  seqNum[Source[Create(p)]] > Cardinality(OwnTxs(p))
    BY DEF NoSelfInflictedBadSeq
  <2>1. Create(p) \in Tx /\ Upload(p) \in Tx /\ seqNum[Source[Create(p)]] \in Nat
    BY TxsOfCalls, TxAssumption DEF DeployInv, IInv, TypeOK
  <2>2. ledger[Create(p)] = "none"
    BY <2>1 DEF DeployInv, IInv, FirstRejectionIsFinal, Untouched
  <2>3. seqNum[Source[Create(p)]] >= 1 + Uploads(p)
    BY DEF SequencesAreRead
  <2>4. CASE p \in FromHash
    <3>1. ledger[Upload(p)] = "none"
      BY <2>1, <2>4 DEF SequencesAreRead, DeployInv, IInv, UnsentIsUntouched, Untouched
    <3>2. OwnTxs(p) = {}
      BY <2>2, <3>1 DEF OwnTxs
    <3> QED
      BY <2>1, <2>3, <2>4, <3>2, FS_EmptySet DEF Uploads
  <2>5. CASE p \notin FromHash
    <3>1. OwnTxs(p) = {} \/ OwnTxs(p) = {Upload(p)}
      BY <2>2 DEF OwnTxs
    <3>2. Cardinality(OwnTxs(p)) \in {0, 1}
      BY <3>1, FS_EmptySet, FS_Singleton
    <3> QED
      BY <2>1, <2>3, <2>5, <3>2 DEF Uploads
  <2> QED
    BY <2>4, <2>5
<1> QED
  BY <1>1, SequencesAlwaysRead, DeployInvariant, PTL
=============================================================================
