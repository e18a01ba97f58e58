------------------------------- MODULE Deploy --------------------------------
(***************************************************************************)
(* sdkt-rpc's deployment protocol: deploy_contract_with_args uploads the   *)
(* WASM and then creates the instance, each as a transaction of its own    *)
(* that runs through Submission; deploy_contract_from_hash only creates.   *)
(* Several deployments may share a source account and a salt.              *)
(***************************************************************************)
EXTENDS Submission

CONSTANTS
    Procs,      \* deployment calls
    FromHash,   \* the create-only ones
    Sequential, \* a call is made only when no other is running
    ContractId  \* [Procs -> ids], from network, deployer and salt alone

Upload(p) == <<p, "upload">>
Create(p) == <<p, "create">>

(* upload_wasm and create_contract both submit with wait = true, from the  *)
(* deployer's own account.                                                 *)
ASSUME DeployAssumption ==
    /\ Tx = Procs \X {"upload", "create"}
    /\ Waiting = Tx
    /\ FromHash \subseteq Procs
    /\ Sequential \in BOOLEAN
    /\ \A p \in Procs : Source[Upload(p)] = Source[Create(p)]

VARIABLE result     \* "idle", "running", or the DeployOutcome of every call

deployVars == <<vars, result>>

DeployInit == Init /\ result = [p \in Procs |-> "idle"]

Finish(p, r) == result' = [result EXCEPT ![p] = r]

(* The inputs are valid: WASM, constructor arguments, salt and hash were   *)
(* parsed.  The full path reads the sequence and starts the upload, the    *)
(* create-only path starts the create.                                     *)
DeployContract(p) ==
    /\ result[p] = "idle"
    /\ Sequential => \A q \in Procs : result[q] # "running"
    /\ Finish(p, "running")
    /\ Begin(IF p \in FromHash THEN Create(p) ELSE Upload(p))

Uploading(p) ==
    result[p] = "running" /\ pc[Upload(p)] = "done" /\ pc[Create(p)] = "idle"

(* Mutant: the create reuses the upload's sequence number.                 *)
UploadSucceededNoRefresh(p) ==
    /\ Uploading(p)
    /\ outcome[Upload(p)] = "success"
    /\ seqOf' = [seqOf EXCEPT ![Create(p)] = seqOf[Upload(p)]]
    /\ Proceed(Create(p), "simulate")
    /\ UNCHANGED <<network, elapsed, outcome, result>>

(* The upload settled: refresh the sequence and go on to create.           *)
UploadSucceeded(p) ==
    /\ Uploading(p)
    /\ outcome[Upload(p)] = "success"
    /\ Begin(Create(p))
    /\ UNCHANGED result

(* Mutant: a timed-out upload is reported as a partial deployment.         *)
UploadFailedAsPartial(p) ==
    /\ Uploading(p)
    /\ outcome[Upload(p)] # "success"
    /\ Finish(p, IF outcome[Upload(p)] = "timeout" THEN "Partial" ELSE "Failure")
    /\ UNCHANGED vars

(* get_next_sequence is read with `?`, outside the match that turns an     *)
(* upload error into DeployOutcome::Failure.                               *)
UploadFailed(p) ==
    /\ Uploading(p)
    /\ outcome[Upload(p)] # "success"
    /\ Finish(p, IF outcome[Upload(p)] = "err_sequence" THEN "Err" ELSE "Failure")
    /\ UNCHANGED vars

(* Mutant: a create that was sent and not refused counts as deployed.      *)
CreateReturnedTrustsSend(p) ==
    /\ result[p] = "running"
    /\ pc[Create(p)] = "done"
    /\ Finish(p, IF outcome[Create(p)] \in {"success", "timeout"} THEN "Success"
                 ELSE IF outcome[Create(p)] = "err_sequence" THEN "Err"
                 ELSE IF p \in FromHash THEN "Failure" ELSE "Partial")
    /\ UNCHANGED vars

(* Everything but a settled SUCCESS of create_contract is an error of it:  *)
(* Partial on the full path, Failure on the create-only one.               *)
CreateReturned(p) ==
    /\ result[p] = "running"
    /\ pc[Create(p)] = "done"
    /\ Finish(p, IF outcome[Create(p)] = "success" THEN "Success"
                 ELSE IF outcome[Create(p)] = "err_sequence" THEN "Err"
                 ELSE IF p \in FromHash THEN "Failure" ELSE "Partial")
    /\ UNCHANGED vars

-----------------------------------------------------------------------------
(* The calls whose instance the ledger has created.                        *)
landed == {p \in Procs : ledger[Create(p)] = "success"}

(* The ledger executes a transaction; a create whose contract id is taken  *)
(* fails (external).                                                       *)
ApplyOnLedger(t, r) ==
    /\ Apply(t, r)
    /\ \A p \in Procs : t = Create(p) /\ r = "success" =>
           \A q \in landed : ContractId[q] # ContractId[p]
    /\ UNCHANGED result

NetworkOrClient ==
    /\ \/ \E t \in Tx : ClientStep(t) \/ Deliver(t) \/ Evict(t)
       \/ \E a \in Accounts : ForeignTx(a)
    /\ UNCHANGED result

DeployStep(p) ==
    DeployContract(p) \/ UploadSucceeded(p) \/ UploadFailed(p) \/ CreateReturned(p)

DeployNext ==
    \/ \E p \in Procs : DeployStep(p)
    \/ NetworkOrClient
    \/ \E t \in Tx, r \in {"success", "failed"} : ApplyOnLedger(t, r)

DeployFairness ==
    /\ \A t \in Tx : WF_vars(ClientStep(t))
    /\ \A p \in Procs : WF_deployVars(UploadSucceeded(p) \/ UploadFailed(p) \/ CreateReturned(p))

DeploySpec == DeployInit /\ [][DeployNext]_deployVars /\ DeployFairness

-----------------------------------------------------------------------------
Promise == INSTANCE DeployPromise
             WITH Deployments <- Procs, result <- result, landed <- landed

(* The deployment protocol over retries, delayed deliveries and timeouts   *)
(* keeps what DeployPromise says of its outcomes.                          *)
KeepsPromise == Promise!PromiseSpec

(* A Partial outcome's upload is on the ledger, so the hash it carries can *)
(* be resumed from.                                                        *)
PartialKeepsUpload ==
    \A p \in Procs : result[p] = "Partial" => ledger[Upload(p)] = "success"

(* The sequence is read anew after the upload: the first create attempt is *)
(* refused for its sequence only if somebody other than this deployment    *)
(* has used the account.                                                   *)
OwnTxs(p) == {t \in {Upload(p), Create(p)} : ledger[t] # "none"}

NoSelfInflictedBadSeq ==
    \A p \in Procs :
        outcome[Create(p)] = "bad_seq" /\ attempt[Create(p)] = 0 =>
            seqNum[Source[Create(p)]] > Cardinality(OwnTxs(p))
-----------------------------------------------------------------------------
(* The inductive invariant behind the refinement: how far the two          *)
(* transactions of a call can be when its result is what it is.            *)
CallInv(p) ==
    /\ result[p] \in {"idle", "running", "Success", "Partial", "Failure", "Err"}
    /\ result[p] = "idle" => pc[Create(p)] = "idle"
    /\ pc[Create(p)] # "idle" /\ p \notin FromHash => outcome[Upload(p)] = "success"
    /\ result[p] = "Success" => outcome[Create(p)] = "success"
    /\ result[p] = "Partial" => p \notin FromHash /\ pc[Create(p)] = "done"
    /\ result[p] = "Failure" /\ p \notin FromHash => pc[Create(p)] = "idle"
    /\ result[p] = "Err" =>
          pc[Create(p)] = "idle" \/ outcome[Create(p)] = "err_sequence"

DeployInv ==
    /\ IInv
    /\ DOMAIN result = Procs
    /\ result = [p \in Procs |-> result[p]]
    /\ \A p \in Procs : CallInv(p)

=============================================================================
