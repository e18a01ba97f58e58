--------------------------- MODULE DeployPromise ----------------------------
(***************************************************************************)
(* What a caller of deploy_contract_with_args and deploy_contract_from_hash *)
(* may rely on, whatever the network does.  A deployment is one call; it   *)
(* has landed once its contract instance is on the ledger.  Success is     *)
(* certain, a Failure or an error of the full path certainly did not land, *)
(* and only Partial and the create-only Failure are ambiguous: their       *)
(* contract may still land after the call has returned.                    *)
(***************************************************************************)
CONSTANTS
    Deployments,    \* calls
    ContractId,     \* [Deployments -> ids]: what derive_contract_id gives the call
    FromHash        \* the create-only calls (deploy --wasm-hash)

ASSUME DeploymentsAssumption == FromHash \subseteq Deployments

VARIABLES
    result,         \* "idle", "running", or the DeployOutcome (Err for an RpcError)
    landed          \* the calls whose contract instance the ledger has created

promiseVars == <<result, landed>>

Results == {"idle", "running", "Success", "Partial", "Failure", "Err"}

PromiseTypeOK ==
    /\ result \in [Deployments -> Results]
    /\ landed \subseteq Deployments

PromiseInit ==
    /\ result = [d \in Deployments |-> "idle"]
    /\ landed = {}

(* The answers after which the contract may still appear.                  *)
Ambiguous(d) == result[d] = "Partial" \/ (d \in FromHash /\ result[d] = "Failure")

IdFree(d) == \A e \in landed : ContractId[e] # ContractId[d]

Answer(d, r) == result' = [result EXCEPT ![d] = r] /\ UNCHANGED landed

Start(d) == result[d] = "idle" /\ Answer(d, "running")

Land(d) ==
    /\ result[d] = "running" \/ Ambiguous(d)
    /\ IdFree(d)
    /\ landed' = landed \cup {d}
    /\ UNCHANGED result

ReturnSuccess(d) == result[d] = "running" /\ d \in landed /\ Answer(d, "Success")

ReturnPartial(d) == result[d] = "running" /\ d \notin FromHash /\ Answer(d, "Partial")

ReturnFailure(d) ==
    /\ result[d] = "running"
    /\ d \in FromHash \/ d \notin landed
    /\ Answer(d, "Failure")

ReturnErr(d) == result[d] = "running" /\ d \notin landed /\ Answer(d, "Err")

PromiseNext ==
    \E d \in Deployments :
        \/ Start(d) \/ Land(d) \/ ReturnSuccess(d)
        \/ ReturnPartial(d) \/ ReturnFailure(d) \/ ReturnErr(d)

PromiseSpec == PromiseInit /\ [][PromiseNext]_promiseVars

-----------------------------------------------------------------------------
(* A successful answer names a contract that exists.                       *)
SuccessHasLanded == \A d \in Deployments : result[d] = "Success" => d \in landed

(* A full-path Failure or an RpcError leaves no contract behind, then or   *)
(* later.                                                                  *)
CleanFailure ==
    \A d \in Deployments :
        result[d] \in {"idle", "Err"} \/ (result[d] = "Failure" /\ d \notin FromHash)
        => d \notin landed

(* No two calls landed on one contract id.                                 *)
IdsAreUnique ==
    \A d, e \in landed : ContractId[d] = ContractId[e] => d = e

PromiseInv == PromiseTypeOK /\ SuccessHasLanded /\ CleanFailure /\ IdsAreUnique
=============================================================================
