------------------------------ MODULE MCDeploy -------------------------------
(* Deployments from one account.  One of the two is create-only, and both  *)
(* derive the same contract id (the same --salt).                          *)
EXTENDS Deploy

CONSTANTS p1, p2, acct

MCTx == Procs \X {"upload", "create"}
MCSource == [t \in MCTx |-> acct]
MCContractId == [p \in Procs |-> "id"]
=============================================================================
