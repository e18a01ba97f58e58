---------------------------- MODULE MCSubmission ----------------------------
(* Two transactions of one account, one of them not waiting, and one of    *)
(* another account would only add interleavings: the account is where      *)
(* transactions meet.                                                      *)
EXTENDS Submission

CONSTANTS t1, t2, acct

MCTx == {t1, t2}
MCSource == [t \in MCTx |-> acct]
MCWaiting == {t1}
=============================================================================
