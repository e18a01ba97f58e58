------------------------------ MODULE MCChain ------------------------------
(* Instances of StorageReads and ContractReads: a behaviour is of one of    *)
(* the two.                                                                 *)
EXTENDS StorageReads, ContractReads

CONSTANTS h1, h2
VARIABLE part

MCKeys == {"inst", "pers", "code"}
MCKeyClass == [k \in MCKeys |-> CASE k = "inst" -> "Instance" [] k = "pers" -> "Persistent" [] k = "code" -> "Other"]
MCLifetimes == {[k \in MCKeys |-> CASE k = "inst" -> 6 [] k = "pers" -> p [] k = "code" -> c] :
                   <<p, c>> \in {<<2, 3>>, <<5, 0>>}}

Exe(kind, hash) == [kind |-> kind, hash |-> hash]
MCExecutables == {Exe("wasm", h1), Exe("wasm", h2), Exe("external", NoHash), Exe("asset", NoHash),
                  Exe("odd", NoHash), Exe("none", NoHash)}

StorageAtRest ==
    /\ ledger = 1 /\ entries = [k \in Keys |-> [value |-> NoValue, until |-> 0]] /\ past = <<entries>>
    /\ shows = FALSE /\ cmd = Idle0 /\ saved = <<>> /\ outcome = NoOutcome /\ startedCmds = 0
ReadAtRest ==
    /\ chain = [exe |-> Exe("none", NoHash), tag |-> NoHash, code |-> {}, cfg |-> <<>>, events |-> {}]
    /\ trail = <<chain>> /\ reader = Asleep /\ json = [h \in Hashes |-> NoHash] /\ temp = json
    /\ verdict = Silent /\ reads = 0

MCInit ==
    \/ part = "storage" /\ StorageInit /\ ReadAtRest
    \/ part = "reads" /\ ReadInit /\ StorageAtRest
MCNext ==
    \/ part = "storage" /\ StorageNext /\ UNCHANGED <<part, readVars>>
    \/ part = "reads" /\ ReadNext /\ UNCHANGED <<part, storageVars>>
MCSpec == MCInit /\ [][MCNext]_<<part, storageVars, readVars>>
=============================================================================
