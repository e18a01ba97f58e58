---------------------------- MODULE ProjectDeploy ----------------------------
(***************************************************************************)
(* `sdkt project deploy`: the loop that deploys the workspace's contracts  *)
(* in dependency order and keeps `.sdkt-deployments.json`.  A run is one   *)
(* execution of the command; it reads the record file once, then for every *)
(* alias skips, deploys and persists, until one step fails.  Runs may      *)
(* follow each other or overlap, and may be killed between any two steps.  *)
(*                                                                         *)
(* A single deployment behaves as DeployPromise says.                      *)
(***************************************************************************)
EXTENDS DeployPromise, Integers, Sequences

CONSTANTS
    Runs,       \* executions of the command
    Networks,   \* network keys of the record file (network_key)
    Aliases,    \* contracts of the workspace
    DependsOn,  \* [Aliases -> SUBSET Aliases]
    Order,      \* resolve_project's deployment order
    NetworkOf,  \* [Runs -> Networks]
    Skip,       \* the runs with --skip-deployed
    Sequential, \* the operator starts a run only when no other is running
    None,       \* no record for an alias
    Corrupt     \* a record file that does not parse

(* resolve_project orders the aliases so that dependencies come first.     *)
ASSUME OrderAssumption ==
    /\ Order \in Seq(Aliases)
    /\ \A a \in Aliases : \E i \in 1 .. Len(Order) : Order[i] = a
    /\ DependsOn \in [Aliases -> SUBSET Aliases]
    /\ \A i \in 1 .. Len(Order) : \A b \in DependsOn[Order[i]] :
           \E j \in 1 .. i - 1 : Order[j] = b

ASSUME RunsAssumption ==
    /\ Deployments = Runs \X Aliases
    /\ NetworkOf \in [Runs -> Networks]
    /\ Skip \subseteq Runs
    /\ FromHash = {}
    /\ Sequential \in BOOLEAN
    /\ None \notin {ContractId[d] : d \in Deployments}
    /\ Corrupt \notin [Networks -> [Aliases -> {ContractId[d] : d \in Deployments} \cup {None}]]

VARIABLES
    healthy,    \* network, disk and processes never fail in this behaviour
    disk,       \* the record file
    temp,       \* every run's temporary file, named by its pid
    memory,     \* every run's copy of the record file
    phase,      \* where every run is
    at,         \* the position in Order
    results,    \* the aliases every run reports as deployed
    archived    \* contract ids whose instance entry has left the live ledger

ledgerVars == <<promiseVars, archived>>
runVars == <<temp, memory, phase, at, results>>
work    == <<promiseVars, archived, disk, runVars>>
vars    == <<healthy, work>>

Ids     == {ContractId[d] : d \in Deployments}
Records == [Networks -> [Aliases -> Ids \cup {None}]]
Empty   == [n \in Networks |-> [a \in Aliases |-> None]]

Active == {"loop", "deploying", "write", "rename"}
Phases == Active \cup {"new", "done", "failed", "killed"}

(* All variables stay in their types.                                     *)
TypeOK ==
    /\ healthy \in BOOLEAN
    /\ PromiseTypeOK
    /\ disk \in Records \cup {Corrupt}
    /\ temp \in [Runs -> Records \cup {None, Corrupt}]
    /\ memory \in [Runs -> Records]
    /\ phase \in [Runs -> Phases]
    /\ at \in [Runs -> 1 .. Len(Order) + 1]
    /\ results \in [Runs -> SUBSET Aliases]
    /\ archived \subseteq Ids

(* The file does not exist yet, or somebody has damaged it.                *)
Init ==
    /\ healthy \in BOOLEAN
    /\ PromiseInit
    /\ disk \in {Empty, Corrupt}
    /\ temp = [r \in Runs |-> None]
    /\ memory = [r \in Runs |-> Empty]
    /\ phase = [r \in Runs |-> "new"]
    /\ at = [r \in Runs |-> 1]
    /\ results = [r \in Runs |-> {}]
    /\ archived = {}

-----------------------------------------------------------------------------
Alias(r) == Order[at[r]]
Call(r)  == <<r, Alias(r)>>

InLoop(r) == phase[r] = "loop" /\ at[r] <= Len(Order)

Recorded(r) == memory[r][NetworkOf[r]][Alias(r)]

(* contract_exists: getLedgerEntries returns the instance of a contract id. *)
Exists(id) == id \notin archived /\ \E d \in landed : ContractId[d] = id

Goto(r, p) == phase' = [phase EXCEPT ![r] = p]

Fails(r) == Goto(r, "failed") /\ UNCHANGED <<disk, temp, memory, at, results>>

(* The alias counts as deployed and the loop goes on.                      *)
Report(r) ==
    /\ results' = [results EXCEPT ![r] = @ \cup {Alias(r)}]
    /\ at' = [at EXCEPT ![r] = @ + 1]
    /\ Goto(r, "loop")

(* Mutant: a file that does not parse is replaced by an empty one.         *)
LaunchForgetsCorrupt(r) ==
    /\ phase[r] = "new"
    /\ Sequential => \A q \in Runs : phase[q] \notin Active
    /\ memory' = [memory EXCEPT ![r] = IF disk = Corrupt THEN Empty ELSE disk]
    /\ Goto(r, "loop")
    /\ UNCHANGED <<ledgerVars, disk, temp, at, results>>

(* Mutant: only --skip-deployed reads the record file.                     *)
LaunchStartsAfresh(r) ==
    /\ phase[r] = "new"
    /\ Sequential => \A q \in Runs : phase[q] \notin Active
    /\ disk # Corrupt
    /\ memory' = [memory EXCEPT ![r] = IF r \in Skip THEN disk ELSE Empty]
    /\ Goto(r, "loop")
    /\ UNCHANGED <<ledgerVars, disk, temp, at, results>>

(* Poll pair, salt, network guard, record file, identity and project are   *)
(* checked before the loop; a file that does not parse ends the run.       *)
Launch(r) ==
    /\ phase[r] = "new"
    /\ Sequential => \A q \in Runs : phase[q] \notin Active
    /\ disk # Corrupt
    /\ memory' = [memory EXCEPT ![r] = disk]
    /\ Goto(r, "loop")
    /\ UNCHANGED <<ledgerVars, disk, temp, at, results>>

LaunchRefused(r) ==
    /\ phase[r] = "new"
    /\ disk = Corrupt \/ ~healthy
    /\ Fails(r)
    /\ UNCHANGED ledgerVars

(* --skip-deployed honours a record whose contract is still on-chain.      *)
SkipDeployed(r) ==
    /\ InLoop(r)
    /\ r \in Skip
    /\ Recorded(r) # None
    /\ Exists(Recorded(r))
    /\ Report(r)
    /\ UNCHANGED <<ledgerVars, disk, temp, memory>>

(* The existence probe, the artifact or the constructor arguments fail.    *)
PrepareFails(r) ==
    /\ InLoop(r)
    /\ ~healthy
    /\ Fails(r)
    /\ UNCHANGED ledgerVars

(* Mutant: --skip-deployed asks for a record on another network.           *)
DeployAliasIgnoresRecord(r) ==
    /\ InLoop(r)
    /\ Start(Call(r))
    /\ Goto(r, "deploying")
    /\ UNCHANGED <<archived, disk, temp, memory, at, results>>

DeployAlias(r) ==
    /\ InLoop(r)
    /\ r \in Skip /\ Recorded(r) # None => ~Exists(Recorded(r))
    /\ Start(Call(r))
    /\ Goto(r, "deploying")
    /\ UNCHANGED <<archived, disk, temp, memory, at, results>>

(* DeployOutcome::Success: the record goes into the run's copy.            *)
DeploySucceeds(r) ==
    /\ phase[r] = "deploying"
    /\ ReturnSuccess(Call(r))
    /\ memory' = [memory EXCEPT ![r][NetworkOf[r]][Alias(r)] = ContractId[Call(r)]]
    /\ Goto(r, "write")
    /\ UNCHANGED <<archived, disk, temp, at, results>>

(* Mutant: the loop goes on with the next alias.                           *)
DeployFailsGoesOn(r) ==
    /\ phase[r] = "deploying"
    /\ ReturnPartial(Call(r)) \/ ReturnFailure(Call(r)) \/ ReturnErr(Call(r))
    /\ at' = [at EXCEPT ![r] = @ + 1]
    /\ Goto(r, "loop")
    /\ UNCHANGED <<archived, disk, temp, memory, results>>

(* Partial, Failure and an RpcError all end the loop; none is recorded.    *)
DeployFails(r) ==
    /\ phase[r] = "deploying"
    /\ ~healthy \/ (Call(r) \notin landed /\ ~IdFree(Call(r)))
    /\ ReturnPartial(Call(r)) \/ ReturnFailure(Call(r)) \/ ReturnErr(Call(r))
    /\ Fails(r)
    /\ UNCHANGED archived

(* DeploymentRecordFile::write: the whole copy goes to a temporary file,   *)
(* which is synced and renamed over the record file.                       *)
WriteTemp(r) ==
    /\ phase[r] = "write"
    /\ temp' = [temp EXCEPT ![r] = memory[r]]
    /\ Goto(r, "rename")
    /\ UNCHANGED <<ledgerVars, disk, memory, at, results>>

RenameTemp(r) ==
    /\ phase[r] = "rename"
    /\ disk' = temp[r]
    /\ temp' = [temp EXCEPT ![r] = None]
    /\ Report(r)
    /\ UNCHANGED <<ledgerVars, memory>>

(* A failed write exits at once.  Only a failed rename removes the         *)
(* temporary file; a failed write leaves what it wrote.                    *)
PersistFails(r) ==
    /\ phase[r] \in {"write", "rename"}
    /\ ~healthy
    /\ temp' \in {[temp EXCEPT ![r] = x] :
                    x \in IF phase[r] = "write" THEN {None, Corrupt, memory[r]} ELSE {None}}
    /\ Goto(r, "failed")
    /\ UNCHANGED <<ledgerVars, disk, memory, at, results>>

(* Mutant: the loop waits for one contract more than the workspace has.    *)
CompletesOffByOne(r) ==
    /\ phase[r] = "loop"
    /\ at[r] > Len(Order) + 1
    /\ Goto(r, "done")
    /\ UNCHANGED <<ledgerVars, disk, temp, memory, at, results>>

Completes(r) ==
    /\ phase[r] = "loop"
    /\ at[r] > Len(Order)
    /\ Goto(r, "done")
    /\ UNCHANGED <<ledgerVars, disk, temp, memory, at, results>>

(* SIGINT, SIGKILL or a panic.  Inside the write the temporary file is     *)
(* left half-written.                                                      *)
Kill(r) ==
    /\ ~healthy
    /\ phase[r] \in Active
    /\ temp' \in {temp} \cup
           (IF phase[r] = "write" THEN {[temp EXCEPT ![r] = Corrupt]} ELSE {})
    /\ Goto(r, "killed")
    /\ UNCHANGED <<ledgerVars, disk, memory, at, results>>

(* A create transaction reaches the ledger, maybe long after its run.      *)
LedgerLands(d) == Land(d) /\ UNCHANGED <<archived, disk, runVars>>

(* An instance whose rent has run out is archived (external).              *)
Archive(d) ==
    /\ ~healthy
    /\ d \in landed
    /\ archived' = archived \cup {ContractId[d]}
    /\ UNCHANGED <<promiseVars, disk, runVars>>

-----------------------------------------------------------------------------
RunStep(r) ==
    \/ SkipDeployed(r) \/ PrepareFails(r) \/ DeployAlias(r) \/ DeploySucceeds(r)
    \/ DeployFails(r) \/ WriteTemp(r) \/ RenameTemp(r) \/ PersistFails(r)
    \/ Completes(r)

Next ==
    /\ \/ \E r \in Runs : Launch(r) \/ LaunchRefused(r) \/ RunStep(r) \/ Kill(r)
       \/ \E d \in Deployments : LedgerLands(d) \/ Archive(d)
    /\ UNCHANGED healthy

(* A started run keeps going, since every call it makes returns            *)
(* (Submission's AlwaysAnswered), and a healthy ledger executes what it is *)
(* sent.                                                                   *)
Fairness ==
    /\ \A r \in Runs : WF_work(RunStep(r))
    /\ healthy => \A d \in Deployments : WF_work(LedgerLands(d))

Spec == Init /\ [][Next]_vars /\ Fairness
-----------------------------------------------------------------------------
(* A file or a copy of it is sound when every id in it is that of a call   *)
(* for that alias on that network whose contract has landed.               *)
Sound(file) ==
    \A n \in Networks, a \in Aliases :
        file[n][a] # None =>
            \E r \in Runs : /\ NetworkOf[r] = n
                            /\ <<r, a>> \in landed
                            /\ file[n][a] = ContractId[<<r, a>>]

(* The record file never names a contract that was not deployed, whatever  *)
(* overlaps, fails or is killed.                                           *)
RecordsAreReal == disk # Corrupt => Sound(disk)

(* "Persist the record immediately": an alias a run reports as deployed is *)
(* in the file, and stays there.                                           *)
ReportedIsRecorded ==
    \A r \in Runs : \A a \in results[r] :
        disk # Corrupt /\ disk[NetworkOf[r]][a] # None

(* With one run at a time `.sdkt-deployments.json` is neither wrong nor    *)
(* behind: what it names was deployed, and what a run reported it names.   *)
RecordsAreKept == RecordsAreReal /\ ReportedIsRecorded

(* What the comment of `write` says of its caller: it "warns but never     *)
(* fails the deployment on a record-write problem".  Not checked by any    *)
(* run: the caller exits at once, and says so where it does.               *)
RecordProblemsOnlyWarn ==
    [][\A r \in Runs : phase[r] \in {"write", "rename"} => phase'[r] # "failed"]_vars

(* The loop stops at the first failure: nothing is deployed before all it  *)
(* depends on is.                                                          *)
DependenciesComeFirst ==
    \A r \in Runs, a \in Aliases :
        a \in results[r] \/ result[<<r, a>>] # "idle" => DependsOn[a] \subseteq results[r]

(* The atomic write: no crash or full disk makes the file unreadable, and  *)
(* an unreadable file is never overwritten.                                *)
ReadableStaysReadable == [][disk = Corrupt <=> disk' = Corrupt]_vars

(* --skip-deployed starts a deployment only for an alias the file has no   *)
(* live contract for.                                                      *)
ResumeDeploysOnlyMissing ==
    [][\A r \in Skip, a \in Aliases :
         result[<<r, a>>] = "idle" /\ result'[<<r, a>>] # "idle" =>
            ~Exists(disk[NetworkOf[r]][a])]_vars

(* Every run comes to an end, whatever fails; and where nothing fails it   *)
(* has deployed the whole workspace then ("Deploy all contracts defined in *)
(* the workspace").                                                        *)
RunsComplete ==
    \A r \in Runs :
        phase[r] \in Active ~> phase[r] \notin Active /\ (healthy => phase[r] = "done")
-----------------------------------------------------------------------------
(* The inductive invariant.                                                *)

(* A run works on a file that parses, its copy is sound, and what it is    *)
(* about to rename is its copy.                                            *)
CopiesAreReal ==
    \A r \in Runs :
        /\ phase[r] \in Active => disk # Corrupt
        /\ phase[r] = "rename" => temp[r] = memory[r]
        /\ phase[r] \in {"deploying", "write", "rename"} => at[r] <= Len(Order)
        /\ Sound(memory[r])

(* The reported aliases are those before the position, and no later one    *)
(* has been started.                                                       *)
ProgressIsOrdered ==
    \A r \in Runs :
        /\ results[r] = {Order[i] : i \in 1 .. at[r] - 1}
        /\ \A a \in Aliases : result[<<r, a>>] # "idle" =>
               \E i \in 1 .. Len(Order) : i <= at[r] /\ Order[i] = a

(* Without overlap a run's copy is the file, or is ahead of it by the      *)
(* record it is about to write.                                            *)
Covers(f, g) ==
    \A n \in Networks, a \in Aliases : g[n][a] # None => f[n][a] # None

CopyIsCurrent ==
    /\ \A r, q \in Runs : phase[r] \in Active /\ phase[q] \in Active => r = q
    /\ \A r \in Runs :
         /\ phase[r] \in {"loop", "deploying"} => memory[r] = disk
         /\ phase[r] \in {"write", "rename"} =>
               Covers(memory[r], disk) /\ Recorded(r) # None

SafeInv ==
    /\ TypeOK
    /\ SuccessHasLanded
    /\ RecordsAreReal
    /\ CopiesAreReal
    /\ ProgressIsOrdered

SequentialInv == SafeInv /\ CopyIsCurrent /\ ReportedIsRecorded

=============================================================================
