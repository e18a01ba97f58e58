------------------------- MODULE ProjectDeployProofs -------------------------
(***************************************************************************)
(* What `.sdkt-deployments.json` can be relied on for, for every set of    *)
(* runs, networks and contracts: with overlapping runs its records are     *)
(* real, and without overlap it never loses one.                           *)
(***************************************************************************)
EXTENDS ProjectDeploy, TLAPS

(* The initial state satisfies the inductive invariant.                    *)
LEMMA InitSafe == Init => SafeInv
  BY OrderAssumption, RunsAssumption
     DEF Init, SafeInv, TypeOK, PromiseInit, PromiseTypeOK, SuccessHasLanded,
         RecordsAreReal, CopiesAreReal, ProgressIsOrdered, Sound, Empty, Records,
         Results, Phases, Active

(* The deployment order lists aliases, and a call of a run is a deployment. *)
LEMMA OrderIsTyped ==
  /\ Len(Order) \in Nat
  /\ \A i \in 1 .. Len(Order) : Order[i] \in Aliases
  BY OrderAssumption

(* The position of a run inside the loop names an alias, hence a call.     *)
LEMMA CallIsDeployment ==
  ASSUME TypeOK, NEW r \in Runs, at[r] <= Len(Order)
  PROVE  /\ Alias(r) \in Aliases
         /\ Call(r) \in Deployments
         /\ ContractId[Call(r)] \in Ids
         /\ at[r] \in 1 .. Len(Order)
         /\ at[r] + 1 \in 1 .. Len(Order) + 1
<1>1. at[r] \in 1 .. Len(Order) + 1
  BY DEF TypeOK
<1>2. at[r] \in 1 .. Len(Order) /\ at[r] + 1 \in 1 .. Len(Order) + 1
  BY <1>1, OrderIsTyped
<1>3. Alias(r) \in Aliases
  BY <1>2, OrderIsTyped DEF Alias
<1>4. Call(r) \in Deployments
  BY <1>3, RunsAssumption DEF Call
<1> QED
  BY <1>2, <1>3, <1>4 DEF Ids

(* Landing more contracts keeps a sound file sound.                        *)
LEMMA SoundIsStable ==
  ASSUME NEW f, Sound(f), landed \subseteq landed'
  PROVE  \A n \in Networks, a \in Aliases :
           f[n][a] # None =>
             \E r \in Runs : /\ NetworkOf[r] = n
                             /\ <<r, a>> \in landed'
                             /\ f[n][a] = ContractId[<<r, a>>]
  BY DEF Sound

(* Recording one more id keeps a file well-typed.                          *)
LEMMA RecordingIsTyped ==
  ASSUME NEW f \in Records, NEW n \in Networks, NEW a \in Aliases, NEW id \in Ids
  PROVE  [f EXCEPT ![n][a] = id] \in Records
  BY DEF Records

(* The type invariant is kept by every step.                               *)
LEMMA NextType == TypeOK /\ CopiesAreReal /\ [Next]_vars => TypeOK'
<1> SUFFICES ASSUME TypeOK, CopiesAreReal, [Next]_vars PROVE TypeOK'
  OBVIOUS
<1>0. healthy' = healthy
  BY DEF Next, vars
<1> USE <1>0 DEF TypeOK, PromiseTypeOK, Phases, Active, ledgerVars,
        promiseVars, runVars, Goto, Fails, InLoop, Results, Answer
<1>1. ASSUME NEW r \in Runs, Launch(r) PROVE TypeOK'
  BY <1>1 DEF Launch
<1>2. ASSUME NEW r \in Runs, LaunchRefused(r) PROVE TypeOK'
  BY <1>2 DEF LaunchRefused
<1>r. ASSUME NEW r \in Runs, at[r] <= Len(Order), Report(r)
      PROVE  /\ results' \in [Runs -> SUBSET Aliases]
             /\ at' \in [Runs -> 1 .. Len(Order) + 1]
             /\ phase' \in [Runs -> Phases]
  <2>1. Alias(r) \in Aliases /\ at[r] + 1 \in 1 .. Len(Order) + 1
    BY <1>r, CallIsDeployment
  <2> QED
    BY <1>r, <2>1 DEF Report
<1>3. ASSUME NEW r \in Runs, SkipDeployed(r) PROVE TypeOK'
  BY <1>3, <1>r DEF SkipDeployed
<1>4. ASSUME NEW r \in Runs, PrepareFails(r) PROVE TypeOK'
  BY <1>4 DEF PrepareFails
<1>5. ASSUME NEW r \in Runs, DeployAlias(r) PROVE TypeOK'
  BY <1>5 DEF DeployAlias, Start
<1>6. ASSUME NEW r \in Runs, DeploySucceeds(r) PROVE TypeOK'
  <2>1. /\ at[r] <= Len(Order)
        /\ phase[r] = "deploying"
    BY <1>6 DEF DeploySucceeds, CopiesAreReal
  <2>2. Alias(r) \in Aliases /\ ContractId[Call(r)] \in Ids
    BY <2>1, CallIsDeployment
  <2>3. NetworkOf[r] \in Networks
    BY RunsAssumption
  <2>4. [memory[r] EXCEPT ![NetworkOf[r]][Alias(r)] = ContractId[Call(r)]] \in Records
    BY <2>2, <2>3, RecordingIsTyped
  <2>5. memory' = [memory EXCEPT ![r] =
                     [memory[r] EXCEPT ![NetworkOf[r]][Alias(r)] = ContractId[Call(r)]]]
    BY <1>6 DEF DeploySucceeds
  <2>6. memory' \in [Runs -> Records]
    BY <2>4, <2>5
  <2> QED
    BY <1>6, <2>6 DEF DeploySucceeds, ReturnSuccess
<1>7. ASSUME NEW r \in Runs, DeployFails(r) PROVE TypeOK'
  <2>1. result' \in [Deployments -> Results] /\ landed' = landed
    BY <1>7 DEF DeployFails, ReturnPartial, ReturnFailure, ReturnErr
  <2> QED
    BY <1>7, <2>1 DEF DeployFails
<1>8. ASSUME NEW r \in Runs, WriteTemp(r) PROVE TypeOK'
  BY <1>8 DEF WriteTemp
<1>9. ASSUME NEW r \in Runs, RenameTemp(r) PROVE TypeOK'
  <2>1. at[r] <= Len(Order) /\ temp[r] = memory[r] /\ Report(r)
    BY <1>9 DEF RenameTemp, CopiesAreReal
  <2> QED
    BY <1>9, <1>r, <2>1 DEF RenameTemp
<1>10. ASSUME NEW r \in Runs, PersistFails(r) PROVE TypeOK'
  <2>1. PICK x \in {None, Corrupt, memory[r]} : temp' = [temp EXCEPT ![r] = x]
    BY <1>10 DEF PersistFails
  <2> QED
    BY <1>10, <2>1 DEF PersistFails
<1>11. ASSUME NEW r \in Runs, Completes(r) PROVE TypeOK'
  BY <1>11 DEF Completes
<1>12. ASSUME NEW r \in Runs, Kill(r) PROVE TypeOK'
  BY <1>12 DEF Kill
<1>13. ASSUME NEW d \in Deployments, LedgerLands(d) \/ Archive(d) PROVE TypeOK'
  BY <1>13 DEF LedgerLands, Land, Archive, Ids
<1>14. CASE UNCHANGED vars
  BY <1>14 DEF vars, work
<1> QED
  BY <1>1, <1>2, <1>3, <1>4, <1>5, <1>6, <1>7, <1>8, <1>9, <1>10, <1>11, <1>12,
     <1>13, <1>14 DEF Next, RunStep

(* A step answers at most one call, and no contract leaves the ledger.     *)
LEMMA NextPromise ==
  ASSUME SafeInv, [Next]_vars
  PROVE  SuccessHasLanded' /\ landed \subseteq landed'
<1> USE DEF SafeInv, TypeOK, PromiseTypeOK, SuccessHasLanded, ledgerVars, promiseVars,
            Answer
<1>1. ASSUME NEW r \in Runs, DeployAlias(r) PROVE SuccessHasLanded' /\ landed' = landed
  BY <1>1 DEF DeployAlias, Start
<1>2. ASSUME NEW r \in Runs, DeploySucceeds(r) PROVE SuccessHasLanded' /\ landed' = landed
  BY <1>2 DEF DeploySucceeds, ReturnSuccess
<1>3. ASSUME NEW r \in Runs, DeployFails(r) PROVE SuccessHasLanded' /\ landed' = landed
  BY <1>3 DEF DeployFails, ReturnPartial, ReturnFailure, ReturnErr
<1>4. ASSUME NEW d \in Deployments, LedgerLands(d)
      PROVE SuccessHasLanded' /\ landed \subseteq landed'
  BY <1>4 DEF LedgerLands, Land
<1>5. ASSUME UNCHANGED promiseVars PROVE SuccessHasLanded' /\ landed' = landed
  BY <1>5
<1> QED
  BY <1>1, <1>2, <1>3, <1>4, <1>5
     DEF Next, RunStep, Launch, LaunchRefused, SkipDeployed, PrepareFails, WriteTemp,
         RenameTemp, PersistFails, Completes, Kill, Archive, vars, work

(* A sound file stays sound when the id of a landed call is recorded in it. *)
LEMMA RecordingIsSound ==
  ASSUME NEW f \in Records, Sound(f), NEW r \in Runs, NEW a \in Aliases,
         <<r, a>> \in landed
  PROVE  Sound([f EXCEPT ![NetworkOf[r]][a] = ContractId[<<r, a>>]])
<1>1. NetworkOf[r] \in Networks
  BY RunsAssumption
<1> DEFINE g == [f EXCEPT ![NetworkOf[r]][a] = ContractId[<<r, a>>]]
<1>2. \A n \in Networks, b \in Aliases :
        g[n][b] = IF n = NetworkOf[r] /\ b = a THEN ContractId[<<r, a>>] ELSE f[n][b]
  BY <1>1 DEF Records
<1> HIDE DEF g
<1>3. Sound(g)
  BY <1>2 DEF Sound
<1> QED
  BY <1>3 DEF g

(* Every step keeps the copies of the record file sound, and the file too. *)
LEMMA NextReal ==
  ASSUME SafeInv, [Next]_vars PROVE RecordsAreReal' /\ CopiesAreReal'
<1> DEFINE Control(q) ==
             /\ phase[q] \in Active => disk # Corrupt
             /\ phase[q] = "rename" => temp[q] = memory[q]
             /\ phase[q] \in {"deploying", "write", "rename"} => at[q] <= Len(Order)
<1>t. TypeOK /\ TypeOK' /\ RecordsAreReal
  BY NextType DEF SafeInv
<1>l. landed \subseteq landed'
  BY NextPromise
<1>u. \A q \in Runs : Control(q) /\ Sound(memory[q])
  BY DEF SafeInv, CopiesAreReal
<1>n. Corrupt \notin Records
  BY RunsAssumption DEF Records, Ids
<1>c. ASSUME disk' = disk PROVE RecordsAreReal'
  <2>1. CASE disk = Corrupt
    BY <1>c, <2>1 DEF RecordsAreReal
  <2>2. CASE disk # Corrupt
    <3>1. Sound(disk)
      BY <1>t, <2>2 DEF RecordsAreReal
    <3>2. Sound(disk)'
      BY <1>c, <3>1, <1>l, SoundIsStable DEF Sound
    <3> QED
      BY <3>2 DEF RecordsAreReal
  <2> QED
    BY <2>1, <2>2
<1>m. ASSUME memory' = memory, NEW q \in Runs PROVE Sound(memory[q])'
  <2>1. Sound(memory[q])
    BY <1>u
  <2> QED
    BY <1>m, <2>1, <1>l, SoundIsStable, SMTT(30) DEF Sound
<1> SUFFICES /\ RecordsAreReal'
             /\ \A q \in Runs : Control(q)'
             /\ \A q \in Runs : Sound(memory[q])'
  BY DEF CopiesAreReal
<1> USE DEF Goto, Fails, Active, TypeOK
<1>1. ASSUME NEW r \in Runs, Launch(r) PROVE
             /\ \A q \in Runs : Control(q)'
             /\ \A q \in Runs : Sound(memory[q])'
  <2>1. \A q \in Runs : Control(q)'
    BY <1>1, <1>t, <1>u DEF Launch
  <2>2. ASSUME NEW q \in Runs PROVE Sound(memory[q])'
    <3>1. memory'[q] \in {memory[q], disk} /\ disk # Corrupt
      BY <1>1, <1>t DEF Launch
    <3>2. Sound(memory'[q])
      BY <3>1, <1>t, <1>u DEF RecordsAreReal
    <3> QED
      BY <3>2, <1>l, SoundIsStable, SMTT(30) DEF Sound
  <2> QED
    BY <2>1, <2>2
<1>2. ASSUME NEW r \in Runs, LaunchRefused(r) \/ PrepareFails(r) \/ SkipDeployed(r)
                             \/ Completes(r) \/ DeployAlias(r) \/ WriteTemp(r)
      PROVE  memory' = memory /\ disk' = disk /\ \A q \in Runs : Control(q)'
  BY <1>2, <1>t, <1>u
     DEF LaunchRefused, PrepareFails, SkipDeployed, Completes, DeployAlias, WriteTemp,
         InLoop, Report
<1>3. ASSUME NEW r \in Runs, DeploySucceeds(r) PROVE
             /\ \A q \in Runs : Control(q)'
             /\ \A q \in Runs : Sound(memory[q])'
  <2>1. \A q \in Runs : Control(q)'
    BY <1>3, <1>t, <1>u DEF DeploySucceeds
  <2>2. Alias(r) \in Aliases /\ Call(r) \in landed
    <3>1. at[r] <= Len(Order)
      BY <1>3, <1>u DEF DeploySucceeds
    <3> QED
      BY <1>3, <1>t, <3>1, CallIsDeployment DEF DeploySucceeds, ReturnSuccess
  <2>3. memory'[r] = [memory[r] EXCEPT ![NetworkOf[r]][Alias(r)] = ContractId[<<r, Alias(r)>>]]
    BY <1>3, <1>t DEF DeploySucceeds, Call
  <2>4. Sound(memory[r]) /\ memory[r] \in Records
    BY <1>t, <1>u
  <2>5. Sound(memory'[r])
    BY <2>2, <2>3, <2>4, RecordingIsSound DEF Call
  <2>6. ASSUME NEW q \in Runs PROVE Sound(memory[q])'
    <3>1. Sound(memory'[q])
      BY <1>3, <1>t, <1>u, <2>5 DEF DeploySucceeds
    <3> QED
      BY <3>1, <1>l, SoundIsStable, SMTT(30) DEF Sound
  <2> QED
    BY <2>1, <2>6
<1>4. ASSUME NEW r \in Runs, DeployFails(r) \/ PersistFails(r) \/ Kill(r)
      PROVE  memory' = memory /\ disk' = disk /\ \A q \in Runs : Control(q)'
  <2>1. /\ phase'[r] \in {"failed", "killed"} /\ memory' = memory /\ disk' = disk /\ at' = at
        /\ \A q \in Runs \ {r} : phase'[q] = phase[q] /\ temp'[q] = temp[q]
    BY <1>4, <1>t DEF DeployFails, PersistFails, Kill
  <2> QED
    BY <2>1, <1>u
<1>5. ASSUME NEW r \in Runs, RenameTemp(r) PROVE
             /\ RecordsAreReal'
             /\ memory' = memory
             /\ \A q \in Runs : Control(q)'
  <2>1. temp[r] = memory[r] /\ disk' = temp[r] /\ disk' # Corrupt
    BY <1>5, <1>t, <1>u, <1>n DEF RenameTemp
  <2>2. Sound(disk')
    BY <2>1, <1>u
  <2>3. RecordsAreReal'
    BY <2>2, <1>l, SoundIsStable DEF RecordsAreReal, Sound
  <2> QED
    BY <1>5, <1>t, <1>u, <2>1, <2>3 DEF RenameTemp, Report
<1>6. ASSUME NEW d \in Deployments, LedgerLands(d) \/ Archive(d)
      PROVE  memory' = memory /\ disk' = disk /\ \A q \in Runs : Control(q)'
  BY <1>6, <1>u DEF LedgerLands, Archive, runVars
<1>7. ASSUME UNCHANGED vars
      PROVE  memory' = memory /\ disk' = disk /\ \A q \in Runs : Control(q)'
  BY <1>7, <1>u DEF vars, work, runVars
<1>8. ASSUME NEW r \in Runs, Launch(r) \/ DeploySucceeds(r) PROVE disk' = disk
  BY <1>8 DEF Launch, DeploySucceeds
<1> QED
  BY <1>1, <1>2, <1>3, <1>4, <1>5, <1>6, <1>7, <1>8, <1>c, <1>m DEF Next, RunStep

(* The reported aliases stay those before the position of the run.         *)
LEMMA NextOrdered ==
  ASSUME SafeInv, [Next]_vars PROVE ProgressIsOrdered'
<1> DEFINE Reported(q) == results[q] = {Order[i] : i \in 1 .. at[q] - 1}
           Started(q)  == \A a \in Aliases : result[<<q, a>>] # "idle" =>
                            \E i \in 1 .. Len(Order) : i <= at[q] /\ Order[i] = a
<1>t. TypeOK
  BY DEF SafeInv
<1>u. \A q \in Runs : Reported(q) /\ Started(q)
  BY DEF SafeInv, ProgressIsOrdered
<1> SUFFICES \A q \in Runs : Reported(q)' /\ Started(q)'
  BY DEF ProgressIsOrdered
<1>1. ASSUME UNCHANGED <<results, at, result>>
      PROVE  \A q \in Runs : Reported(q)' /\ Started(q)'
  BY <1>1, <1>u
<1>2. ASSUME NEW r \in Runs, SkipDeployed(r) \/ RenameTemp(r)
      PROVE  \A q \in Runs : Reported(q)' /\ Started(q)'
  <2>1. at[r] <= Len(Order) /\ Report(r) /\ result' = result
    BY <1>2 DEF SkipDeployed, RenameTemp, InLoop, SafeInv, CopiesAreReal, ledgerVars, promiseVars
  <2>2. at[r] \in 1 .. Len(Order) /\ Len(Order) \in Nat
    BY <1>t, <2>1, CallIsDeployment, OrderIsTyped
  <2>3. /\ at'[r] = at[r] + 1 /\ results'[r] = results[r] \cup {Order[at[r]]}
        /\ \A q \in Runs \ {r} : at'[q] = at[q] /\ results'[q] = results[q]
    BY <1>t, <2>1 DEF TypeOK, Report, Alias
  <2>4. Reported(r)'
    <3>1. results'[r] = {Order[i] : i \in 1 .. at[r] - 1} \cup {Order[at[r]]}
      BY <1>u, <2>3
    <3>2. 1 .. at'[r] - 1 = (1 .. at[r] - 1) \cup {at[r]}
      BY <2>2, <2>3
    <3> QED
      BY <3>1, <3>2
  <2>5. Started(r)'
    <3>1. \A i \in 1 .. Len(Order) : i <= at[r] => i <= at'[r]
      BY <2>2, <2>3
    <3> QED
      BY <1>u, <2>1, <3>1
  <2>6. ASSUME NEW q \in Runs, q # r PROVE Reported(q)' /\ Started(q)'
    BY <1>u, <2>1, <2>3, <2>6
  <2> QED
    BY <2>4, <2>5, <2>6
<1>3. ASSUME NEW r \in Runs, DeployAlias(r) \/ DeploySucceeds(r) \/ DeployFails(r)
      PROVE  \A q \in Runs : Reported(q)' /\ Started(q)'
  <2>1. at[r] <= Len(Order) /\ UNCHANGED <<at, results>>
    BY <1>3 DEF DeployAlias, DeploySucceeds, DeployFails, Fails, InLoop, SafeInv, CopiesAreReal
  <2>2. at[r] \in 1 .. Len(Order) /\ at[r] <= at[r]
    BY <1>t, <2>1, CallIsDeployment, OrderIsTyped
  <2>3. \A d \in Deployments : d # Call(r) => result'[d] = result[d]
    BY <1>3, <1>t
       DEF DeployAlias, DeploySucceeds, DeployFails, Start, ReturnSuccess, ReturnPartial,
           ReturnFailure, ReturnErr, Answer, TypeOK, PromiseTypeOK
  <2>4. ASSUME NEW q \in Runs, NEW a \in Aliases, result'[<<q, a>>] # "idle"
        PROVE  \E i \in 1 .. Len(Order) : i <= at'[q] /\ Order[i] = a
    <3>1. CASE <<q, a>> = Call(r)
      BY <2>1, <2>2, <3>1 DEF Call, Alias
    <3>2. CASE <<q, a>> # Call(r)
      <4>1. <<q, a>> \in Deployments
        BY RunsAssumption
      <4> QED
        BY <1>u, <2>1, <2>3, <2>4, <3>2, <4>1
    <3> QED
      BY <3>1, <3>2
  <2> QED
    BY <1>u, <2>1, <2>4
<1>4. ASSUME NEW r \in Runs, Launch(r) \/ LaunchRefused(r) \/ PrepareFails(r)
                             \/ WriteTemp(r) \/ PersistFails(r) \/ Completes(r) \/ Kill(r)
      PROVE  UNCHANGED <<results, at, result>>
  BY <1>4 DEF Launch, LaunchRefused, PrepareFails, WriteTemp, PersistFails, Completes, Kill,
              Fails, ledgerVars, promiseVars
<1>5. ASSUME NEW d \in Deployments, LedgerLands(d) \/ Archive(d)
      PROVE  UNCHANGED <<results, at, result>>
  BY <1>5 DEF LedgerLands, Land, Archive, runVars, promiseVars
<1>6. ASSUME UNCHANGED vars PROVE UNCHANGED <<results, at, result>>
  BY <1>6 DEF vars, work, runVars, promiseVars
<1> HIDE DEF Reported, Started
<1> QED
  BY <1>1, <1>2, <1>3, <1>4, <1>5, <1>6 DEF Next, RunStep

(* Reported and started aliases have all their dependencies reported.      *)
LEMMA OrderedComesFirst == TypeOK /\ ProgressIsOrdered => DependenciesComeFirst
<1> SUFFICES ASSUME TypeOK, ProgressIsOrdered, NEW r \in Runs, NEW a \in Aliases,
                    a \in results[r] \/ result[<<r, a>>] # "idle",
                    NEW b \in DependsOn[a]
             PROVE  b \in results[r]
  BY DEF DependenciesComeFirst
<1>1. at[r] \in 1 .. Len(Order) + 1 /\ Len(Order) \in Nat
  BY OrderIsTyped DEF TypeOK
<1>2. results[r] = {Order[i] : i \in 1 .. at[r] - 1}
  BY DEF ProgressIsOrdered
<1>3. PICK i \in 1 .. Len(Order) : i <= at[r] /\ Order[i] = a
  BY <1>1, <1>2, SMTT(30) DEF ProgressIsOrdered
<1>4. PICK j \in 1 .. i - 1 : Order[j] = b
  BY <1>3, OrderAssumption
<1>5. j \in 1 .. at[r] - 1
  BY <1>1, <1>3, <1>4
<1> QED
  BY <1>2, <1>4, <1>5

(* The record file never names a contract that was not deployed, and an    *)
(* alias is never deployed before its dependencies: for every workspace,   *)
(* every set of overlapping runs, failures and kills.                      *)
THEOREM SafeInvariant == Spec => []SafeInv
<1>1. SafeInv /\ [Next]_vars => SafeInv'
  BY NextType, NextPromise, NextReal, NextOrdered DEF SafeInv
<1> QED
  BY <1>1, InitSafe, PTL DEF Spec

(* Every run of the command keeps its state well-typed.                    *)
THEOREM TypeCorrect == Spec => []TypeOK
  BY SafeInvariant, PTL DEF SafeInv

(* Every id in `.sdkt-deployments.json` is that of a contract this project *)
(* has deployed on that network under that alias.                          *)
THEOREM RecordsNameContracts == Spec => []RecordsAreReal
  BY SafeInvariant, PTL DEF SafeInv

(* The loop of `project deploy` never starts or reports an alias before    *)
(* all it depends on.                                                      *)
THEOREM DependenciesFirst == Spec => []DependenciesComeFirst
<1>1. SafeInv => DependenciesComeFirst
  BY OrderedComesFirst DEF SafeInv
<1> QED
  BY <1>1, SafeInvariant, PTL

(* No step of any run, the write and rename of the record file included,   *)
(* makes the file unreadable or overwrites one that is.                    *)
THEOREM FileStaysReadable == Spec => ReadableStaysReadable
<1>1. ASSUME SafeInv, [Next]_vars PROVE [disk = Corrupt <=> disk' = Corrupt]_vars
  <2>1. ASSUME NEW r \in Runs, RenameTemp(r) PROVE disk # Corrupt /\ disk' # Corrupt
    <3>0. phase[r] = "rename" /\ phase[r] \in Active /\ disk' = temp[r]
      BY <2>1 DEF RenameTemp, Active
    <3>1. disk # Corrupt /\ disk' = memory[r] /\ memory[r] \in Records
      BY <1>1, <3>0 DEF SafeInv, CopiesAreReal, TypeOK
    <3>2. Corrupt \notin Records
      BY RunsAssumption DEF Records, Ids
    <3> QED
      BY <3>1, <3>2
  <2>2. \/ \E r \in Runs : RenameTemp(r)
        \/ disk' = disk
    BY <1>1 DEF Next, RunStep, Launch, LaunchRefused, Fails, SkipDeployed, PrepareFails,
         DeployAlias, DeploySucceeds, DeployFails, WriteTemp, PersistFails, Completes, Kill,
         LedgerLands, Archive, vars, work
  <2> QED
    BY <2>1, <2>2
<1> QED
  BY <1>1, SafeInvariant, PTL DEF Spec, ReadableStaysReadable

(* A file that covers another one covers it after one more record.         *)
LEMMA RecordingCovers ==
  ASSUME NEW f \in Records, NEW n \in Networks, NEW a \in Aliases, NEW id \in Ids
  PROVE  /\ Covers([f EXCEPT ![n][a] = id], f)
         /\ [f EXCEPT ![n][a] = id][n][a] # None
<1>1. None \notin Ids
  BY RunsAssumption DEF Ids
<1> DEFINE g == [f EXCEPT ![n][a] = id]
<1>2. \A m \in Networks, b \in Aliases :
        g[m][b] = IF m = n /\ b = a THEN id ELSE f[m][b]
  BY DEF Records
<1> HIDE DEF g
<1>3. Covers(g, f) /\ g[n][a] # None
  BY <1>1, <1>2 DEF Covers
<1> QED
  BY <1>3 DEF g

(* With runs that do not overlap, every step keeps a run's copy current    *)
(* and every reported alias in the file.                                   *)
LEMMA NextCurrent ==
  ASSUME Sequential, SequentialInv, [Next]_vars
  PROVE  CopyIsCurrent' /\ ReportedIsRecorded'
<1> DEFINE Alone      == \A q, p \in Runs : phase[q] \in Active /\ phase[p] \in Active => q = p
           Same(q)    == phase[q] \in {"loop", "deploying"} => memory[q] = disk
           Ahead(q)   == phase[q] \in {"write", "rename"} =>
                           Covers(memory[q], disk) /\ Recorded(q) # None
           Current(q) == Same(q) /\ Ahead(q)
<1>t. TypeOK /\ CopiesAreReal /\ ReportedIsRecorded /\ Alone /\ \A q \in Runs : Current(q)
  BY DEF SequentialInv, SafeInv, CopyIsCurrent
<1> SUFFICES Alone' /\ (\A q \in Runs : Current(q)') /\ ReportedIsRecorded'
  BY DEF CopyIsCurrent
<1>r. ASSUME disk' = disk, results' = results PROVE ReportedIsRecorded'
  BY <1>r, <1>t DEF ReportedIsRecorded
<1>1. ASSUME NEW r \in Runs, Launch(r)
      PROVE  Alone' /\ \A q \in Runs : Current(q)'
  <2>1. /\ \A q \in Runs : phase[q] \notin Active
        /\ phase'[r] = "loop" /\ memory'[r] = disk /\ disk' = disk
        /\ \A q \in Runs \ {r} : phase'[q] = phase[q]
    BY <1>1, <1>t DEF Launch, Goto, TypeOK
  <2> QED
    BY <2>1 DEF Active
<1>2. ASSUME NEW r \in Runs, LaunchRefused(r) \/ PrepareFails(r) \/ DeployFails(r)
                             \/ PersistFails(r) \/ Completes(r) \/ Kill(r)
      PROVE  Alone' /\ \A q \in Runs : Current(q)'
  <2>1. /\ phase'[r] \in {"failed", "killed", "done"} /\ UNCHANGED <<memory, disk, at>>
        /\ \A q \in Runs \ {r} : phase'[q] = phase[q]
    BY <1>2, <1>t DEF LaunchRefused, PrepareFails, DeployFails, PersistFails, Completes, Kill,
                      Fails, Goto, TypeOK
  <2>2. Alone'
    BY <1>t, <2>1 DEF Active
  <2>3. ASSUME NEW q \in Runs PROVE Current(q)'
    BY <1>t, <2>1 DEF Recorded, Alias
  <2> QED
    BY <2>2, <2>3
<1>3. ASSUME NEW r \in Runs, DeployAlias(r)
      PROVE  Alone' /\ \A q \in Runs : Current(q)'
  <2>1. /\ phase[r] = "loop" /\ phase'[r] = "deploying" /\ UNCHANGED <<memory, disk, at>>
        /\ \A q \in Runs \ {r} : phase'[q] = phase[q]
    BY <1>3, <1>t DEF DeployAlias, InLoop, Goto, TypeOK
  <2>2. Alone'
    BY <1>t, <2>1 DEF Active
  <2>3. ASSUME NEW q \in Runs PROVE Current(q)'
    BY <1>t, <2>1 DEF Recorded, Alias
  <2> QED
    BY <2>2, <2>3
<1>4. ASSUME NEW r \in Runs, WriteTemp(r)
      PROVE  Alone' /\ \A q \in Runs : Current(q)'
  <2>1. /\ phase[r] = "write" /\ phase'[r] = "rename" /\ UNCHANGED <<memory, disk, at>>
        /\ \A q \in Runs \ {r} : phase'[q] = phase[q]
    BY <1>4, <1>t DEF WriteTemp, Goto, TypeOK
  <2>2. Alone'
    BY <1>t, <2>1 DEF Active
  <2>3. ASSUME NEW q \in Runs PROVE Current(q)'
    BY <1>t, <2>1 DEF Recorded, Alias
  <2> QED
    BY <2>2, <2>3
<1>5. ASSUME NEW r \in Runs, DeploySucceeds(r)
      PROVE  Alone' /\ \A q \in Runs : Current(q)'
  <2>1. /\ phase[r] = "deploying" /\ phase'[r] = "write" /\ UNCHANGED <<disk, at>>
        /\ memory'[r] = [memory[r] EXCEPT ![NetworkOf[r]][Alias(r)] = ContractId[Call(r)]]
        /\ \A q \in Runs \ {r} : phase'[q] = phase[q]
    BY <1>5, <1>t DEF DeploySucceeds, Goto, TypeOK
  <2>2. /\ memory[r] = disk /\ memory[r] \in Records /\ NetworkOf[r] \in Networks
        /\ at[r] <= Len(Order)
    BY <1>t, <2>1, RunsAssumption DEF TypeOK, CopiesAreReal
  <2>3. Alias(r) \in Aliases /\ ContractId[Call(r)] \in Ids
    BY <1>t, <2>2, CallIsDeployment
  <2>4. Covers(memory'[r], disk) /\ memory'[r][NetworkOf[r]][Alias(r)] # None
    BY <2>1, <2>2, <2>3, RecordingCovers
  <2>5. Current(r)'
    BY <2>1, <2>4 DEF Recorded, Alias, Covers
  <2>6. ASSUME NEW q \in Runs, q # r PROVE Current(q)'
    BY <1>t, <2>1, <2>6 DEF Active
  <2>7. Alone'
    BY <1>t, <2>1 DEF Active
  <2> QED
    BY <2>5, <2>6, <2>7
<1>6. ASSUME NEW r \in Runs, SkipDeployed(r)
      PROVE  Alone' /\ (\A q \in Runs : Current(q)') /\ ReportedIsRecorded'
  <2>1. /\ phase[r] = "loop" /\ phase'[r] = "loop" /\ UNCHANGED <<disk, memory>>
        /\ Recorded(r) # None /\ results'[r] = results[r] \cup {Alias(r)}
        /\ \A q \in Runs \ {r} : phase'[q] = phase[q] /\ results'[q] = results[q]
    BY <1>6, <1>t DEF SkipDeployed, InLoop, Report, Goto, TypeOK
  <2>2. memory[r] = disk /\ disk # Corrupt
    BY <1>t, <2>1 DEF CopiesAreReal, Active
  <2>3. ReportedIsRecorded'
    BY <1>t, <2>1, <2>2 DEF ReportedIsRecorded, Recorded
  <2>4. ASSUME NEW q \in Runs PROVE Current(q)'
    BY <1>t, <2>1 DEF Active
  <2>5. Alone'
    BY <1>t, <2>1 DEF Active
  <2> QED
    BY <2>3, <2>4, <2>5
<1>7. ASSUME NEW r \in Runs, RenameTemp(r)
      PROVE  Alone' /\ (\A q \in Runs : Current(q)') /\ ReportedIsRecorded'
  <2>1. /\ phase[r] = "rename" /\ phase'[r] = "loop" /\ disk' = temp[r] /\ memory' = memory
        /\ results'[r] = results[r] \cup {Alias(r)}
        /\ \A q \in Runs \ {r} : phase'[q] = phase[q] /\ results'[q] = results[q]
    BY <1>7, <1>t DEF RenameTemp, Report, Goto, TypeOK
  <2>2. /\ disk' = memory[r] /\ memory[r] \in Records /\ Covers(memory[r], disk)
        /\ Recorded(r) # None /\ disk # Corrupt
    BY <1>t, <2>1 DEF CopiesAreReal, Active, TypeOK
  <2>3. disk' # Corrupt
    BY <2>2, RunsAssumption DEF Records, Ids
  <2>4. ReportedIsRecorded'
    <3>1. ASSUME NEW q \in Runs, NEW a \in results'[q] PROVE disk'[NetworkOf[q]][a] # None
      <4>1. CASE q = r /\ a = Alias(r)
        BY <2>2, <4>1 DEF Recorded
      <4>2. CASE a \in results[q]
        <5>1. a \in Aliases /\ NetworkOf[q] \in Networks
          BY <4>2, <1>t, RunsAssumption DEF TypeOK
        <5>2. disk[NetworkOf[q]][a] # None
          BY <4>2, <1>t DEF ReportedIsRecorded
        <5> QED
          BY <2>2, <5>1, <5>2 DEF Covers
      <4> QED
        BY <2>1, <3>1, <4>1, <4>2
    <3> QED
      BY <3>1, <2>3 DEF ReportedIsRecorded
  <2>5. Current(r)'
    BY <2>1, <2>2
  <2>6. ASSUME NEW q \in Runs, q # r PROVE Current(q)'
    BY <1>t, <2>1, <2>6 DEF Active
  <2>7. Alone'
    BY <1>t, <2>1 DEF Active
  <2> QED
    BY <2>4, <2>5, <2>6, <2>7
<1>8. ASSUME UNCHANGED <<phase, memory, disk, at>>
      PROVE  Alone' /\ \A q \in Runs : Current(q)'
  BY <1>8, <1>t DEF Recorded, Alias, Covers
<1>9. ASSUME NEW d \in Deployments, LedgerLands(d) \/ Archive(d)
      PROVE  UNCHANGED <<phase, memory, disk, at, results>>
  BY <1>9 DEF LedgerLands, Archive, runVars
<1>10. ASSUME UNCHANGED vars PROVE UNCHANGED <<phase, memory, disk, at, results>>
  BY <1>10 DEF vars, work, runVars
<1>11. ASSUME NEW r \in Runs,
              \/ Launch(r) \/ LaunchRefused(r) \/ PrepareFails(r) \/ DeployFails(r)
              \/ PersistFails(r) \/ Completes(r) \/ Kill(r) \/ DeployAlias(r)
              \/ WriteTemp(r) \/ DeploySucceeds(r)
       PROVE  disk' = disk /\ results' = results
  BY <1>11 DEF Launch, LaunchRefused, PrepareFails, DeployFails, PersistFails, Completes, Kill,
               DeployAlias, WriteTemp, DeploySucceeds, Fails
<1> HIDE DEF Alone, Current
<1> QED
  BY <1>1, <1>2, <1>3, <1>4, <1>5, <1>6, <1>7, <1>8, <1>9, <1>10, <1>11, <1>r
     DEF Next, RunStep

(* When the operator never starts a run while another is active, the copy  *)
(* of the active run is the file, or ahead of it by one record.            *)
THEOREM SequentialInvariant ==
  ASSUME Sequential PROVE Spec => []SequentialInv
<1>1. Init => SequentialInv
  <2>1. Init => CopyIsCurrent /\ ReportedIsRecorded
    BY DEF Init, CopyIsCurrent, ReportedIsRecorded, Active
  <2> QED
    BY <2>1, InitSafe DEF SequentialInv
<1>2. SequentialInv /\ [Next]_vars => SequentialInv'
  BY NextType, NextPromise, NextReal, NextOrdered, NextCurrent DEF SequentialInv, SafeInv
<1> QED
  BY <1>1, <1>2, PTL DEF Spec

(* Then an alias that a run has reported as deployed is in the record file *)
(* for good, whatever later runs do, fail at or are killed in.             *)
THEOREM ReportedStaysRecorded ==
  ASSUME Sequential PROVE Spec => []ReportedIsRecorded
<1>1. SequentialInv => ReportedIsRecorded
  BY DEF SequentialInv
<1> QED
  BY <1>1, SequentialInvariant, PTL

(* Only DeployAlias starts a deployment, and that of its own position.     *)
LEMMA OnlyDeployAliasStarts ==
  ASSUME SafeInv, [Next]_vars, NEW r \in Runs, NEW a \in Aliases,
         result[<<r, a>>] = "idle", result'[<<r, a>>] # "idle"
  PROVE  DeployAlias(r) /\ Alias(r) = a
<1>t. TypeOK /\ result \in [Deployments -> Results] /\ <<r, a>> \in Deployments
  BY RunsAssumption DEF SafeInv, TypeOK, PromiseTypeOK
<1>1. ASSUME NEW q \in Runs, DeployAlias(q) PROVE DeployAlias(r) /\ Alias(r) = a
  <2>1. at[q] <= Len(Order) /\ result' = [result EXCEPT ![Call(q)] = "running"]
    BY <1>1 DEF DeployAlias, InLoop, Start, Answer
  <2>2. Call(q) = <<r, a>>
    BY <1>t, <2>1
  <2>3. q = r /\ Alias(q) = a
    BY <2>2 DEF Call
  <2> QED
    BY <1>1, <2>3
<1>2. ASSUME NEW q \in Runs, DeploySucceeds(q) \/ DeployFails(q) PROVE FALSE
  <2>1. \E x : result[Call(q)] = "running" /\ result' = [result EXCEPT ![Call(q)] = x]
    BY <1>2 DEF DeploySucceeds, DeployFails, ReturnSuccess, ReturnPartial, ReturnFailure,
                ReturnErr, Answer
  <2> QED
    BY <1>t, <2>1
<1>3. ASSUME NEW q \in Runs,
             \/ Launch(q) \/ LaunchRefused(q) \/ SkipDeployed(q) \/ PrepareFails(q)
             \/ WriteTemp(q) \/ RenameTemp(q) \/ PersistFails(q) \/ Completes(q) \/ Kill(q)
      PROVE  result' = result
  BY <1>3 DEF Launch, LaunchRefused, SkipDeployed, PrepareFails, WriteTemp, RenameTemp,
              PersistFails, Completes, Kill, ledgerVars, promiseVars
<1>4. ASSUME NEW d \in Deployments, LedgerLands(d) \/ Archive(d) PROVE result' = result
  BY <1>4 DEF LedgerLands, Land, Archive, promiseVars
<1>5. ASSUME UNCHANGED vars PROVE result' = result
  BY <1>5 DEF vars, work, promiseVars
<1> QED
  BY <1>1, <1>2, <1>3, <1>4, <1>5 DEF Next, RunStep

(* `--skip-deployed` starts a deployment only for an alias that the record *)
(* file names no contract for, or one that is no longer on-chain: the      *)
(* loop asks the copy it read at its start, and that is still the file.    *)
THEOREM ResumeIsExact ==
  ASSUME Sequential PROVE Spec => ResumeDeploysOnlyMissing
<1> DEFINE Step == \A r \in Skip, a \in Aliases :
                     result[<<r, a>>] = "idle" /\ result'[<<r, a>>] # "idle" =>
                       ~Exists(disk[NetworkOf[r]][a])
<1>1. ASSUME SequentialInv, [Next]_vars PROVE Step
  <2> SUFFICES ASSUME NEW r \in Skip, NEW a \in Aliases,
                      result[<<r, a>>] = "idle", result'[<<r, a>>] # "idle"
               PROVE  ~Exists(disk[NetworkOf[r]][a])
    OBVIOUS
  <2>1. r \in Runs /\ SafeInv /\ CopyIsCurrent
    BY <1>1, RunsAssumption DEF SequentialInv
  <2>2. DeployAlias(r) /\ Alias(r) = a
    BY <1>1, <2>1, OnlyDeployAliasStarts
  <2>3. phase[r] = "loop" /\ (Recorded(r) # None => ~Exists(Recorded(r)))
    BY <2>2 DEF DeployAlias, InLoop
  <2>4. Recorded(r) = disk[NetworkOf[r]][a]
    BY <2>1, <2>2, <2>3 DEF CopyIsCurrent, Recorded
  <2>5. landed \subseteq Deployments
    BY <2>1 DEF SafeInv, TypeOK, PromiseTypeOK
  <2>6. ~Exists(None)
    BY <2>5, RunsAssumption DEF Exists
  <2> QED
    BY <2>3, <2>4, <2>6
<1>2. SequentialInv /\ [Next]_vars => [Step]_vars
  BY <1>1
<1> QED
  BY <1>2, SequentialInvariant, PTL DEF Spec, ResumeDeploysOnlyMissing

(* With one run at a time the record file is right about what it names and *)
(* names all that was reported, through every failure, kill and rename.    *)
THEOREM RecordsStayKept ==
  ASSUME Sequential PROVE Spec => []RecordsAreKept
<1>1. RecordsAreReal /\ ReportedIsRecorded => RecordsAreKept
  BY DEF RecordsAreKept
<1> QED
  BY <1>1, RecordsNameContracts, ReportedStaysRecorded, PTL
=============================================================================
