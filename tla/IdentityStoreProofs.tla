------------------------ MODULE IdentityStoreProofs ------------------------
(***************************************************************************)
(* Proofs about the keystore, for any number of names, processes and keys. *)
(***************************************************************************)
EXTENDS IdentityStore, TLAPS

\* What each program point implies about the process that is there.
Phase ==
    \A p \in Procs :
        /\ pc[p] # "ended" => end[p] = "none"
        /\ pc[p] \in {"generate", "import", "remove", "set_default", "sign"} => op[p] = pc[p]
        /\ pc[p] \in {"open", "write"} =>
              op[p] \in {"generate", "import"} /\ name[p] \in Names /\ key[p] \in Keys
        /\ pc[p] \in {"unlink", "clear", "clear_link"} => op[p] = "remove" /\ name[p] \in Names
        /\ pc[p] \in {"old_link", "symlink"} => op[p] = "set_default" /\ name[p] \in Names
        /\ pc[p] \in {"get", "load"} => op[p] = "sign" /\ target[p] \in Names

\* With one command at a time: whoever creates an identity found its name free,
\* and whoever signs with the default found the link that was made last.
Alone == \A p, q \in Procs : pc[p] # "idle" /\ pc[q] # "idle" => p = q

Undisturbed ==
    \A p \in Procs :
        /\ pc[p] \in {"open", "write"} => told[name[p]] = 0
        /\ pc[p] = "write" => p \in linked
        /\ pc[p] \in {"get", "load"} /\ name[p] = Default => target[p] = chosen

LinkIsChosen == link # Default => link = chosen

OneAtATime ==
    Sequential =>
        Alone /\ Undisturbed /\ LinkIsChosen /\ ReportedKeyIsStored /\ SentinelIsTheChosen

\* Without failures an empty file is one that its creator is about to fill.
EmptyIsBeingWritten ==
    ~Faults => \A n \in Names : file[n] = Empty =>
        \E p \in Procs : pc[p] = "write" /\ p \in linked /\ name[p] = n

\* Without failures in an absolute directory the link stays with the chosen
\* identity, also while that is deleted: the link then dangles, and it is never
\* cleared, because remove looks at it when the file is gone.
Healthy == Sequential /\ ~Faults /\ ~RelativeDir

LinkStays ==
    Healthy =>
        /\ chosen # Default => link = chosen \/ \E p \in Procs : pc[p] = "symlink"
        /\ \A p \in Procs : /\ pc[p] # "clear_link"
                            /\ pc[p] = "clear" => ~Exists(name[p])
                            /\ pc[p] = "get" /\ name[p] = Default => Exists(target[p])
                            /\ end[p] = "NoDefaultIdentity" => ~Exists(chosen)

USE ConstantsAssumption

\* Every step keeps the types and the facts of Phase, also of overlapping
\* commands.
LEMMA TypeStep == TypeOK /\ Phase /\ [Next]_vars => TypeOK' /\ Phase'
<1> SUFFICES ASSUME TypeOK, Phase, [Next]_vars PROVE TypeOK' /\ Phase'
  OBVIOUS
<1>0. setting' = setting
  BY DEF Next, vars
<1> USE <1>0 DEF TypeOK, Phase, Keys, Absent, Empty, dir, run, Goto, End
<1>1. CASE \E p \in Procs : Start(p)
  BY <1>1 DEF Start
<1>2. CASE \E p \in Procs : NewKey(p)
  BY <1>2 DEF NewKey, NameValid, Exists
<1>3. CASE \E p \in Procs : OpenKeyFile(p)
  BY <1>3 DEF OpenKeyFile
<1>4. CASE \E p \in Procs : WriteKey(p)
  BY <1>4 DEF WriteKey
<1>5. CASE \E p \in Procs : RemoveCheck(p)
  BY <1>5 DEF RemoveCheck, Exists
<1>6. CASE \E p \in Procs : RemoveFile(p)
  BY <1>6, SMTT(30) DEF RemoveFile, Exists
<1>7. CASE \E p \in Procs : ClearCheck(p)
  BY <1>7, SMTT(30) DEF ClearCheck, LinkExists, Exists
<1>8. CASE \E p \in Procs : ClearLink(p)
  BY <1>8 DEF ClearLink
<1>9. CASE \E p \in Procs : DefaultCheck(p)
  BY <1>9 DEF DefaultCheck, Exists
<1>10. CASE \E p \in Procs : RemoveOldLink(p)
  BY <1>10 DEF RemoveOldLink, LinkExists, Exists
<1>11. CASE \E p \in Procs : Symlink(p)
  BY <1>11 DEF Symlink
<1>12. CASE \E p \in Procs : Resolve(p)
  BY <1>12 DEF Resolve, LinkExists, Exists
<1>13. CASE \E p \in Procs : Get(p)
  BY <1>13 DEF Get
<1>14. CASE \E p \in Procs : LoadSigningKey(p)
  BY <1>14 DEF LoadSigningKey
<1>15. CASE \E p \in Procs : Fail(p)
  BY <1>15 DEF Fail
<1>16. CASE \E p \in Procs : Exit(p)
  BY <1>16 DEF Exit
<1>17. CASE UNCHANGED vars
  BY <1>17 DEF vars
<1> QED
  BY <1>1, <1>2, <1>3, <1>4, <1>5, <1>6, <1>7, <1>8, <1>9, <1>10, <1>11, <1>12, <1>13, <1>14, <1>15, <1>16, <1>17 DEF Next, Step

\* Type correctness of the keystore (IdentityStore in identity.rs).
THEOREM TypeCorrect == Spec => []TypeOK
<1>1. Init => TypeOK /\ Phase
  BY DEF Init, TypeOK, Phase, Absent, Empty
<1>2. QED
  BY <1>1, TypeStep, PTL DEF Spec

\* Every step of a user who runs one command at a time keeps OneAtATime.
LEMMA AloneStep ==
    ASSUME TypeOK, Phase, OneAtATime, [Next]_vars
    PROVE  OneAtATime'
<1>0. setting' = setting
  BY DEF Next, vars
<1> SUFFICES ASSUME Sequential PROVE OneAtATime'
  BY <1>0 DEF OneAtATime, Sequential
<1> USE <1>0 DEF TypeOK, Phase, OneAtATime, Sequential, Alone, Undisturbed, LinkIsChosen, ReportedKeyIsStored,
            SentinelIsTheChosen, Signed, Keys, Absent, Empty, dir, run, Goto, End
<1>1. CASE \E p \in Procs : Start(p)
  BY <1>1 DEF Start
<1>2. CASE \E p \in Procs : NewKey(p)
  BY <1>2 DEF NewKey, NameValid, Exists
<1>3. CASE \E p \in Procs : OpenKeyFile(p)
  BY <1>3 DEF OpenKeyFile
<1>4. CASE \E p \in Procs : WriteKey(p)
  BY <1>4 DEF WriteKey
<1>5. CASE \E p \in Procs : RemoveCheck(p)
  BY <1>5 DEF RemoveCheck, Exists
<1>6. CASE \E p \in Procs : RemoveFile(p)
  BY <1>6, SMTT(30) DEF RemoveFile, Exists
<1>7. CASE \E p \in Procs : ClearCheck(p)
  BY <1>7, SMTT(30) DEF ClearCheck, LinkExists, Exists
<1>8. CASE \E p \in Procs : ClearLink(p)
  BY <1>8 DEF ClearLink
<1>9. CASE \E p \in Procs : DefaultCheck(p)
  BY <1>9 DEF DefaultCheck, Exists
<1>10. CASE \E p \in Procs : RemoveOldLink(p)
  BY <1>10 DEF RemoveOldLink, LinkExists, Exists
<1>11. CASE \E p \in Procs : Symlink(p)
  BY <1>11 DEF Symlink
<1>12. CASE \E p \in Procs : Resolve(p)
  BY <1>12 DEF Resolve, LinkExists, Exists
<1>13. CASE \E p \in Procs : Get(p)
  BY <1>13 DEF Get
<1>14. CASE \E p \in Procs : LoadSigningKey(p)
  BY <1>14 DEF LoadSigningKey
<1>15. CASE \E p \in Procs : Fail(p)
  BY <1>15 DEF Fail
<1>16. CASE \E p \in Procs : Exit(p)
  BY <1>16 DEF Exit
<1>17. CASE UNCHANGED vars
  BY <1>17 DEF vars
<1> QED
  BY <1>1, <1>2, <1>3, <1>4, <1>5, <1>6, <1>7, <1>8, <1>9, <1>10, <1>11, <1>12, <1>13, <1>14, <1>15, <1>16, <1>17 DEF Next, Step

LEMMA OneAtATimeHolds == Spec => []OneAtATime
<1>1. Init => TypeOK /\ Phase /\ OneAtATime
  BY DEF Init, TypeOK, Phase, Absent, Empty, OneAtATime, Alone, Undisturbed, LinkIsChosen,
         ReportedKeyIsStored, SentinelIsTheChosen, Signed
<1>2. QED
  BY <1>1, TypeStep, AloneStep, PTL DEF Spec

\* A key that somebody was told of stays stored until it is deleted, whatever
\* fails or is killed (ensure_name_valid and save_key in identity.rs).
THEOREM ReportedKeysStay == Spec => []ReportedKeyIsStored
<1>1. OneAtATime => ReportedKeyIsStored
  BY DEF OneAtATime, ReportedKeyIsStored
<1>2. QED
  BY <1>1, OneAtATimeHolds, PTL

\* The reserved name signs with the identity last made default
\* (resolve_signing_identity and set_default in identity.rs).
THEOREM SentinelSignsForTheChosen == Spec => []SentinelIsTheChosen
<1>1. OneAtATime => SentinelIsTheChosen
  BY DEF OneAtATime, SentinelIsTheChosen
<1>2. QED
  BY <1>1, OneAtATimeHolds, PTL
\* Every step of commands that do not fail leaves an empty file only to its
\* creator, also when they overlap.
LEMMA WritingStep ==
    ASSUME TypeOK, Phase, EmptyIsBeingWritten, [Next]_vars
    PROVE  EmptyIsBeingWritten'
<1>0. setting' = setting
  BY DEF Next, vars
<1> SUFFICES ASSUME ~Faults, NEW n \in Names, file'[n] = Empty
             PROVE  \E p \in Procs : pc'[p] = "write" /\ p \in linked' /\ name'[p] = n
  BY <1>0 DEF EmptyIsBeingWritten, Faults
<1> USE DEF TypeOK, Phase, EmptyIsBeingWritten, Keys, Absent, Empty, dir, run, Goto, End
<1>1. CASE \E p \in Procs : Start(p)
  BY <1>1 DEF Start
<1>2. CASE \E p \in Procs : NewKey(p)
  BY <1>2 DEF NewKey, NameValid, Exists
<1>3. CASE \E p \in Procs : OpenKeyFile(p)
  BY <1>3 DEF OpenKeyFile
<1>4. CASE \E p \in Procs : WriteKey(p)
  BY <1>4 DEF WriteKey
<1>5. CASE \E p \in Procs : RemoveCheck(p)
  BY <1>5 DEF RemoveCheck, Exists
<1>6. CASE \E p \in Procs : RemoveFile(p)
  BY <1>6 DEF RemoveFile, Exists
<1>7. CASE \E p \in Procs : ClearCheck(p)
  BY <1>7 DEF ClearCheck
<1>8. CASE \E p \in Procs : ClearLink(p)
  BY <1>8 DEF ClearLink
<1>9. CASE \E p \in Procs : DefaultCheck(p)
  BY <1>9 DEF DefaultCheck
<1>10. CASE \E p \in Procs : RemoveOldLink(p)
  BY <1>10 DEF RemoveOldLink
<1>11. CASE \E p \in Procs : Symlink(p)
  BY <1>11 DEF Symlink
<1>12. CASE \E p \in Procs : Resolve(p)
  BY <1>12 DEF Resolve
<1>13. CASE \E p \in Procs : Get(p)
  BY <1>13 DEF Get
<1>14. CASE \E p \in Procs : LoadSigningKey(p)
  BY <1>14 DEF LoadSigningKey
<1>15. CASE \E p \in Procs : Fail(p)
  BY <1>15 DEF Fail
<1>16. CASE \E p \in Procs : Exit(p)
  BY <1>16 DEF Exit
<1>17. CASE UNCHANGED vars
  BY <1>17 DEF vars
<1> QED
  BY <1>1, <1>2, <1>3, <1>4, <1>5, <1>6, <1>7, <1>8, <1>9, <1>10, <1>11, <1>12, <1>13, <1>14, <1>15, <1>16, <1>17 DEF Next, Step

LEMMA EmptyIsWritten == Spec => []EmptyIsBeingWritten
<1>1. Init => TypeOK /\ Phase /\ EmptyIsBeingWritten
  BY DEF Init, TypeOK, Phase, Absent, Empty, EmptyIsBeingWritten
<1>2. QED
  BY <1>1, TypeStep, WritingStep, PTL DEF Spec

\* Every step of a user whose commands neither overlap nor fail keeps the link.
LEMMA LinkStep ==
    ASSUME TypeOK, Phase, OneAtATime, EmptyIsBeingWritten, LinkStays, [Next]_vars
    PROVE  LinkStays'
<1>0. setting' = setting
  BY DEF Next, vars
<1> SUFFICES ASSUME Healthy PROVE LinkStays'
  BY <1>0 DEF LinkStays, Healthy, Sequential, Faults, RelativeDir
<1>a. Alone /\ Undisturbed /\ LinkIsChosen /\ LinkStays
  BY DEF OneAtATime, Healthy
<1>b. ~Faults /\ ~RelativeDir
  BY DEF Healthy
<1> USE <1>a, <1>b DEF TypeOK, Phase, EmptyIsBeingWritten, LinkStays, Alone, LinkIsChosen, Exists, Keys, Absent, Empty,
            dir, run, Goto, End
<1>1. CASE \E p \in Procs : Start(p)
  BY <1>1 DEF Start
<1>2. CASE \E p \in Procs : NewKey(p)
  BY <1>2 DEF NewKey, NameValid
<1>3. CASE \E p \in Procs : OpenKeyFile(p)
  BY <1>3 DEF OpenKeyFile
<1>4. CASE \E p \in Procs : WriteKey(p)
  BY <1>4 DEF WriteKey
<1>5. CASE \E p \in Procs : RemoveCheck(p)
  BY <1>5 DEF RemoveCheck
<1>6. CASE \E p \in Procs : RemoveFile(p)
  BY <1>6 DEF RemoveFile
<1>7. CASE \E p \in Procs : ClearCheck(p)
  BY <1>7 DEF ClearCheck, LinkExists
<1>8. CASE \E p \in Procs : ClearLink(p)
  BY <1>8 DEF ClearLink
<1>9. CASE \E p \in Procs : DefaultCheck(p)
  BY <1>9 DEF DefaultCheck
<1>10. CASE \E p \in Procs : RemoveOldLink(p)
  BY <1>10 DEF RemoveOldLink, LinkExists
<1>11. CASE \E p \in Procs : Symlink(p)
  BY <1>11 DEF Symlink
<1>12. CASE \E p \in Procs : Resolve(p)
  BY <1>12 DEF Resolve, LinkExists
<1>13. CASE \E p \in Procs : Get(p)
  BY <1>13 DEF Get, Undisturbed
<1>14. CASE \E p \in Procs : LoadSigningKey(p)
  BY <1>14 DEF LoadSigningKey
<1>15. CASE \E p \in Procs : Fail(p)
  BY <1>15 DEF Fail
<1>16. CASE \E p \in Procs : Exit(p)
  BY <1>16 DEF Exit
<1>17. CASE UNCHANGED vars
  BY <1>17 DEF vars
<1> QED
  BY <1>1, <1>2, <1>3, <1>4, <1>5, <1>6, <1>7, <1>8, <1>9, <1>10, <1>11, <1>12, <1>13, <1>14, <1>15, <1>16, <1>17 DEF Next, Step

LEMMA LinkAlwaysStays == Spec => []LinkStays
<1>1. Init => TypeOK /\ Phase /\ OneAtATime /\ EmptyIsBeingWritten /\ LinkStays
  BY DEF Init, TypeOK, Phase, Absent, Empty, OneAtATime, Alone, Undisturbed, LinkIsChosen,
         ReportedKeyIsStored, SentinelIsTheChosen, Signed, EmptyIsBeingWritten, LinkStays
<1>2. QED
  BY <1>1, TypeStep, AloneStep, WritingStep, LinkStep, PTL DEF Spec

\* The reserved name signs with the chosen identity and is refused only when
\* there is none, and overlapping commands leave no identity without its secret
\* (resolve_signing_identity, set_default, remove and save_key in identity.rs).
THEOREM DefaultStaysHonest == Spec => []DefaultIsHonest
<1>1. LinkStays => NoDefaultMeansNoneSet
  BY DEF LinkStays, Healthy, NoDefaultMeansNoneSet
<1>2. EmptyIsBeingWritten => IdleMeansComplete
  BY DEF EmptyIsBeingWritten, IdleMeansComplete
<1>3. QED
  BY <1>1, <1>2, LinkAlwaysStays, EmptyIsWritten, SentinelSignsForTheChosen, PTL DEF DefaultIsHonest
=============================================================================
