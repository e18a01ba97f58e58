----------------------- MODULE DependencyLockProofs ------------------------
(***************************************************************************)
(* What sdkt.lock promises, for any number of dependencies, processes,     *)
(* commits and builds.                                                     *)
(***************************************************************************)
EXTENDS DependencyLock, TLAPS

\* An object that the remote's reference has named so far.
AtRemote(d, o) == \E n \in 1 .. Available(d) : o = ObjectOf(d, n)

PinsExisted(l) ==
    Readable(l) => \A d \in Git : l.deps[d].sha # Blank => AtRemote(d, l.deps[d].sha)

\* The reference in a checkout is one that the remote had, and that of a version
\* constraint is the one its key says.
CheckoutsExisted ==
    \A k \in Keys : cache[k].state # "absent" =>
        /\ cache[k].ref \in 1 .. Available(k[1])
        /\ Kind[k[1]] = "version" => cache[k].ref = k[2]

\* So is everything that a command has planned, fetched or is about to write.
Provenance ==
    /\ CheckoutsExisted
    /\ \A p \in Procs, d \in Deps : plan[p][d].commit <= remote[d]
    /\ \A p \in Procs, d \in Git :
         fetched[p][d] \in {NoOutcome, Blank} \/ AtRemote(d, fetched[p][d])
    /\ PinsExisted(lock)
    /\ \A p \in Procs : PinsExisted(snapshot[p])

\* The phases of a command.
Phases ==
    \A p \in Procs :
        /\ pc[p] # "idle" => p \in Active
        /\ pc[p] \in {"idle", "planning", "building"} => fetched[p] = NoOutcomes
        /\ pc[p] = "building" => cmd[p] = "generate"
        /\ pc[p] \in {"planning", "fetching"} => cmd[p] # "generate"
        /\ pc[p] \in {"writing", "written"} =>
             /\ Readable(snapshot[p])
             /\ cmd[p] = "generate" => snapshot[p].deps = BlankDeps

\* The lock is the one that the command found.
Untouched(p) ==
    \/ pc[p] \in {"planning", "building", "fetching", "writing"}
    \/ pc[p] = "ended" /\ end[p] \notin {"Ok", "WriteFailed", "Killed"}

\* The pins of l are what the command has fetched.
PinsFetched(p, l) == Readable(l) => \A d \in Git : l.deps[d].sha \in {Blank, fetched[p][d]}

\* Nobody else has filled the file, and a write that was cut short pins nothing new.
WritesOutcomes(p) ==
    /\ pc[p] = "written" => lock = Truncated /\ PinsFetched(p, snapshot[p])
    /\ pc[p] = "ended" /\ end[p] \in {"WriteFailed", "Killed"} =>
         lock = before[p] \/ PinsFetched(p, lock)

KeepsContracts(p) ==
    cmd[p] # "generate" /\ Readable(before[p]) =>
        /\ pc[p] \in {"writing", "written"} => snapshot[p].contracts = before[p].contracts
        /\ Succeeded(p) => lock.contracts = before[p].contracts

\* An object that verify finds as the HEAD of the checkout.
IsHead(d, o) == cache[ManifestKey(d)].state # "absent" /\ cache[ManifestKey(d)].head = o

Agrees(l) ==
    \A d \in Git : Comparable(d) /\ l.deps[d].sha # Blank =>
        /\ IsHead(d, l.deps[d].sha)
        /\ l.deps[d].integrity \in {Blank, l.deps[d].sha}

MatchesCheckouts(p) ==
    /\ pc[p] \in {"fetching", "writing"} =>
         \A d \in Git : Comparable(d) /\ fetched[p][d] \notin {NoOutcome, Blank} =>
             IsHead(d, fetched[p][d])
    /\ pc[p] = "written" /\ cmd[p] # "generate" => Agrees(snapshot[p])
    /\ Succeeded(p) /\ cmd[p] # "generate" => Readable(lock) /\ Agrees(lock)

\* No checkout is behind an object.
NotBehind(d, o) ==
    Kind[d] # "version" /\ cache[ManifestKey(d)].state # "absent" =>
        o <= ObjectOf(d, cache[ManifestKey(d)].ref)

LockNotBehind(l) == Readable(l) => \A d \in Git : NotBehind(d, l.deps[d].sha)

GoesForward(p) ==
    /\ pc[p] \in {"fetching", "writing"} =>
         \A d \in Git : fetched[p][d] # NoOutcome =>
             /\ NotBehind(d, fetched[p][d])
             /\ Readable(before[p]) => before[p].deps[d].sha <= fetched[p][d]
    /\ pc[p] = "fetching" /\ cmd[p] = "update" /\ Readable(before[p]) =>
         \A d \in Git : Kind[d] = "version" => before[p].deps[d].sha <= plan[p][d].commit
    /\ pc[p] = "written" =>
         /\ LockNotBehind(snapshot[p])
         /\ Readable(before[p]) =>
              \A d \in Git : snapshot[p].deps[d].sha = Blank
                             \/ before[p].deps[d].sha <= snapshot[p].deps[d].sha

\* With one command at a time.
Sequential ==
    OneAtATime =>
        /\ LockNotBehind(lock)
        /\ \A p \in Procs : /\ Untouched(p) => lock = before[p]
                            /\ WritesOutcomes(p)
                            /\ KeepsContracts(p)
                            /\ MatchesCheckouts(p)
                            /\ GoesForward(p)

IInv == TypeOK /\ Provenance /\ Phases /\ Sequential
-----------------------------------------------------------------------------
\* The operators of the model

LEMMA KeyType ==
    \A d \in Deps : /\ ManifestKey(d) \in Keys /\ ManifestKey(d)[1] = d
                   /\ \A n \in Commits : Key(d, n) \in Keys /\ Key(d, n)[1] = d
  BY ConstantsAssumption DEF Keys, Key, ManifestKey, Commits

LEMMA TargetType ==
    ASSUME TypeOK, NEW p \in Procs, NEW d \in Deps
    PROVE  Available(d) \in Commits /\ Target(p, d) \in Commits
  BY ConstantsAssumption DEF TypeOK, Available, Target, Commits

LEMMA PulledType ==
    ASSUME TypeOK, NEW p \in Procs, NEW d \in Deps, NEW k \in Keys
    PROVE  Pulled(p, d, cache[k]) \in Commits
  BY TargetType DEF TypeOK, Pulled, Checkouts

LEMMA ObjectType ==
    ASSUME NEW d \in Deps, NEW n \in Commits
    PROVE  ObjectOf(d, n) \in Objects
  BY ConstantsAssumption DEF ObjectOf, Commits, Objects

LEMMA LockType ==
    /\ BlankDeps \in [Deps -> Entries]
    /\ \A c \in 0 .. MaxBuild, ds \in [Deps -> Entries] :
         /\ Lock(c, ds) \in LockFiles /\ Readable(Lock(c, ds))
         /\ Lock(c, ds).contracts = c /\ Lock(c, ds).deps = ds
    /\ \A l \in LockFiles : Readable(l) => l.contracts \in 0 .. MaxBuild
                                          /\ l.deps \in [Deps -> Entries]
    /\ {Missing, Truncated, Torn} \subseteq LockFiles
    /\ ~Readable(Missing) /\ ~Readable(Truncated) /\ ~Readable(Torn)
  BY ConstantsAssumption DEF BlankDeps, BlankEntry, Blank, Entries, Objects, Commits, LockFiles, Lock,
     Readable, Missing, Truncated, Torn

\* What a write that is cut short leaves is a lock with fewer entries.
LEMMA PrefixPins ==
    ASSUME setting \in Settings, NEW l \in LockFiles, Readable(l), NEW m \in Prefixes(l)
    PROVE  /\ m \in LockFiles
           /\ Readable(m) => \A d \in Deps : m.deps[d].sha \in {Blank, l.deps[d].sha}
  <1>1. l.contracts \in 0 .. MaxBuild /\ l.deps \in [Deps -> Entries] /\ BlankDeps \in [Deps -> Entries]
    BY LockType
  <1>2. BlankEntry \in Entries /\ \A e \in Entries : [e EXCEPT !.integrity = Blank] \in Entries
    BY ConstantsAssumption DEF BlankEntry, Entries, Blank, Objects, Commits
  <1>3. CASE m \in {Torn, Lock(0, BlankDeps)}
    <2>1. \A d \in Deps : Lock(0, BlankDeps).deps[d].sha = Blank
      BY DEF Lock, BlankDeps, BlankEntry
    <2> QED BY <1>1, <1>3, <2>1, LockType, ConstantsAssumption
  <1>4. ASSUME NEW whole, NEW cut, m = Part(l, whole, cut)
        PROVE  m \in LockFiles /\ \A d \in Deps : m.deps[d].sha \in {Blank, l.deps[d].sha}
    <2> DEFINE ds == [d \in Deps |-> IF d \in whole THEN l.deps[d]
                          ELSE IF d \in cut THEN [l.deps[d] EXCEPT !.integrity = Blank]
                          ELSE BlankEntry]
    <2>1. ds \in [Deps -> Entries]
      BY <1>1, <1>2
    <2>2. \A d \in Deps : ds[d].sha \in {Blank, l.deps[d].sha}
      BY <1>1 DEF Entries, BlankEntry
    <2>3. m = Lock(l.contracts, ds)
      BY <1>4 DEF Part
    <2> HIDE DEF ds
    <2> QED BY <1>1, <2>1, <2>2, <2>3, LockType
  <1>5. m \in {Torn, Lock(0, BlankDeps)} \/ \E whole, cut : m = Part(l, whole, cut)
    BY DEF Prefixes
  <1> QED BY <1>3, <1>4, <1>5

-----------------------------------------------------------------------------
\* Type correctness

LEMMA TypeInit == Init => TypeOK
  BY ConstantsAssumption DEF Init, TypeOK, Commits, Checkouts, NoCheckout, LockFiles, NoPlan,
     NoOutcomes, NoOutcome

LEMMA TypeCommand ==
    ASSUME TypeOK, NEW p \in Procs,
           Start(p) \/ PlanUpdates(p) \/ Exit(p), UNCHANGED setting
    PROVE  TypeOK'
  <1>1. CASE Start(p)
    BY <1>1, ConstantsAssumption DEF TypeOK, Start, Goto, Declared
  <1>2. CASE PlanUpdates(p)
    <2>1. \A d \in Deps, u \in SUBSET Deps : PlanOf(d, u) \in
            [status : {"none", "Unchanged", "Pinned", "Constraint", "Updated", "Error"},
             commit : Commits]
      BY ConstantsAssumption DEF TypeOK, PlanOf, StatusOf, NoPlan, Commits
    <2>2. Git \subseteq Deps /\ Declared \subseteq Deps
      BY ConstantsAssumption DEF TypeOK, Git, Declared
    <2>3. CASE Readable(lock)
      <3>1. PICK u \in SUBSET {d \in Git : Kind[d] # "rev"} :
              plan' = [plan EXCEPT ![p] = [d \in Deps |-> PlanOf(d, u)]]
        BY <1>2, <2>3 DEF PlanUpdates
      <3>2. [d \in Deps |-> PlanOf(d, u)] \in
              [Deps -> [status : {"none", "Unchanged", "Pinned", "Constraint", "Updated", "Error"},
                        commit : Commits]]
        BY <2>1, <2>2
      <3>3. PICK t \in SUBSET Deps : todo' = [todo EXCEPT ![p] = t]
        BY <1>2, <2>2, <2>3 DEF PlanUpdates
      <3>4. /\ Goto(p, "fetching") /\ UNCHANGED end
            /\ UNCHANGED <<remote, cache, lock, build, cmd, fetched, snapshot, before>>
        BY <1>2, <2>3 DEF PlanUpdates
      <3> QED BY <3>1, <3>2, <3>3, <3>4 DEF TypeOK, Goto
    <2>4. CASE ~Readable(lock)
      BY <1>2, <2>4 DEF TypeOK, PlanUpdates, Goto, End
    <2> QED BY <2>3, <2>4
  <1>3. CASE Exit(p)
    BY <1>3, ConstantsAssumption DEF TypeOK, Exit, Goto, NoPlan, NoOutcomes, LockFiles, Commits
  <1> QED BY <1>1, <1>2, <1>3

LEMMA TypeFetch ==
    ASSUME TypeOK, NEW p \in Procs, NEW d \in Deps, UNCHANGED setting,
           FetchPath(p, d) \/ FetchReuses(p, d) \/ FetchGit(p, d)
             \/ FetchFails(p, d) \/ FetchHalfway(p, d)
    PROVE  TypeOK'
  <1>1. CASE FetchPath(p, d)
    BY <1>1, ConstantsAssumption DEF TypeOK, FetchPath, Record, Objects, Blank
  <1>2. CASE FetchReuses(p, d)
    <2>1. Key(d, Target(p, d)) \in Keys
      BY KeyType, TargetType
    <2>2. PICK head : head = cache[Key(d, Target(p, d))].head
      OBVIOUS
    <2>3. head \in Objects
      BY <2>1, <2>2, ConstantsAssumption DEF TypeOK, Objects, Checkouts, Commits
    <2>4. /\ Record(p, d, head)
          /\ UNCHANGED <<remote, cache, lock, build, cmd, plan, snapshot, before>>
      BY <1>2, <2>2 DEF FetchReuses
    <2> QED BY <2>3, <2>4 DEF TypeOK, Record
  <1>3. CASE FetchGit(p, d)
    BY <1>3, KeyType, TargetType, PulledType, ObjectType DEF TypeOK, FetchGit, Record, Checkouts
  <1>4. CASE FetchFails(p, d)
    BY <1>4 DEF TypeOK, FetchFails, End, Goto
  <1>5. CASE FetchHalfway(p, d)
    <2> DEFINE k == Key(d, Target(p, d))
               n == Pulled(p, d, cache[k])
    <2>1. k \in Keys /\ n \in Commits
      BY KeyType, TargetType, PulledType
    <2>2. PICK h \in IF cache[k].state = "absent" THEN {0, n} ELSE {cache[k].head} :
            cache' = [cache EXCEPT ![k] =
                        [ref |-> n, head |-> h,
                         state |-> IF cache[k].state = "absent" THEN "cloned" ELSE cache[k].state]]
      BY <1>5 DEF FetchHalfway
    <2> HIDE DEF k, n
    <2>3. h \in Commits
      BY <2>1, <2>2, ConstantsAssumption DEF TypeOK, Checkouts, Commits
    <2>4. cache' \in [Keys -> Checkouts]
      BY <2>1, <2>2, <2>3 DEF TypeOK, Checkouts
    <2> QED BY <1>5, <2>4 DEF TypeOK, FetchHalfway, End, Goto
  <1> QED BY <1>1, <1>2, <1>3, <1>4, <1>5

LEMMA TypeWrite ==
    ASSUME TypeOK, NEW p \in Procs, UNCHANGED setting,
           ReadLock(p) \/ GenerateLock(p) \/ Truncate(p) \/ WriteLock(p) \/ WriteFails(p),
           pc[p] \in {"writing", "written"} => Readable(snapshot[p])
    PROVE  TypeOK'
  <1>1. CASE ReadLock(p)
    <2>1. PICK s \in LockFiles :
            \/ snapshot' = [snapshot EXCEPT ![p] = s] /\ Goto(p, "writing") /\ UNCHANGED end
            \/ UNCHANGED snapshot /\ End(p, "MissingLock")
      <3>1. (IF Readable(lock) THEN lock ELSE Lock(0, BlankDeps)) \in LockFiles
        BY LockType, ConstantsAssumption DEF TypeOK
      <3> QED BY <1>1, <3>1 DEF ReadLock
    <2>2. UNCHANGED <<remote, cache, lock, build, cmd, plan, todo, fetched, before>>
      BY <1>1 DEF ReadLock
    <2>3. CASE snapshot' = [snapshot EXCEPT ![p] = s] /\ Goto(p, "writing") /\ UNCHANGED end
      BY <2>2, <2>3 DEF TypeOK, Goto
    <2>4. CASE UNCHANGED snapshot /\ End(p, "MissingLock")
      BY <2>2, <2>4 DEF TypeOK, Goto, End
    <2> QED BY <2>1, <2>3, <2>4
  <1>2. CASE GenerateLock(p)
    <2>1. build' \in 0 .. MaxBuild
      BY <1>2, ConstantsAssumption DEF TypeOK, GenerateLock
    <2>2. Lock(build', BlankDeps) \in LockFiles
      BY <2>1, LockType
    <2>3. \/ /\ snapshot' = [snapshot EXCEPT ![p] = Lock(build', BlankDeps)]
             /\ Goto(p, "writing") /\ UNCHANGED end
          \/ UNCHANGED snapshot /\ End(p, "ArtifactNotFound")
      BY <1>2 DEF GenerateLock
    <2>4. UNCHANGED <<remote, cache, lock, cmd, plan, todo, fetched, before>>
      BY <1>2 DEF GenerateLock
    <2>5. CASE /\ snapshot' = [snapshot EXCEPT ![p] = Lock(build', BlankDeps)]
               /\ Goto(p, "writing") /\ UNCHANGED end
      BY <2>1, <2>2, <2>4, <2>5 DEF TypeOK, Goto
    <2>6. CASE UNCHANGED snapshot /\ End(p, "ArtifactNotFound")
      BY <2>1, <2>4, <2>6 DEF TypeOK, Goto, End
    <2> QED BY <2>3, <2>5, <2>6
  <1>3. CASE Truncate(p)
    <2>1. \A d \in Deps : ResolvedEntry(p, d) \in Entries
      BY ConstantsAssumption, KeyType
         DEF TypeOK, ResolvedEntry, Integrity, Entries, BlankEntry, Blank, Objects, Commits, Checkouts,
             Git
    <2>2. NewLock(p) \in LockFiles
      BY <1>3, <2>1, LockType DEF TypeOK, Truncate, NewLock
    <2> QED BY <1>3, <2>2, LockType DEF TypeOK, Truncate, Goto
  <1>4. CASE WriteLock(p)
    BY <1>4, LockType DEF TypeOK, WriteLock, Goto, End
  <1>5. CASE WriteFails(p)
    <2>1. lock' \in LockFiles
      BY <1>5, PrefixPins DEF TypeOK, WriteFails
    <2> QED BY <1>5, <2>1 DEF TypeOK, WriteFails, Goto, End
  <1> QED BY <1>1, <1>2, <1>3, <1>4, <1>5

LEMMA TypeOutside ==
    ASSUME TypeOK, UNCHANGED setting,
           UNCHANGED vars \/ DropCache \/ \E d \in Deps : Push(d)
    PROVE  TypeOK'
  <1>1. CASE UNCHANGED vars
    BY <1>1 DEF TypeOK, vars, work, procVars
  <1>2. CASE DropCache
    BY <1>2, ConstantsAssumption
       DEF TypeOK, DropCache, procVars, Checkouts, NoCheckout, Commits
  <1>3. ASSUME NEW d \in Deps, Push(d) PROVE TypeOK'
    BY <1>3, ConstantsAssumption DEF TypeOK, Push, procVars, Commits
  <1> QED BY <1>1, <1>2, <1>3
-----------------------------------------------------------------------------
\* The phases of a command

LEMMA PhasesInit == Init => Phases
  BY LockType DEF Init, Phases

LEMMA PhasesCommand ==
    ASSUME TypeOK, Phases, NEW p \in Procs, UNCHANGED setting,
           Start(p) \/ PlanUpdates(p) \/ Exit(p)
    PROVE  Phases'
  <1> USE DEF Active, Faults, Goto, End
  <1>1. CASE Start(p)
    BY <1>1, ConstantsAssumption DEF TypeOK, Phases, Start
  <1>2. CASE PlanUpdates(p)
    <2>1. /\ pc[p] = "planning" /\ pc' \in {[pc EXCEPT ![p] = "ended"], [pc EXCEPT ![p] = "fetching"]}
          /\ UNCHANGED <<lock, cmd, fetched, snapshot>>
      BY <1>2 DEF PlanUpdates
    <2> QED BY <2>1 DEF TypeOK, Phases
  <1>3. CASE Exit(p)
    BY <1>3 DEF TypeOK, Phases, Exit
  <1> QED BY <1>1, <1>2, <1>3

LEMMA PhasesFetch ==
    ASSUME TypeOK, Phases, NEW p \in Procs, NEW d \in Deps, UNCHANGED setting,
           FetchPath(p, d) \/ FetchReuses(p, d) \/ FetchGit(p, d)
             \/ FetchFails(p, d) \/ FetchHalfway(p, d)
    PROVE  Phases'
  <1>1. /\ pc[p] = "fetching" /\ UNCHANGED <<lock, cmd, snapshot>>
        /\ \/ pc' = [pc EXCEPT ![p] = "ended"] /\ UNCHANGED fetched
           \/ UNCHANGED pc /\ \E o : fetched' = [fetched EXCEPT ![p][d] = o]
    BY DEF FetchPath, FetchReuses, FetchGit, FetchFails, FetchHalfway, Fetches, Record, Goto, End
  <1> QED BY <1>1 DEF TypeOK, Phases, Active, Faults

LEMMA PhasesWrite ==
    ASSUME TypeOK, Phases, NEW p \in Procs, UNCHANGED setting,
           ReadLock(p) \/ GenerateLock(p) \/ Truncate(p) \/ WriteLock(p) \/ WriteFails(p)
    PROVE  Phases'
  <1> USE DEF Active, Faults
  <1>1. CASE ReadLock(p)
    <2>1. /\ pc[p] = "fetching" /\ UNCHANGED <<lock, cmd, fetched>>
          /\ \/ /\ pc' = [pc EXCEPT ![p] = "writing"]
                /\ \E l : Readable(l) /\ snapshot' = [snapshot EXCEPT ![p] = l]
             \/ pc' = [pc EXCEPT ![p] = "ended"] /\ UNCHANGED snapshot
      <3>1. Readable(IF Readable(lock) THEN lock ELSE Lock(0, BlankDeps))
        BY LockType, ConstantsAssumption
      <3> QED BY <1>1, <3>1 DEF ReadLock, Goto, End
    <2>2. p \in Active /\ cmd[p] # "generate" /\ DOMAIN pc = Procs /\ DOMAIN snapshot = Procs
      BY <2>1 DEF TypeOK, Phases
    <2>3. ASSUME NEW q \in Procs, q # p
          PROVE  pc'[q] = pc[q] /\ snapshot'[q] = snapshot[q] /\ cmd'[q] = cmd[q] /\ fetched'[q] = fetched[q]
      BY <2>1, <2>2, <2>3
    <2>4. /\ pc'[p] \in {"writing", "ended"} /\ cmd'[p] # "generate"
          /\ pc'[p] = "writing" => Readable(snapshot'[p])
      BY <2>1, <2>2
    <2> QED BY <2>2, <2>3, <2>4 DEF Phases
  <1>2. CASE GenerateLock(p)
    <2>1. /\ pc[p] = "building" /\ UNCHANGED <<lock, cmd, fetched>>
          /\ \/ /\ pc' = [pc EXCEPT ![p] = "writing"]
                /\ snapshot' = [snapshot EXCEPT ![p] = Lock(build', BlankDeps)]
             \/ pc' = [pc EXCEPT ![p] = "ended"] /\ UNCHANGED snapshot
      BY <1>2 DEF GenerateLock, Goto, End
    <2>2. Readable(Lock(build', BlankDeps)) /\ Lock(build', BlankDeps).deps = BlankDeps
      BY DEF Readable, Lock
    <2>3. p \in Active /\ DOMAIN pc = Procs /\ DOMAIN snapshot = Procs
      BY <2>1 DEF TypeOK, Phases
    <2>4. ASSUME NEW q \in Procs, q # p
          PROVE  pc'[q] = pc[q] /\ snapshot'[q] = snapshot[q] /\ cmd'[q] = cmd[q] /\ fetched'[q] = fetched[q]
      BY <2>1, <2>3, <2>4
    <2>5. /\ pc'[p] \in {"writing", "ended"}
          /\ pc'[p] = "writing" => Readable(snapshot'[p]) /\ snapshot'[p].deps = BlankDeps
      BY <2>1, <2>2, <2>3
    <2> QED BY <2>3, <2>4, <2>5 DEF Phases
  <1>3. CASE Truncate(p)
    <2>1. /\ Readable(NewLock(p))
          /\ cmd[p] = "generate" => NewLock(p).deps = BlankDeps
      BY <1>3 DEF Phases, Truncate, NewLock, Readable, Lock
    <2> QED BY <1>3, <2>1 DEF TypeOK, Phases, Truncate, Goto
  <1>4. CASE WriteLock(p)
    BY <1>4, LockType DEF TypeOK, Phases, WriteLock, Goto, End
  <1>5. CASE WriteFails(p)
    BY <1>5 DEF TypeOK, Phases, WriteFails, Goto, End
  <1> QED BY <1>1, <1>2, <1>3, <1>4, <1>5

LEMMA PhasesOutside ==
    ASSUME TypeOK, Phases, UNCHANGED setting,
           UNCHANGED vars \/ DropCache \/ \E d \in Deps : Push(d)
    PROVE  Phases'
  BY DEF Phases, Active, Faults, vars, work, procVars, DropCache, Push

-----------------------------------------------------------------------------
\* Whatever is recorded was once at the remote

LEMMA TargetExisted ==
    ASSUME TypeOK, Provenance, NEW p \in Procs, NEW d \in Deps, ~Unresolved(p, d)
    PROVE  Target(p, d) \in 1 .. Available(d)
  BY TargetType DEF TypeOK, Provenance, Unresolved, Target, Available, Commits

LEMMA PulledExisted ==
    ASSUME TypeOK, Provenance, NEW p \in Procs, NEW d \in Deps, ~Unresolved(p, d),
           NEW k, k = Key(d, Target(p, d))
    PROVE  /\ Pulled(p, d, cache[k]) \in 1 .. Available(d)
           /\ Kind[d] = "version" => Pulled(p, d, cache[k]) = k[2]
  <1>1. k \in Keys /\ k[1] = d /\ (Kind[d] = "version" => k[2] = Target(p, d))
    BY KeyType, TargetType DEF Key
  <1> QED BY <1>1, TargetExisted DEF Provenance, CheckoutsExisted, Pulled

LEMMA ReusedExisted ==
    ASSUME TypeOK, Provenance, NEW p \in Procs, NEW d \in Deps, Reusable(p, d),
           NEW k, k = Key(d, Target(p, d))
    PROVE  \E n \in 1 .. Available(d) : cache[k].head = ObjectOf(d, n)
                                       /\ (Kind[d] # "rev" => n = cache[k].ref)
  <1>1. k \in Keys /\ k[1] = d
    BY KeyType, TargetType
  <1>2. CASE Kind[d] = "rev"
    BY <1>1, <1>2 DEF Reusable, Available
  <1>3. CASE Kind[d] # "rev"
    BY <1>1, <1>3 DEF Provenance, CheckoutsExisted, Reusable
  <1> QED BY <1>2, <1>3

LEMMA ProvenanceInit == Init => Provenance
  <1> SUFFICES ASSUME Init PROVE Provenance
    OBVIOUS
  <1>1. CheckoutsExisted
    BY DEF Init, CheckoutsExisted, NoCheckout
  <1>2. ASSUME NEW p \in Procs, NEW d \in Deps PROVE plan[p][d].commit <= remote[d]
    <2>1. plan[p] = NoPlan /\ remote[d] \in {0, 1}
      BY DEF Init
    <2> QED BY <2>1 DEF NoPlan
  <1>3. ASSUME NEW p \in Procs, NEW d \in Git PROVE fetched[p][d] = NoOutcome
    <2>1. fetched[p] = NoOutcomes /\ d \in Deps
      BY ConstantsAssumption DEF Init, Git, Declared
    <2> QED BY <2>1 DEF NoOutcomes
  <1>4. PinsExisted(Missing)
    BY LockType DEF PinsExisted
  <1>5. lock = Missing /\ \A p \in Procs : snapshot[p] = Missing
    BY DEF Init
  <1> QED BY <1>1, <1>2, <1>3, <1>4, <1>5 DEF Provenance

\* Nothing that Provenance speaks of changes.
LEMMA ProvenanceQuiet ==
    ASSUME Provenance, UNCHANGED <<setting, remote, cache, lock, plan, fetched, snapshot>>
    PROVE  Provenance'
  BY DEF Provenance, CheckoutsExisted, PinsExisted, AtRemote, Available, Git, Declared

LEMMA ProvenanceCommand ==
    ASSUME TypeOK, Provenance, NEW p \in Procs, UNCHANGED setting,
           Start(p) \/ PlanUpdates(p) \/ Exit(p)
    PROVE  Provenance'
  <1> USE DEF AtRemote, Available, Git, Declared
  <1>1. CASE Start(p)
    BY <1>1, ProvenanceQuiet DEF Start
  <1>2. CASE PlanUpdates(p)
    <2>1. CASE ~Readable(lock)
      BY <1>2, <2>1, ProvenanceQuiet DEF PlanUpdates
    <2>2. CASE Readable(lock)
      <3>1. PICK u : plan' = [plan EXCEPT ![p] = [d \in Deps |-> PlanOf(d, u)]]
        BY <1>2, <2>2 DEF PlanUpdates
      <3>2. \A d \in Deps : PlanOf(d, u).commit <= remote[d]
        BY ConstantsAssumption DEF TypeOK, PlanOf, NoPlan, Commits
      <3>3. UNCHANGED <<remote, cache, lock, fetched, snapshot>>
        BY <1>2, <2>2 DEF PlanUpdates
      <3>4. \A q \in Procs, d \in Deps : plan'[q][d].commit <= remote[d]
        BY <3>1, <3>2 DEF TypeOK, Provenance
      <3> QED BY <3>3, <3>4 DEF Provenance, CheckoutsExisted, PinsExisted
    <2> QED BY <2>1, <2>2
  <1>3. CASE Exit(p)
    <2>1. \A q \in Procs, d \in Deps : plan'[q][d].commit <= remote[d]
      BY <1>3, ConstantsAssumption DEF TypeOK, Provenance, Exit, NoPlan, Commits
    <2>2. \A q \in Procs, d \in Git :
            fetched'[q][d] = NoOutcome \/ fetched'[q][d] = fetched[q][d]
      BY <1>3, ConstantsAssumption DEF TypeOK, Exit, NoOutcomes
    <2>3. \A q \in Procs : snapshot'[q] = Missing \/ snapshot'[q] = snapshot[q]
      BY <1>3 DEF TypeOK, Exit
    <2>4. UNCHANGED <<remote, cache, lock>>
      BY <1>3 DEF Exit
    <2> QED BY <2>1, <2>2, <2>3, <2>4, LockType DEF Provenance, CheckoutsExisted, PinsExisted
  <1> QED BY <1>1, <1>2, <1>3

LEMMA ProvenanceFetch ==
    ASSUME TypeOK, Provenance, NEW p \in Procs, NEW d \in Deps, UNCHANGED setting,
           FetchPath(p, d) \/ FetchReuses(p, d) \/ FetchGit(p, d)
             \/ FetchFails(p, d) \/ FetchHalfway(p, d)
    PROVE  Provenance'
  <1> DEFINE k == Key(d, Target(p, d))
             n == Pulled(p, d, cache[k])
  <1>1. k \in Keys /\ k[1] = d
    BY KeyType, TargetType
  \* A step that records an object that was at the remote.
  <1>2. ASSUME NEW o, o = Blank \/ AtRemote(d, o), Record(p, d, o),
               UNCHANGED <<remote, lock, plan, snapshot>>, CheckoutsExisted'
        PROVE  Provenance'
    <2>1. \A q \in Procs, e \in Deps :
            fetched'[q][e] = fetched[q][e] \/ (e = d /\ fetched'[q][e] = o)
      BY <1>2 DEF TypeOK, Record
    <2>2. Git \subseteq Deps
      BY ConstantsAssumption DEF TypeOK, Git, Declared
    <2>3. \A q \in Procs, e \in Git :
            fetched'[q][e] \in {NoOutcome, Blank} \/ AtRemote(e, fetched'[q][e])
      BY <1>2, <2>1, <2>2 DEF Provenance
    <2> QED BY <1>2, <2>3 DEF Provenance, PinsExisted, AtRemote, Available, Git, Declared
  \* A step that moves the checkout to a commit that was at the remote.
  <1>3. ASSUME ~Unresolved(p, d), NEW h, NEW st,
               cache' = [cache EXCEPT ![k] = [ref |-> n, head |-> h, state |-> st]],
               UNCHANGED remote
        PROVE  CheckoutsExisted'
    <2>1. n \in 1 .. Available(d) /\ (Kind[d] = "version" => n = k[2])
      BY <1>3, PulledExisted
    <2> HIDE DEF k, n
    <2>2. cache'[k].ref = n /\ \A j \in Keys : j # k => cache'[j] = cache[j]
      BY <1>1, <1>3 DEF TypeOK
    <2> QED BY <1>1, <1>3, <2>1, <2>2 DEF Provenance, CheckoutsExisted, Available
  <1>4. CASE FetchPath(p, d)
    BY <1>2, <1>4 DEF FetchPath, Provenance, CheckoutsExisted, Available
  <1>5. CASE FetchReuses(p, d)
    <2>1. AtRemote(d, cache[k].head)
      BY <1>5, ReusedExisted DEF FetchReuses, AtRemote
    <2> QED BY <1>2, <1>5, <2>1 DEF FetchReuses, Provenance, CheckoutsExisted, Available
  <1>6. CASE FetchGit(p, d)
    <2>1. AtRemote(d, ObjectOf(d, n))
      BY <1>6, PulledExisted DEF FetchGit, AtRemote
    <2>2. CheckoutsExisted'
      BY <1>3, <1>6 DEF FetchGit
    <2> QED BY <1>2, <1>6, <2>1, <2>2 DEF FetchGit
  <1>7. CASE FetchFails(p, d)
    BY <1>7, ProvenanceQuiet DEF FetchFails
  <1>8. CASE FetchHalfway(p, d)
    <2>1. CheckoutsExisted'
      BY <1>3, <1>8 DEF FetchHalfway
    <2> QED BY <1>8, <2>1 DEF FetchHalfway, Provenance, PinsExisted, AtRemote, Available, Git, Declared
  <1> QED BY <1>4, <1>5, <1>6, <1>7, <1>8

LEMMA ProvenanceWrite ==
    ASSUME TypeOK, Provenance, Phases, NEW p \in Procs, UNCHANGED setting,
           ReadLock(p) \/ GenerateLock(p) \/ Truncate(p) \/ WriteLock(p) \/ WriteFails(p)
    PROVE  Provenance'
  <1> USE DEF AtRemote, Available, Git, Declared
  <1>1. ASSUME NEW l, PinsExisted(l), snapshot' = [snapshot EXCEPT ![p] = l],
               lock' \in {lock, Truncated}, UNCHANGED <<remote, cache, plan, fetched>>
        PROVE  Provenance'
    <2>1. \A q \in Procs : snapshot'[q] \in {l, snapshot[q]}
      BY <1>1 DEF TypeOK
    <2> QED BY <1>1, <2>1, LockType DEF Provenance, CheckoutsExisted, PinsExisted
  <1>2. \A c : PinsExisted(Lock(c, BlankDeps))
    BY ConstantsAssumption DEF TypeOK, PinsExisted, Lock, BlankDeps, BlankEntry
  <1>3. CASE ReadLock(p)
    BY <1>1, <1>2, <1>3, ProvenanceQuiet DEF ReadLock, Provenance
  <1>4. CASE GenerateLock(p)
    BY <1>1, <1>2, <1>4, ProvenanceQuiet DEF GenerateLock
  <1>5. CASE Truncate(p)
    <2>1. \A d \in Git : ResolvedEntry(p, d).sha # Blank => AtRemote(d, ResolvedEntry(p, d).sha)
      BY DEF Provenance, ResolvedEntry, BlankEntry
    <2>2. PinsExisted(NewLock(p))
      <3>1. Git \subseteq Deps
        BY ConstantsAssumption DEF TypeOK
      <3>2. CASE cmd[p] = "generate"
        BY <3>2 DEF Provenance, NewLock
      <3>3. CASE cmd[p] # "generate"
        <4>1. NewLock(p).deps = [d \in Deps |-> ResolvedEntry(p, d)]
          BY <3>3 DEF NewLock, Lock
        <4> QED BY <2>1, <3>1, <4>1 DEF PinsExisted
      <3> QED BY <3>2, <3>3
    <2> QED BY <1>1, <1>5, <2>2 DEF Truncate
  <1>6. CASE WriteLock(p)
    BY <1>6, LockType DEF WriteLock, Provenance, CheckoutsExisted, PinsExisted
  <1>7. CASE WriteFails(p)
    <2>1. lock' = lock \/ (Readable(snapshot[p]) /\ lock' \in Prefixes(snapshot[p]))
      BY <1>7 DEF Phases, WriteFails
    <2>2. PinsExisted(lock')
      <3>1. CASE lock' = lock
        BY <3>1 DEF Provenance
      <3>2. CASE Readable(snapshot[p]) /\ lock' \in Prefixes(snapshot[p])
        <4>1. Readable(lock') => \A d \in Deps : lock'.deps[d].sha \in {Blank, snapshot[p].deps[d].sha}
          BY <3>2, PrefixPins DEF TypeOK
        <4>2. Git \subseteq Deps
          BY ConstantsAssumption DEF TypeOK
        <4> QED BY <3>2, <4>1, <4>2 DEF Provenance, PinsExisted
      <3> QED BY <2>1, <3>1, <3>2
    <2> QED BY <1>7, <2>2 DEF WriteFails, Provenance, CheckoutsExisted, PinsExisted
  <1> QED BY <1>3, <1>4, <1>5, <1>6, <1>7

LEMMA ProvenanceOutside ==
    ASSUME TypeOK, Provenance, UNCHANGED setting,
           UNCHANGED vars \/ DropCache \/ \E d \in Deps : Push(d)
    PROVE  Provenance'
  <1>1. CASE UNCHANGED vars
    BY <1>1, ProvenanceQuiet DEF vars, work, procVars
  <1>2. CASE DropCache
    BY <1>2 DEF DropCache, procVars, Provenance, CheckoutsExisted, NoCheckout, PinsExisted, AtRemote,
       Available, Git, Declared
  <1>3. ASSUME NEW d \in Deps, Push(d) PROVE Provenance'
    <2>1. Git \subseteq Deps /\ Git' = Git
      BY ConstantsAssumption DEF TypeOK, Git, Declared
    <2>2. \A e \in Deps : remote[e] \in Nat /\ remote'[e] \in Nat /\ remote[e] <= remote'[e]
      BY <1>3, ConstantsAssumption DEF TypeOK, Push, Commits
    <2>3. \A e \in Deps : 1 .. Available(e) \subseteq 1 .. Available(e)'
      BY <2>2 DEF Available
    <2>4. UNCHANGED <<cache, lock, plan, fetched, snapshot>>
      BY <1>3 DEF Push, procVars
    <2>5. CheckoutsExisted'
      BY <2>3, <2>4 DEF Provenance, CheckoutsExisted, Keys
    <2>6. \A q \in Procs, e \in Deps : plan'[q][e].commit <= remote'[e]
      BY <2>2, <2>4 DEF TypeOK, Provenance, Commits
    <2> QED BY <2>1, <2>3, <2>4, <2>5, <2>6 DEF Provenance, PinsExisted, AtRemote
  <1> QED BY <1>1, <1>2, <1>3
-----------------------------------------------------------------------------
\* One command at a time

LEMMA GitAreDeps == TypeOK => Git \subseteq Deps
  BY ConstantsAssumption DEF TypeOK, Git, Declared

LEMMA SequentialInit == Init => Sequential
  BY LockType DEF Init, Sequential, LockNotBehind, Untouched, WritesOutcomes, KeepsContracts, MatchesCheckouts,
     GoesForward, Succeeded

\* Only the process that takes the step has to be looked at: the others are idle.
LEMMA OnlyTheActor ==
    ASSUME TypeOK, Phases, UNCHANGED setting, NEW p \in Procs, p \in Active,
           \A q \in Procs \ {p} : pc'[q] = pc[q],
           OneAtATime => /\ LockNotBehind(lock)'
                         /\ Untouched(p)' => lock' = before'[p]
                         /\ WritesOutcomes(p)'
                         /\ KeepsContracts(p)'
                         /\ MatchesCheckouts(p)'
                         /\ GoesForward(p)'
    PROVE  Sequential'
  <1>1. SUFFICES ASSUME OneAtATime'
                 PROVE  Sequential'
    BY DEF Sequential
  <1>2. OneAtATime
    BY <1>1 DEF OneAtATime, Active
  <1>3. ASSUME NEW q \in Procs, q # p
        PROVE  /\ ~Untouched(q)' /\ WritesOutcomes(q)' /\ KeepsContracts(q)'
               /\ MatchesCheckouts(q)' /\ GoesForward(q)'
    <2>1. pc'[q] = "idle"
      BY <1>2, <1>3 DEF Phases, OneAtATime
    <2> QED BY <2>1 DEF Untouched, WritesOutcomes, KeepsContracts, MatchesCheckouts, GoesForward, Succeeded
  <1> QED BY <1>2, <1>3 DEF Sequential

\* A lock is never ahead of what the remote has now.
LEMMA LockedIsAtMostAvailable ==
    ASSUME TypeOK, NEW l \in LockFiles, PinsExisted(l), Readable(l), NEW d \in Git
    PROVE  l.deps[d].sha <= ObjectOf(d, Available(d))
  <1>1. d \in Deps /\ Available(d) \in Nat /\ l.deps[d].sha \in Nat
    BY GitAreDeps, LockType, ConstantsAssumption
       DEF TypeOK, Available, Commits, Entries, Objects
  <1>2. CASE l.deps[d].sha = Blank
    BY <1>1, <1>2, ConstantsAssumption DEF Blank, ObjectOf
  <1>3. CASE l.deps[d].sha # Blank
    <2>1. PICK n \in 1 .. Available(d) : l.deps[d].sha = ObjectOf(d, n)
      BY <1>3 DEF PinsExisted, AtRemote
    <2> QED BY <1>1, <2>1, ConstantsAssumption DEF ObjectOf
  <1> QED BY <1>2, <1>3

\* Git never moves a checkout behind the lock, nor behind its own reference.
LEMMA PulledIsForward ==
    ASSUME TypeOK, Provenance, Phases, Sequential, OneAtATime, NEW p \in Procs, NEW d \in Git,
           pc[p] = "fetching", ~Unresolved(p, d), NEW k, k = Key(d, Target(p, d))
    PROVE  /\ Readable(lock) => lock.deps[d].sha <= ObjectOf(d, Pulled(p, d, cache[k]))
           /\ Kind[d] # "version" /\ cache[k].state # "absent" => cache[k].ref <= Pulled(p, d, cache[k])
  <1> DEFINE n == Pulled(p, d, cache[k])
  <1>1. d \in Deps /\ k \in Keys /\ k[1] = d /\ (Kind[d] # "version" => k = ManifestKey(d))
    BY GitAreDeps, KeyType, TargetType DEF Key
  <1>2. n \in 1 .. Available(d)
    BY <1>1, PulledExisted
  <1>3. Available(d) \in Nat /\ cache[k].ref \in Nat
    BY <1>1, ConstantsAssumption DEF TypeOK, Available, Commits, Checkouts
  <1>4. lock = before[p]
    BY DEF Sequential, Untouched
  <1>5. CASE Kind[d] = "version"
    <2>1. n = k[2] /\ k[2] = Target(p, d)
      BY <1>1, <1>5, PulledExisted DEF Key
    <2>2. CASE cmd[p] = "update"
      <3>1. Readable(lock) => lock.deps[d].sha <= plan[p][d].commit
        BY <1>4, <1>5, <2>2 DEF Sequential, GoesForward
      <3> QED BY <1>5, <2>1, <2>2, <3>1 DEF Target, ObjectOf
    <2>3. CASE cmd[p] # "update"
      <3>1. n = Available(d)
        BY <2>1, <2>3 DEF Target
      <3> QED BY <1>5, <3>1, LockedIsAtMostAvailable DEF TypeOK, Provenance
    <2> QED BY <2>2, <2>3
  <1>6. CASE Kind[d] # "version"
    <2>1. n = Available(d) \/ (cache[k].state # "absent" /\ n = cache[k].ref)
      BY <1>6 DEF Pulled, Target
    <2>2. CASE n = Available(d)
      <3>1. Readable(lock) => lock.deps[d].sha <= ObjectOf(d, n)
        BY <2>2, LockedIsAtMostAvailable DEF TypeOK, Provenance
      <3>2. cache[k].state # "absent" => cache[k].ref <= n
        BY <1>1, <1>3, <2>2 DEF Provenance, CheckoutsExisted
      <3> QED BY <3>1, <3>2
    <2>3. CASE cache[k].state # "absent" /\ n = cache[k].ref
      <3>1. Readable(lock) => NotBehind(d, lock.deps[d].sha)
        BY DEF Sequential, LockNotBehind
      <3> QED BY <1>1, <1>3, <1>6, <2>3, <3>1 DEF NotBehind
    <2> QED BY <2>1, <2>2, <2>3
  <1> QED BY <1>5, <1>6
LEMMA SequentialCommand ==
    ASSUME TypeOK, Provenance, Phases, Sequential, NEW p \in Procs, UNCHANGED setting,
           Start(p) \/ PlanUpdates(p) \/ Exit(p)
    PROVE  Sequential'
  <1>1. p \in Active /\ \A q \in Procs \ {p} : pc'[q] = pc[q]
    BY DEF TypeOK, Phases, Start, PlanUpdates, Exit, Goto, End
  <1>2. UNCHANGED <<lock, cache>>
    BY DEF Start, PlanUpdates, Exit
  <1>3. OneAtATime => LockNotBehind(lock)'
    BY <1>2 DEF Sequential, LockNotBehind, NotBehind, Git, Declared
  <1>4. CASE Start(p)
    <2>1. /\ pc'[p] \in {"planning", "building", "fetching"} /\ before'[p] = lock
          /\ pc'[p] = "fetching" => cmd'[p] # "update"
          /\ fetched' = fetched /\ fetched[p] = NoOutcomes
      BY <1>4 DEF TypeOK, Phases, Start, Goto
    <2>2. \A d \in Git : fetched'[p][d] = NoOutcome
      BY <2>1, GitAreDeps DEF NoOutcomes
    <2> QED BY <1>1, <1>2, <1>3, <2>1, <2>2, OnlyTheActor
            DEF Untouched, WritesOutcomes, KeepsContracts, MatchesCheckouts, GoesForward, Succeeded, Git, Declared
  <1>5. CASE PlanUpdates(p)
    <2>1. CASE ~Readable(lock)
      <3>1. pc'[p] = "ended" /\ end'[p] = "MissingLock" /\ before' = before /\ pc[p] = "planning"
        BY <1>5, <2>1 DEF TypeOK, PlanUpdates, End, Goto
      <3>2. OneAtATime => lock = before[p]
        BY <3>1 DEF Sequential, Untouched
      <3> QED BY <1>1, <1>2, <1>3, <3>1, <3>2, OnlyTheActor
              DEF Untouched, WritesOutcomes, KeepsContracts, MatchesCheckouts, GoesForward, Succeeded
    <2>2. CASE Readable(lock)
      <3>1. /\ pc'[p] = "fetching" /\ before' = before /\ pc[p] = "planning"
            /\ fetched' = fetched /\ fetched[p] = NoOutcomes
        BY <1>5, <2>2 DEF TypeOK, Phases, PlanUpdates, Goto
      <3>2. \A d \in Git : fetched'[p][d] = NoOutcome
        BY <3>1, GitAreDeps DEF NoOutcomes
      <3>3. OneAtATime => lock = before[p]
        BY <3>1 DEF Sequential, Untouched
      <3>4. PICK u : plan' = [plan EXCEPT ![p] = [d \in Deps |-> PlanOf(d, u)]]
        BY <1>5, <2>2 DEF PlanUpdates
      <3>5. ASSUME NEW d \in Git, Kind[d] = "version"
            PROVE  lock.deps[d].sha <= plan'[p][d].commit
        <4>1. d \in Deps /\ plan'[p][d] = PlanOf(d, u)
          BY <3>4, GitAreDeps DEF TypeOK
        <4>2. plan'[p][d].commit = remote[d]
          BY <3>5, <4>1 DEF PlanOf, Git
        <4>3. lock.deps[d].sha <= ObjectOf(d, Available(d))
          BY <2>2, LockedIsAtMostAvailable DEF TypeOK, Provenance
        <4> QED BY <3>5, <4>2, <4>3 DEF ObjectOf, Available
      <3> QED BY <1>1, <1>2, <1>3, <3>1, <3>2, <3>3, <3>5, OnlyTheActor
              DEF Untouched, WritesOutcomes, KeepsContracts, MatchesCheckouts, GoesForward, Succeeded, Git, Declared
    <2> QED BY <2>1, <2>2
  <1>6. CASE Exit(p)
    <2>1. pc'[p] = "idle"
      BY <1>6 DEF TypeOK, Exit, Goto
    <2> QED BY <1>1, <1>3, <2>1, OnlyTheActor
            DEF Untouched, WritesOutcomes, KeepsContracts, MatchesCheckouts, GoesForward, Succeeded
  <1> QED BY <1>4, <1>5, <1>6

\* The outcome of a fetch is recorded.
LEMMA SequentialRecord ==
    ASSUME TypeOK, Phases, Sequential, NEW p \in Procs, NEW d \in Deps, UNCHANGED setting,
           pc[p] = "fetching", UNCHANGED <<lock, before, cmd, plan>>,
           NEW o, Record(p, d, o),
           \A e \in Deps : e # d => cache'[ManifestKey(e)] = cache[ManifestKey(e)],
           OneAtATime => LockNotBehind(lock)',
           OneAtATime /\ d \in Git =>
               /\ NotBehind(d, o)'
               /\ Readable(lock) => lock.deps[d].sha <= o
               /\ Comparable(d) => IsHead(d, o)'
    PROVE  Sequential'
  <1>1. /\ p \in Active /\ UNCHANGED <<pc, end>>
        /\ fetched'[p][d] = o /\ \A e \in Deps : e # d => fetched'[p][e] = fetched[p][e]
    BY DEF TypeOK, Phases, Record
  <1>2. SUFFICES ASSUME OneAtATime
                 PROVE  MatchesCheckouts(p)' /\ GoesForward(p)'
    BY <1>1, <1>2, OnlyTheActor DEF Sequential, Untouched, WritesOutcomes, KeepsContracts, Succeeded
  <1>3. Git \subseteq Deps /\ Git' = Git
    BY GitAreDeps DEF Git, Declared
  <1>4. lock = before[p] /\ MatchesCheckouts(p) /\ GoesForward(p)
    BY <1>2 DEF Sequential, Untouched
  <1>5. MatchesCheckouts(p)'
    <2>1. ASSUME NEW e \in Git, Comparable(e), fetched'[p][e] \notin {NoOutcome, Blank}
          PROVE  IsHead(e, fetched[p][e])'
      <3>1. CASE e = d
        BY <1>1, <1>2, <2>1, <3>1 DEF IsHead
      <3>2. CASE e # d
        BY <1>1, <1>3, <1>4, <2>1, <3>2 DEF IsHead, MatchesCheckouts
      <3> QED BY <3>1, <3>2
    <2> QED BY <1>1, <1>3, <2>1 DEF MatchesCheckouts, Succeeded, Comparable
  <1>6. GoesForward(p)'
    <2>1. ASSUME NEW e \in Git, fetched'[p][e] # NoOutcome
          PROVE  /\ NotBehind(e, fetched[p][e])'
                 /\ Readable(before[p]) => before[p].deps[e].sha <= fetched'[p][e]
      <3>1. CASE e = d
        BY <1>1, <1>2, <1>4, <2>1, <3>1 DEF NotBehind
      <3>2. CASE e # d
        BY <1>1, <1>3, <1>4, <2>1, <3>2 DEF NotBehind, GoesForward
      <3> QED BY <3>1, <3>2
    <2>2. pc[p] = "fetching" /\ cmd[p] = "update" /\ Readable(before[p]) =>
            \A e \in Git : Kind[e] = "version" => before[p].deps[e].sha <= plan[p][e].commit
      BY <1>4 DEF GoesForward
    <2> QED BY <1>1, <1>3, <2>1, <2>2 DEF GoesForward
  <1> QED BY <1>5, <1>6

\* A checkout is moved to what git pulled.
LEMMA SequentialCheckout ==
    ASSUME TypeOK, Provenance, Phases, Sequential, OneAtATime, NEW p \in Procs, NEW d \in Git,
           UNCHANGED <<setting, lock>>, pc[p] = "fetching", ~Unresolved(p, d),
           NEW k, k = Key(d, Target(p, d)), NEW h, NEW st,
           cache' = [cache EXCEPT ![k] = [ref |-> Pulled(p, d, cache[k]), head |-> h, state |-> st]]
    PROVE  LockNotBehind(lock)'
  <1> DEFINE n == Pulled(p, d, cache[k])
  <1>1. Git \subseteq Deps /\ Git' = Git
    BY GitAreDeps DEF Git, Declared
  <1>2. k \in Keys /\ k[1] = d /\ (Kind[d] # "version" => k = ManifestKey(d))
    BY <1>1, KeyType, TargetType DEF Key
  <1>3. Readable(lock) => lock.deps[d].sha <= ObjectOf(d, n)
    BY PulledIsForward
  <1> HIDE DEF n
  <1>4. cache'[k].ref = n /\ \A j \in Keys : j # k => cache'[j] = cache[j]
    BY <1>2 DEF TypeOK, n
  <1>5. ASSUME NEW e \in Git, Readable(lock) PROVE NotBehind(e, lock.deps[e].sha)'
    <2>1. CASE e = d
      BY <1>2, <1>3, <1>4, <1>5, <2>1 DEF NotBehind
    <2>2. CASE e # d
      BY <1>1, <1>2, <1>4, <1>5, <2>2, KeyType DEF NotBehind, Sequential, LockNotBehind
    <2> QED BY <2>1, <2>2
  <1> QED BY <1>1, <1>5 DEF LockNotBehind

\* A command that ends with an error before it writes.
LEMMA SequentialEnd ==
    ASSUME TypeOK, Phases, Sequential, NEW p \in Procs, UNCHANGED <<setting, lock, before>>,
           pc[p] \in {"planning", "building", "fetching", "writing"},
           NEW how, End(p, how), how # "Ok", OneAtATime => LockNotBehind(lock)'
    PROVE  Sequential'
  <1>1. p \in Active /\ pc'[p] = "ended" /\ end'[p] = how /\ \A q \in Procs \ {p} : pc'[q] = pc[q]
    BY DEF TypeOK, Phases, End, Goto
  <1>2. OneAtATime => lock = before[p]
    BY DEF Sequential, Untouched
  <1> QED BY <1>1, <1>2, OnlyTheActor
          DEF Untouched, WritesOutcomes, KeepsContracts, MatchesCheckouts, GoesForward, Succeeded
LEMMA SequentialFetch ==
    ASSUME TypeOK, Provenance, Phases, Sequential, NEW p \in Procs, NEW d \in Deps, UNCHANGED setting,
           FetchPath(p, d) \/ FetchReuses(p, d) \/ FetchGit(p, d)
             \/ FetchFails(p, d) \/ FetchHalfway(p, d)
    PROVE  Sequential'
  <1> DEFINE k == Key(d, Target(p, d))
             n == Pulled(p, d, cache[k])
  <1>1. pc[p] = "fetching" /\ UNCHANGED <<lock, before, cmd, plan>>
    BY DEF FetchPath, FetchReuses, FetchGit, FetchFails, FetchHalfway, Fetches
  <1>2. k \in Keys /\ k[1] = d /\ (Kind[d] # "version" => k = ManifestKey(d))
    BY KeyType, TargetType DEF Key
  <1>3. OneAtATime /\ cache' = cache => LockNotBehind(lock)'
    BY <1>1 DEF Sequential, LockNotBehind, NotBehind, Git, Declared
  <1>4. CASE FetchPath(p, d)
    <2>1. d \notin Git /\ cache' = cache /\ Record(p, d, Blank)
      BY <1>4 DEF FetchPath, Git
    <2> QED BY <1>1, <1>3, <2>1, SequentialRecord
  <1>5. CASE FetchReuses(p, d)
    <2>1. d \in Git /\ ~Unresolved(p, d) /\ Reusable(p, d) /\ cache' = cache
          /\ Record(p, d, cache[k].head)
      BY <1>5 DEF FetchReuses
    <2>2. PICK m \in 1 .. Available(d) : /\ cache[k].head = ObjectOf(d, m)
                                         /\ Kind[d] # "rev" => m = cache[k].ref
      BY <2>1, ReusedExisted
    <2>3. cache[k].state # "absent" /\ cache[k].ref \in 1 .. Available(d)
      BY <1>2, <2>1 DEF Reusable, Provenance, CheckoutsExisted
    <2>4. m = cache[k].ref
      BY <2>2, <2>3 DEF Available
    <2> HIDE DEF k
    <2>5. cache[k].head \in Nat /\ cache[k].ref \in Nat
      BY <1>2, ConstantsAssumption DEF TypeOK, Checkouts, Commits
    <2>6. PICK o : o = cache[k].head
      OBVIOUS
    <2>7. NotBehind(d, o)'
      <3>1. Kind[d] # "version" => o <= ObjectOf(d, cache[ManifestKey(d)].ref)
        BY <1>2, <2>2, <2>4, <2>5, <2>6, ConstantsAssumption DEF ObjectOf
      <3> QED BY <2>1, <3>1 DEF NotBehind
    <2>8. Comparable(d) => IsHead(d, o)'
      BY <1>2, <2>1, <2>3, <2>6 DEF IsHead, Comparable
    <2>9. ASSUME OneAtATime, Readable(lock)
          PROVE  lock.deps[d].sha <= o
      <3>1. lock.deps[d].sha <= ObjectOf(d, Pulled(p, d, cache[k]))
        BY <1>1, <2>1, <2>9, PulledIsForward DEF k
      <3>2. CASE Kind[d] = "version"
        <4>1. Pulled(p, d, cache[k]) = k[2] /\ cache[k].ref = k[2]
          BY <1>2, <2>1, <2>3, <3>2, PulledExisted DEF k, Provenance, CheckoutsExisted
        <4> QED BY <2>2, <2>4, <2>6, <3>1, <4>1
      <3>3. CASE Kind[d] # "version"
        <4>1. NotBehind(d, lock.deps[d].sha)
          BY <2>1, <2>9 DEF Sequential, LockNotBehind
        <4> QED BY <1>2, <2>2, <2>3, <2>4, <2>6, <3>3, <4>1 DEF NotBehind
      <3> QED BY <3>2, <3>3
    <2>10. Record(p, d, o) /\ \A e \in Deps : cache'[ManifestKey(e)] = cache[ManifestKey(e)]
      BY <2>1, <2>6 DEF Record
    <2> QED BY <1>1, <1>3, <2>1, <2>7, <2>8, <2>9, <2>10, SequentialRecord
  <1>6. CASE FetchGit(p, d)
    <2>1. /\ d \in Git /\ ~Unresolved(p, d) /\ Record(p, d, ObjectOf(d, n))
          /\ cache' = [cache EXCEPT ![k] = [ref |-> n, head |-> n, state |-> "checked"]]
      BY <1>6 DEF FetchGit
    <2>2. OneAtATime => LockNotBehind(lock)'
      BY <1>1, <2>1, SequentialCheckout
    <2>3. OneAtATime => (Readable(lock) => lock.deps[d].sha <= ObjectOf(d, n))
      BY <1>1, <2>1, PulledIsForward
    <2>4. n \in Nat
      BY <1>2, PulledType, ConstantsAssumption DEF Commits
    <2> HIDE DEF k, n
    <2>5. /\ cache'[k] = [ref |-> n, head |-> n, state |-> "checked"]
          /\ \A j \in Keys : j # k => cache'[j] = cache[j]
      BY <1>2, <2>1 DEF TypeOK
    <2>6. \A e \in Deps : e # d => cache'[ManifestKey(e)] = cache[ManifestKey(e)]
      BY <1>2, <2>5, KeyType
    <2>7. PICK o : o = ObjectOf(d, n)
      OBVIOUS
    <2>8. o \in Int
      BY <2>4, <2>7, ConstantsAssumption DEF ObjectOf
    <2>9. NotBehind(d, o)'
      BY <1>2, <2>5, <2>7, <2>8 DEF NotBehind, ObjectOf
    <2>10. Comparable(d) => IsHead(d, o)'
      BY <1>2, <2>5, <2>7 DEF IsHead, Comparable, ObjectOf
    <2>11. Record(p, d, o)
      BY <2>1, <2>7
    <2> QED BY <1>1, <2>2, <2>3, <2>6, <2>7, <2>9, <2>10, <2>11, SequentialRecord
  <1>7. CASE FetchFails(p, d)
    BY <1>1, <1>3, <1>7, SequentialEnd DEF FetchFails
  <1>8. CASE FetchHalfway(p, d)
    <2>1. d \in Git /\ ~Unresolved(p, d) /\ End(p, "Git")
      BY <1>8 DEF FetchHalfway
    <2>2. PICK h, st : cache' = [cache EXCEPT ![k] = [ref |-> n, head |-> h, state |-> st]]
      BY <1>8 DEF FetchHalfway
    <2>3. OneAtATime => LockNotBehind(lock)'
      BY <1>1, <2>1, <2>2, SequentialCheckout
    <2> QED BY <1>1, <2>1, <2>3, SequentialEnd
  <1> QED BY <1>4, <1>5, <1>6, <1>7, <1>8
LEMMA BlankIsNotAhead ==
    ASSUME TypeOK
    PROVE  \A d \in Git : NotBehind(d, Blank)
  <1>1. \A d \in Git : ManifestKey(d) \in Keys
    BY GitAreDeps, KeyType
  <1> QED BY <1>1, ConstantsAssumption DEF TypeOK, Checkouts, Commits, NotBehind, ObjectOf, Blank

\* The content that is about to be written.
LEMMA NewLockIsSound ==
    ASSUME TypeOK, Phases, Sequential, OneAtATime, NEW p \in Procs, pc[p] = "writing"
    PROVE  /\ Readable(NewLock(p)) /\ NewLock(p).contracts = snapshot[p].contracts
           /\ cmd[p] # "generate" => Agrees(NewLock(p))
           /\ LockNotBehind(NewLock(p))
           /\ Readable(before[p]) =>
                \A d \in Git : NewLock(p).deps[d].sha = Blank
                               \/ before[p].deps[d].sha <= NewLock(p).deps[d].sha
           /\ PinsFetched(p, NewLock(p))
  <1>1. Git \subseteq Deps /\ Readable(snapshot[p]) /\ MatchesCheckouts(p) /\ GoesForward(p)
    BY GitAreDeps DEF Phases, Sequential
  <1>2. \A d \in Git : NotBehind(d, Blank)
    BY BlankIsNotAhead
  <1>3. CASE cmd[p] = "generate"
    <2>1. NewLock(p) = snapshot[p] /\ snapshot[p].deps = BlankDeps
      BY <1>3 DEF NewLock, Phases
    <2>2. \A d \in Git : NewLock(p).deps[d].sha = Blank
      BY <1>1, <2>1 DEF BlankDeps, BlankEntry
    <2> QED BY <1>1, <1>2, <1>3, <2>1, <2>2 DEF LockNotBehind, PinsFetched
  <1>4. CASE cmd[p] # "generate"
    <2>1. NewLock(p) = Lock(snapshot[p].contracts, [d \in Deps |-> ResolvedEntry(p, d)])
      BY <1>4 DEF NewLock
    <2>2. /\ Readable(NewLock(p)) /\ NewLock(p).contracts = snapshot[p].contracts
          /\ \A d \in Git : NewLock(p).deps[d] = ResolvedEntry(p, d)
      BY <1>1, <2>1 DEF Readable, Lock
    <2>3. ASSUME NEW d \in Git
          PROVE  \/ ResolvedEntry(p, d) = BlankEntry
                 \/ /\ fetched[p][d] # NoOutcome
                    /\ ResolvedEntry(p, d).sha = fetched[p][d]
                    /\ ResolvedEntry(p, d).integrity = cache[ManifestKey(d)].head
      BY DEF ResolvedEntry, Integrity
    <2>4. Agrees(NewLock(p))
      <3>1. ASSUME NEW d \in Git, Comparable(d), ResolvedEntry(p, d).sha # Blank
            PROVE  /\ IsHead(d, ResolvedEntry(p, d).sha)
                   /\ ResolvedEntry(p, d).integrity \in {Blank, ResolvedEntry(p, d).sha}
        BY <1>1, <2>3, <3>1 DEF MatchesCheckouts, IsHead, BlankEntry
      <3> QED BY <2>2, <3>1 DEF Agrees
    <2>5. LockNotBehind(NewLock(p))
      <3>1. ASSUME NEW d \in Git PROVE NotBehind(d, ResolvedEntry(p, d).sha)
        BY <1>1, <1>2, <2>3 DEF GoesForward, BlankEntry
      <3> QED BY <2>2, <3>1 DEF LockNotBehind
    <2>6. ASSUME Readable(before[p]), NEW d \in Git
          PROVE  NewLock(p).deps[d].sha = Blank \/ before[p].deps[d].sha <= NewLock(p).deps[d].sha
      BY <1>1, <2>2, <2>3, <2>6 DEF GoesForward, BlankEntry
    <2>7. PinsFetched(p, NewLock(p))
      BY <2>2, <2>3 DEF PinsFetched, BlankEntry
    <2> QED BY <2>2, <2>4, <2>5, <2>6, <2>7
  <1> QED BY <1>3, <1>4

LEMMA SequentialWrite ==
    ASSUME TypeOK, Phases, Sequential, NEW p \in Procs, UNCHANGED setting,
           ReadLock(p) \/ GenerateLock(p) \/ Truncate(p) \/ WriteLock(p) \/ WriteFails(p)
    PROVE  Sequential'
  <1>1. p \in Active /\ UNCHANGED <<cache, before, cmd, fetched>>
    BY DEF Phases, ReadLock, GenerateLock, Truncate, WriteLock, WriteFails
  <1>2. Git' = Git
    BY DEF Git, Declared
  <1>3. OneAtATime /\ UNCHANGED lock => LockNotBehind(lock)'
    BY <1>1, <1>2 DEF Sequential, LockNotBehind, NotBehind
  <1>4. CASE ReadLock(p)
    <2>1. pc[p] = "fetching" /\ UNCHANGED lock
      BY <1>4 DEF ReadLock
    <2>2. CASE End(p, "MissingLock")
      BY <1>1, <1>3, <2>1, <2>2, SequentialEnd
    <2>3. CASE ~End(p, "MissingLock")
      <3>1. /\ pc' = [pc EXCEPT ![p] = "writing"]
            /\ snapshot' = [snapshot EXCEPT ![p] =
                   IF Readable(lock) THEN lock ELSE Lock(0, BlankDeps)]
        BY <1>4, <2>3 DEF ReadLock, Goto
      <3>2. /\ pc'[p] = "writing" /\ \A q \in Procs \ {p} : pc'[q] = pc[q]
            /\ Readable(lock) => snapshot'[p] = lock
        BY <3>1 DEF TypeOK
      <3>3. OneAtATime => lock = before[p] /\ MatchesCheckouts(p) /\ GoesForward(p)
        BY <2>1 DEF Sequential, Untouched
      <3>4. OneAtATime => KeepsContracts(p)'
        BY <1>1, <2>1, <3>2, <3>3 DEF KeepsContracts, Succeeded
      <3>5. OneAtATime => MatchesCheckouts(p)'
        BY <1>1, <1>2, <2>1, <3>2, <3>3 DEF MatchesCheckouts, IsHead, Succeeded
      <3>6. OneAtATime => GoesForward(p)'
        BY <1>1, <1>2, <2>1, <3>2, <3>3 DEF GoesForward, NotBehind
      <3>7. WritesOutcomes(p)'
        BY <3>2 DEF WritesOutcomes
      <3> QED BY <1>1, <1>3, <2>1, <3>2, <3>3, <3>4, <3>5, <3>6, <3>7, OnlyTheActor
    <2> QED BY <2>2, <2>3
  <1>5. CASE GenerateLock(p)
    <2>1. pc[p] = "building" /\ UNCHANGED lock
      BY <1>5 DEF GenerateLock
    <2>2. CASE End(p, "ArtifactNotFound")
      BY <1>1, <1>3, <2>1, <2>2, SequentialEnd
    <2>3. CASE ~End(p, "ArtifactNotFound")
      <3>1. Goto(p, "writing")
        BY <1>5, <2>3 DEF GenerateLock
      <3>2. pc'[p] = "writing" /\ \A q \in Procs \ {p} : pc'[q] = pc[q]
        BY <3>1 DEF TypeOK, Goto
      <3>3. cmd'[p] = "generate" /\ \A d \in Git : fetched'[p][d] = NoOutcome
        BY <1>1, <2>1, GitAreDeps DEF Phases, NoOutcomes
      <3>4. OneAtATime => lock = before[p]
        BY <2>1 DEF Sequential, Untouched
      <3> QED BY <1>1, <1>2, <1>3, <2>1, <3>2, <3>3, <3>4, OnlyTheActor
              DEF WritesOutcomes, KeepsContracts, MatchesCheckouts, GoesForward, Succeeded
    <2> QED BY <2>2, <2>3
  <1>6. CASE Truncate(p)
    <2>1. pc[p] = "writing"
      BY <1>6 DEF Truncate
    <2>2. /\ pc'[p] = "written" /\ lock' = Truncated /\ snapshot'[p] = NewLock(p)
          /\ \A q \in Procs \ {p} : pc'[q] = pc[q]
      BY <1>6 DEF TypeOK, Truncate, Goto
    <2>3. ~Readable(lock')
      BY <2>2, LockType
    <2>4. ASSUME OneAtATime
          PROVE  WritesOutcomes(p)' /\ KeepsContracts(p)' /\ MatchesCheckouts(p)' /\ GoesForward(p)'
      <3>1. KeepsContracts(p)'
        BY <1>1, <2>1, <2>2, <2>4, NewLockIsSound DEF Sequential, KeepsContracts, Succeeded
      <3>2. PICK l : l = NewLock(p)
        OBVIOUS
      <3>3. (cmd[p] # "generate" => Agrees(l)) /\ LockNotBehind(l)
        BY <2>1, <2>4, <3>2, NewLockIsSound
      <3>4. MatchesCheckouts(p)'
        BY <1>1, <1>2, <2>2, <3>2, <3>3 DEF MatchesCheckouts, Agrees, IsHead, Succeeded, Comparable
      <3>5. GoesForward(p)'
        BY <1>1, <1>2, <2>1, <2>2, <2>4, <3>2, <3>3, NewLockIsSound
           DEF GoesForward, LockNotBehind, NotBehind
      <3>6. WritesOutcomes(p)'
        BY <1>1, <1>2, <2>1, <2>2, <2>4, NewLockIsSound DEF WritesOutcomes, PinsFetched
      <3> QED BY <3>1, <3>4, <3>5, <3>6
    <2> QED BY <1>1, <2>2, <2>3, <2>4, OnlyTheActor DEF LockNotBehind, Untouched
  <1>7. CASE WriteLock(p)
    <2>1. pc[p] = "written" /\ snapshot' = snapshot
      BY <1>7 DEF WriteLock
    <2>2. pc'[p] = "ended" /\ end'[p] = "Ok" /\ \A q \in Procs \ {p} : pc'[q] = pc[q]
      BY <1>7 DEF TypeOK, WriteLock, Goto, End
    <2>3. ASSUME OneAtATime
          PROVE  /\ LockNotBehind(lock)' /\ WritesOutcomes(p)' /\ KeepsContracts(p)'
                 /\ MatchesCheckouts(p)' /\ GoesForward(p)'
      <3>0. lock = Truncated /\ lock' = snapshot[p]
        BY <1>7, <2>1, <2>3 DEF WriteLock, Sequential, WritesOutcomes
      <3>1. /\ Readable(snapshot[p]) /\ KeepsContracts(p) /\ LockNotBehind(snapshot[p])
            /\ cmd[p] # "generate" => Agrees(snapshot[p])
        BY <2>1, <2>3 DEF Sequential, Phases, MatchesCheckouts, GoesForward
      <3>2. LockNotBehind(lock)'
        BY <1>1, <1>2, <3>0, <3>1 DEF LockNotBehind, NotBehind
      <3>3. WritesOutcomes(p)' /\ KeepsContracts(p)' /\ GoesForward(p)'
        BY <1>1, <2>1, <2>2, <3>0, <3>1 DEF WritesOutcomes, KeepsContracts, GoesForward
      <3>4. MatchesCheckouts(p)'
        BY <1>1, <1>2, <2>1, <2>2, <3>0, <3>1 DEF MatchesCheckouts, Agrees, IsHead, Comparable
      <3> QED BY <3>2, <3>3, <3>4
    <2> QED BY <1>1, <2>2, <2>3, OnlyTheActor DEF Untouched
  <1>8. CASE WriteFails(p)
    <2>1. /\ pc[p] \in {"writing", "written"} /\ snapshot' = snapshot
          /\ pc'[p] = "ended" /\ end'[p] \in {"WriteFailed", "Killed"}
          /\ \A q \in Procs \ {p} : pc'[q] = pc[q]
          /\ lock' = lock \/ (pc[p] = "written" /\ lock' \in Prefixes(snapshot[p]))
      BY <1>8 DEF TypeOK, WriteFails, Goto, End
    <2>2. ASSUME OneAtATime
          PROVE  LockNotBehind(lock)' /\ WritesOutcomes(p)'
      <3>1. CASE lock' = lock
        <4>1. lock = before[p] \/ lock = Truncated
          BY <2>1, <2>2 DEF Sequential, Untouched, WritesOutcomes
        <4> QED BY <1>1, <1>2, <1>3, <2>1, <2>2, <3>1, <4>1, LockType
                DEF WritesOutcomes, PinsFetched
      <3>2. CASE pc[p] = "written" /\ lock' \in Prefixes(snapshot[p])
        <4>1. LockNotBehind(snapshot[p]) /\ PinsFetched(p, snapshot[p]) /\ Readable(snapshot[p])
          BY <2>2, <3>2 DEF Sequential, GoesForward, WritesOutcomes, Phases
        <4>2. \A d \in Git : Readable(lock') =>
                lock'.deps[d].sha = Blank \/ lock'.deps[d].sha = snapshot[p].deps[d].sha
          BY <3>2, <4>1, GitAreDeps, PrefixPins DEF TypeOK
        <4>3. \A d \in Git : NotBehind(d, Blank)
          BY BlankIsNotAhead
        <4> QED BY <1>1, <1>2, <2>1, <4>1, <4>2, <4>3
                DEF WritesOutcomes, PinsFetched, LockNotBehind, NotBehind
      <3> QED BY <2>1, <3>1, <3>2
    <2> QED BY <1>1, <2>1, <2>2, OnlyTheActor
            DEF Untouched, KeepsContracts, MatchesCheckouts, GoesForward, Succeeded
  <1> QED BY <1>4, <1>5, <1>6, <1>7, <1>8

LEMMA SequentialOutside ==
    ASSUME TypeOK, Sequential, UNCHANGED setting,
           UNCHANGED vars \/ DropCache \/ \E d \in Deps : Push(d)
    PROVE  Sequential'
  <1>1. OneAtATime' = OneAtATime /\ Git' = Git
    BY DEF OneAtATime, Active, Git, Declared
  <1>2. CASE UNCHANGED <<cache, lock, procVars>>
    <2>1. OneAtATime => LockNotBehind(lock)'
      BY <1>1, <1>2 DEF Sequential, LockNotBehind, NotBehind
    <2>2. ASSUME OneAtATime, NEW p \in Procs
          PROVE  /\ Untouched(p)' => lock' = before'[p]
                 /\ WritesOutcomes(p)' /\ KeepsContracts(p)' /\ MatchesCheckouts(p)'
      BY <1>1, <1>2, <2>2 DEF procVars, Sequential, Untouched, WritesOutcomes, PinsFetched, KeepsContracts,
         MatchesCheckouts,
         Agrees, IsHead, Succeeded, Comparable
    <2>3. ASSUME OneAtATime, NEW p \in Procs PROVE GoesForward(p)'
      <3>1. GoesForward(p)
        BY <2>3 DEF Sequential
      <3> QED BY <1>1, <1>2, <3>1 DEF procVars, GoesForward, LockNotBehind, NotBehind
    <2> QED BY <1>1, <2>1, <2>2, <2>3 DEF Sequential
  <1>3. CASE DropCache
    <2>1. /\ \A p \in Procs : pc'[p] = "idle"
          /\ \A k \in Keys : cache'[k].state = "absent"
      BY <1>3 DEF DropCache, procVars, NoCheckout
    <2>2. LockNotBehind(lock)'
      BY <1>1, <2>1, GitAreDeps, KeyType DEF LockNotBehind, NotBehind
    <2> QED BY <2>1, <2>2
            DEF Sequential, Untouched, WritesOutcomes, KeepsContracts, MatchesCheckouts, GoesForward, Succeeded
  <1> QED BY <1>2, <1>3 DEF vars, work, Push
-----------------------------------------------------------------------------
\* The theorems

LEMMA InductiveInvariant == Spec => []IInv
  <1>1. Init => IInv
    BY TypeInit, PhasesInit, ProvenanceInit, SequentialInit DEF IInv
  <1>2. IInv /\ [Next]_vars => IInv'
    <2> SUFFICES ASSUME IInv, [Next]_vars
                 PROVE  IInv'
      OBVIOUS
    <2> USE DEF IInv
    <2>1. UNCHANGED setting
      BY DEF Next, vars
    <2>2. ASSUME NEW p \in Procs, Start(p) \/ PlanUpdates(p) \/ Exit(p)
          PROVE  IInv'
      BY <2>1, <2>2, TypeCommand, PhasesCommand, ProvenanceCommand, SequentialCommand
    <2>3. ASSUME NEW p \in Procs, NEW d \in Deps,
                 FetchPath(p, d) \/ FetchReuses(p, d) \/ FetchGit(p, d)
                   \/ FetchFails(p, d) \/ FetchHalfway(p, d)
          PROVE  IInv'
      BY <2>1, <2>3, TypeFetch, PhasesFetch, ProvenanceFetch, SequentialFetch
    <2>4. ASSUME NEW p \in Procs,
                 ReadLock(p) \/ GenerateLock(p) \/ Truncate(p) \/ WriteLock(p) \/ WriteFails(p)
          PROVE  IInv'
      <3>1. pc[p] \in {"writing", "written"} => Readable(snapshot[p])
        BY DEF Phases
      <3> QED BY <2>1, <2>4, <3>1, TypeWrite, PhasesWrite, ProvenanceWrite, SequentialWrite
    <2>5. CASE UNCHANGED vars \/ DropCache \/ \E d \in Deps : Push(d)
      BY <2>1, <2>5, TypeOutside, PhasesOutside, ProvenanceOutside, SequentialOutside
    <2> QED BY <2>2, <2>3, <2>4, <2>5 DEF Next, Work
  <1> QED BY <1>1, <1>2, PTL DEF Spec

\* All variables of the dependency commands stay in their types (fetch.rs,
\* sync.rs, lock.rs).
THEOREM TypeCorrectness == Spec => []TypeOK
  <1>1. IInv => TypeOK
    BY DEF IInv
  <1> QED BY <1>1, InductiveInvariant, PTL

\* What a successful fetch or update wrote is accepted by verify_dependencies, and
\* what is pinned was once at the remote's reference, for any number of
\* dependencies of every kind and whatever earlier commands failed at.
THEOREM LockIsAlwaysTrue == Spec => []LockIsTrue
  <1>1. IInv => SyncedIsVerified
    <2> SUFFICES ASSUME IInv, OneAtATime, \A d \in Git : Comparable(d),
                        NEW p \in Procs, Succeeded(p), cmd[p] # "generate"
                 PROVE  Verified
      BY DEF SyncedIsVerified
    <2>1. Readable(lock) /\ Agrees(lock)
      BY DEF IInv, Sequential, MatchesCheckouts
    <2> QED BY <2>1 DEF Verified, Agrees, IsHead
  <1>2. IInv => LockedCommitsExisted
    BY DEF IInv, Provenance, PinsExisted, AtRemote, Available, LockedCommitsExisted
  <1> QED BY <1>1, <1>2, InductiveInvariant, PTL DEF LockIsTrue

\* With one command at a time, a command that fails leaves sdkt.lock as it found it,
\* or, inside the write, pins nothing but what it fetched; and a sync writes back
\* the contracts it found.
THEOREM NothingIsEverDestroyed == Spec => []NothingIsDestroyed
  <1>1. IInv => FailureKeepsLock
    <2> SUFFICES ASSUME IInv, OneAtATime, NEW p \in Procs, pc[p] = "ended", end[p] # "Ok",
                        lock # before[p]
                 PROVE  /\ end[p] \in {"WriteFailed", "Killed"}
                        /\ Readable(lock) => \A d \in Git : lock.deps[d].sha \in {Blank, fetched[p][d]}
      BY DEF FailureKeepsLock
    <2>1. end[p] \in {"WriteFailed", "Killed"} /\ WritesOutcomes(p)
      BY DEF IInv, Sequential, Untouched
    <2> QED BY <2>1 DEF WritesOutcomes, PinsFetched
  <1>2. IInv => ContractsSurvive
    BY DEF IInv, Sequential, KeepsContracts, ContractsSurvive
  <1> QED BY <1>1, <1>2, InductiveInvariant, PTL DEF NothingIsDestroyed

\* With one command at a time no write of sdkt.lock moves a pinned commit back:
\* a plain fetch that keeps an old tag, an update that planned before the remote
\* moved and a checkout left halfway all record something at least as new.
THEOREM CommitsNeverGoBack == Spec => NoRollback
  <1> DEFINE Forward ==
        OneAtATime /\ Readable(lock') => \A p \in Procs : Readable(before[p]) /\ WriteLock(p) =>
          \A d \in Git : lock'.deps[d].sha = Blank \/ lock'.deps[d].sha >= before[p].deps[d].sha
  <1>1. IInv => Forward
    <2> SUFFICES ASSUME IInv, OneAtATime, Readable(lock'), NEW p \in Procs, Readable(before[p]),
                        WriteLock(p),
                        NEW d \in Git
                 PROVE  lock'.deps[d].sha = Blank \/ lock'.deps[d].sha >= before[p].deps[d].sha
      OBVIOUS
    <2>1. lock' = snapshot[p] /\ pc[p] = "written"
      BY LockType DEF WriteLock
    <2>2. snapshot[p].deps[d].sha = Blank \/ before[p].deps[d].sha <= snapshot[p].deps[d].sha
      BY <2>1 DEF IInv, Sequential, GoesForward
    <2>3. Readable(snapshot[p]) /\ d \in Deps
      BY <2>1, GitAreDeps DEF IInv, Phases
    <2>4. snapshot[p].deps[d].sha \in Int /\ before[p].deps[d].sha \in Int
      BY <2>3, LockType, ConstantsAssumption DEF IInv, TypeOK, Entries, Objects
    <2> QED BY <2>1, <2>2, <2>4
  <1>2. IInv /\ [Next]_vars => [Forward]_vars
    BY <1>1
  <1>3. Spec => [][Forward]_vars
    BY <1>2, InductiveInvariant, PTL DEF Spec
  <1> QED BY <1>3 DEF NoRollback
=============================================================================
