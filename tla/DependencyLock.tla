-------------------------- MODULE DependencyLock ---------------------------
(***************************************************************************)
(* Package dependencies of sdkt-core: `sdkt package fetch` (fetch.rs and   *)
(* its handler in main.rs), `sdkt package update` (sync.rs), `sdkt build`  *)
(* and `sdkt lock generate` (lock.rs) over one sdkt.lock and one checkout  *)
(* cache, while the remotes move and commands fail or are killed between   *)
(* two git calls or inside a write.                                        *)
(*                                                                         *)
(* A commit is the number of the release it belongs to.  A remote names    *)
(* one commit per dependency: the tip of the branch, the target of the     *)
(* tag, the best tag for a version constraint; for a path dependency it    *)
(* is the content of the directory.  The object an annotated tag names is  *)
(* a number above MaxCommit.                                               *)
(***************************************************************************)
EXTENDS Integers, FiniteSets

CONSTANTS Deps,        \* dependencies that a manifest may declare
          Kind,        \* how each of them is declared
          Procs,       \* sdkt processes
          Commands,    \* the commands they may run
          Settings,    \* the workspaces and the circumstances they run in
          MaxCommit,   \* bound: commits per remote
          MaxBuild     \* bound: builds

Kinds == {"path", "rev", "tag", "annotated", "branch", "version"}

ASSUME ConstantsAssumption ==
    /\ Kind \in [Deps -> Kinds]
    /\ Commands \subseteq {"fetch", "force", "update", "generate"}
    /\ Settings \subseteq [deps : SUBSET Deps, procs : SUBSET Procs,
                           relative : BOOLEAN, faults : BOOLEAN]
    /\ MaxCommit \in Nat \ {0} /\ MaxBuild \in Nat

VARIABLES setting,  \* the setting of this behaviour, never changed
          remote,   \* per dependency, the commit its reference names upstream
          cache,    \* .sdkt-cache/git: a checkout per cache key
          lock,     \* the content of sdkt.lock
          build,    \* the build whose artifacts are on disk
          pc, cmd,  \* per process: where it is, what it runs
          plan,     \* the status of each dependency and the commit it is about
          todo,     \* the dependencies still to be fetched
          fetched,  \* the outcomes: the recorded object, or NoOutcome
          snapshot, \* the lock as read before it is rewritten
          end,      \* how the command ended
          before    \* the lock when the command started

procVars == <<pc, cmd, plan, todo, fetched, snapshot, end, before>>
work == <<remote, cache, lock, build, procVars>>
vars == <<setting, work>>

Declared == setting.deps          \* the keys under [dependencies]
Active == setting.procs           \* with one process no two commands overlap
RelativeBase == setting.relative  \* the workspace root is ".", as the CLI passes it
Faults == setting.faults          \* git and writes may fail, processes may be killed

Commits == 0 .. MaxCommit            \* 0: no commit, HEAD elsewhere
Blank == 0                           \* an empty commit_sha or integrity
NoOutcome == -1
Objects == 0 .. 2 * MaxCommit

NoCheckout == [ref |-> 0, head |-> 0, state |-> "absent"]
Checkouts == [ref : Commits, head : Commits, state : {"absent", "cloned", "checked"}]

Entries == [sha : Objects, integrity : Commits]
BlankEntry == [sha |-> Blank, integrity |-> Blank]
BlankDeps == [d \in Deps |-> BlankEntry]
Missing == [tag |-> "missing"]
Truncated == [tag |-> "truncated"]
Torn == [tag |-> "torn"]             \* not empty, and does not parse
Lock(c, ds) == [tag |-> "lock", contracts |-> c, deps |-> ds]
Readable(l) == l.tag = "lock"
LockFiles == {Missing, Truncated, Torn}
             \cup [tag : {"lock"}, contracts : 0 .. MaxBuild, deps : [Deps -> Entries]]

Git == {d \in Declared : Kind[d] # "path"}

\* git_cache_key: the declared reference, and no reference at all for a version
\* constraint, whose checkouts lie under the key of the resolved tag.
ManifestKey(d) == <<d, 0>>
Key(d, n) == IF Kind[d] = "version" THEN <<d, n>> ELSE ManifestKey(d)
Keys == {k \in Deps \X Commits : Kind[k[1]] = "version" \/ k[2] = 0}

\* What rev-parse and ls-remote print for the reference at commit n.
ObjectOf(d, n) == IF Kind[d] = "annotated" THEN MaxCommit + n ELSE n

\* A rev names its commit for ever; every other reference follows the remote.
Available(d) == IF Kind[d] = "rev" THEN 1 ELSE remote[d]

\* compute_dependency_integrity: the tree at HEAD of the checkout under the
\* manifest's key, or the content of the directory.
Integrity(d) == IF d \in Git THEN cache[ManifestKey(d)].head ELSE remote[d]

-----------------------------------------------------------------------------

NoPlan == [d \in Deps |-> [status |-> "none", commit |-> 0]]
NoOutcomes == [d \in Deps |-> NoOutcome]

Init ==
    /\ setting \in Settings
    /\ remote \in [Deps -> {0, 1}]
    /\ \A d \in Deps : Kind[d] # "version" \/ d \notin Declared => remote[d] = 1
    /\ cache = [k \in Keys |-> NoCheckout]
    /\ lock = Missing
    /\ build = 0
    /\ pc = [p \in Procs |-> "idle"]
    /\ cmd = [p \in Procs |-> "none"]
    /\ plan = [p \in Procs |-> NoPlan]
    /\ todo = [p \in Procs |-> {}]
    /\ fetched = [p \in Procs |-> NoOutcomes]
    /\ snapshot = [p \in Procs |-> Missing]
    /\ end = [p \in Procs |-> "none"]
    /\ before = [p \in Procs |-> Missing]

Goto(p, where) == pc' = [pc EXCEPT ![p] = where]

\* The command is over.
End(p, how) == Goto(p, "ended") /\ end' = [end EXCEPT ![p] = how]

\* The manifest is valid: fetch goes through all dependencies, update reads the
\* lock and plans, generate reads nothing.
Start(p) ==
    /\ pc[p] = "idle" /\ p \in Active
    /\ \E c \in Commands :
         /\ cmd' = [cmd EXCEPT ![p] = c]
         /\ Goto(p, CASE c = "update" -> "planning" [] c = "generate" -> "building"
                      [] OTHER -> "fetching")
    /\ todo' = [todo EXCEPT ![p] = Declared]
    /\ before' = [before EXCEPT ![p] = lock]
    /\ UNCHANGED <<remote, cache, lock, build, plan, fetched, snapshot, end>>

\* plan_updates: the status of each dependency, from its locked commit and what
\* the remote has.
StatusOf(d) ==
    LET old == lock.deps[d].sha IN
    IF Kind[d] = "path" THEN "Unchanged"
    ELSE IF Kind[d] = "rev" THEN "Pinned"
    ELSE IF remote[d] = 0 THEN "Constraint"
    ELSE IF old = Blank \/ ObjectOf(d, remote[d]) # old THEN "Updated" ELSE "Unchanged"

PlanOf(d, unreachable) ==
    IF d \notin Declared THEN NoPlan[d]
    ELSE [status |-> IF d \in unreachable THEN "Error" ELSE StatusOf(d),
          commit |-> IF Kind[d] = "version" THEN remote[d] ELSE 0]

\* A lock that is missing or does not parse ends the command; a remote that
\* cannot be asked makes the dependency an Error and no more.
PlanUpdates(p) ==
    /\ pc[p] = "planning"
    /\ \/ /\ ~Readable(lock)
          /\ End(p, "MissingLock")
          /\ UNCHANGED <<plan, todo>>
       \/ /\ Readable(lock)
          /\ \E unreachable \in SUBSET {d \in Git : Kind[d] # "rev"} :
               /\ ~Faults => unreachable = {}
               /\ plan' = [plan EXCEPT ![p] = [d \in Deps |-> PlanOf(d, unreachable)]]
          /\ todo' = [todo EXCEPT ![p] = {d \in Declared : plan'[p][d].status = "Updated"}]
          /\ Goto(p, "fetching")
          /\ UNCHANGED end
    /\ UNCHANGED <<remote, cache, lock, build, cmd, fetched, snapshot, before>>

-----------------------------------------------------------------------------
\* GitFetcher::fetch

Forced(p) == cmd[p] \in {"force", "update"}

\* The commit to fetch: update takes the tag that the plan has resolved.
Target(p, d) ==
    IF cmd[p] = "update" /\ Kind[d] = "version" THEN plan[p][d].commit ELSE Available(d)

\* The reference in the clone after git clone or git fetch: a plain fetch never
\* moves a tag that the clone has.
Pulled(p, d, c) ==
    IF c.state # "absent" /\ ~Forced(p) /\ Kind[d] \in {"tag", "annotated", "version"}
    THEN c.ref ELSE Target(p, d)

Fetches(p, d) == pc[p] = "fetching" /\ d \in todo[p]

\* The guard of apply_updates: the checkout of a branch is on no branch.
Detached(p, d) ==
    /\ cmd[p] = "update" /\ Kind[d] = "branch"
    /\ cache[ManifestKey(d)].state = "checked"

\* git clone resolves a relative destination against its working directory, so
\* the checkout of a relative base ends up elsewhere.
CloneGoesAstray(p, d) ==
    /\ cmd[p] = "update" /\ RelativeBase
    /\ cache[Key(d, Target(p, d))].state = "absent"

Unresolved(p, d) == Target(p, d) = 0

Record(p, d, object) ==
    /\ fetched' = [fetched EXCEPT ![p][d] = object]
    /\ todo' = [todo EXCEPT ![p] = @ \ {d}]
    /\ UNCHANGED <<pc, end>>

\* PathResolver: nothing to do.
FetchPath(p, d) ==
    /\ Fetches(p, d) /\ Kind[d] = "path"
    /\ Record(p, d, Blank)
    /\ UNCHANGED <<remote, cache, lock, build, cmd, plan, snapshot, before>>

\* An existing checkout whose HEAD is what the reference resolves to is reused
\* unless --force is given.
Reusable(p, d) ==
    LET c == cache[Key(d, Target(p, d))] IN
    /\ c.state # "absent" /\ ~Forced(p)
    /\ ObjectOf(d, IF Kind[d] = "rev" THEN 1 ELSE c.ref) = c.head

FetchReuses(p, d) ==
    /\ Fetches(p, d) /\ d \in Git /\ ~Unresolved(p, d) /\ Reusable(p, d)
    /\ Record(p, d, cache[Key(d, Target(p, d))].head)
    /\ UNCHANGED <<remote, cache, lock, build, cmd, plan, snapshot, before>>

\* Mutant: the commit of the remote is recorded, not that of the checkout.
FetchGitTrustsRemote(p, d) ==
    LET k == Key(d, Target(p, d))
        n == Pulled(p, d, cache[k])
    IN /\ Fetches(p, d) /\ d \in Git
       /\ ~Unresolved(p, d) /\ ~Reusable(p, d) /\ ~Detached(p, d) /\ ~CloneGoesAstray(p, d)
       /\ cache' = [cache EXCEPT ![k] = [ref |-> n, head |-> n, state |-> "checked"]]
       /\ Record(p, d, ObjectOf(d, Target(p, d)))
       /\ UNCHANGED <<remote, lock, build, cmd, plan, snapshot, before>>

\* Mutant: a fresh clone stays at its first commit.
FetchGitShallow(p, d) ==
    LET k == Key(d, Target(p, d))
        n == IF cache[k].state = "absent" THEN 1 ELSE Pulled(p, d, cache[k])
    IN /\ Fetches(p, d) /\ d \in Git
       /\ ~Unresolved(p, d) /\ ~Reusable(p, d) /\ ~Detached(p, d) /\ ~CloneGoesAstray(p, d)
       /\ cache' = [cache EXCEPT ![k] = [ref |-> n, head |-> n, state |-> "checked"]]
       /\ Record(p, d, ObjectOf(d, n))
       /\ UNCHANGED <<remote, lock, build, cmd, plan, snapshot, before>>

\* git clone or git fetch, then git checkout, then rev-parse of the reference.
FetchGit(p, d) ==
    LET k == Key(d, Target(p, d))
        n == Pulled(p, d, cache[k])
    IN /\ Fetches(p, d) /\ d \in Git
       /\ ~Unresolved(p, d) /\ ~Reusable(p, d) /\ ~Detached(p, d) /\ ~CloneGoesAstray(p, d)
       /\ cache' = [cache EXCEPT ![k] = [ref |-> n, head |-> n, state |-> "checked"]]
       /\ Record(p, d, ObjectOf(d, n))
       /\ UNCHANGED <<remote, lock, build, cmd, plan, snapshot, before>>

\* Mutant: a refused or failing dependency is tried again.
FetchFailsRetries(p, d) ==
    /\ Fetches(p, d) /\ d \in Git /\ (Detached(p, d) \/ Unresolved(p, d))
    /\ UNCHANGED work

\* An error of one dependency ends the whole command, before the lock is read:
\* no tag satisfies the constraint; the branch guard; the stray clone, whose
\* checkout cannot start in a directory that is not there, reported as git
\* missing; or git itself fails.
FetchFails(p, d) ==
    /\ Fetches(p, d) /\ d \in Git
    /\ \/ Unresolved(p, d) /\ End(p, "Git")
       \/ ~Unresolved(p, d) /\ Detached(p, d) /\ End(p, "DetachedBranch")
       \/ ~Unresolved(p, d) /\ ~Detached(p, d) /\ CloneGoesAstray(p, d) /\ End(p, "GitUnavailable")
       \/ Faults /\ (~Reusable(p, d) \/ Kind[d] = "version") /\ End(p, "Git")
    /\ UNCHANGED <<remote, cache, lock, build, cmd, plan, todo, fetched, snapshot, before>>

\* The clone or the fetch succeeds and the checkout does not, or the process is
\* killed in between: a new clone has its default branch as HEAD, which may be
\* the commit wanted, and no files; an old one keeps its HEAD.
FetchHalfway(p, d) ==
    LET k == Key(d, Target(p, d))
        c == cache[k]
        n == Pulled(p, d, c)
    IN /\ Faults
       /\ Fetches(p, d) /\ d \in Git
       /\ ~Unresolved(p, d) /\ ~Reusable(p, d) /\ ~Detached(p, d) /\ ~CloneGoesAstray(p, d)
       /\ \E h \in IF c.state = "absent" THEN {0, n} ELSE {c.head} :
            cache' = [cache EXCEPT ![k] =
                        [ref |-> n, head |-> h,
                         state |-> IF c.state = "absent" THEN "cloned" ELSE c.state]]
       /\ End(p, "Git")
       /\ UNCHANGED <<remote, lock, build, cmd, plan, todo, fetched, snapshot, before>>

-----------------------------------------------------------------------------
\* Writing sdkt.lock

\* Mutant: every fetch starts a new lock.
ReadLockAfresh(p) ==
    /\ pc[p] = "fetching" /\ todo[p] = {}
    /\ Readable(lock) \/ cmd[p] # "update"
    /\ snapshot' = [snapshot EXCEPT ![p] = Lock(0, BlankDeps)]
    /\ Goto(p, "writing")
    /\ UNCHANGED <<remote, cache, lock, build, cmd, plan, todo, fetched, end, before>>

\* The lock is read: fetch starts a new one when it cannot be read, update gives
\* up, build and generate never look.
ReadLock(p) ==
    /\ pc[p] = "fetching" /\ todo[p] = {}
    /\ \/ /\ Readable(lock) \/ cmd[p] # "update"
          /\ snapshot' = [snapshot EXCEPT ![p] =
                 IF Readable(lock) THEN lock ELSE Lock(0, BlankDeps)]
          /\ Goto(p, "writing")
          /\ UNCHANGED end
       \/ /\ ~Readable(lock) /\ cmd[p] = "update"
          /\ End(p, "MissingLock")
          /\ UNCHANGED snapshot
    /\ UNCHANGED <<remote, cache, lock, build, cmd, plan, todo, fetched, before>>

\* sdkt build compiles and hashes the contracts; sdkt lock generate only hashes.
\* Neither records anything of a dependency beside its declaration.
GenerateLock(p) ==
    /\ pc[p] = "building"
    /\ \/ /\ \/ build < MaxBuild /\ build' = build + 1
             \/ build > 0 /\ UNCHANGED build
          /\ snapshot' = [snapshot EXCEPT ![p] = Lock(build', BlankDeps)]
          /\ Goto(p, "writing")
          /\ UNCHANGED end
       \/ /\ build = 0 \/ Faults
          /\ End(p, "ArtifactNotFound")
          /\ UNCHANGED <<build, snapshot>>
    /\ UNCHANGED <<remote, cache, lock, cmd, plan, todo, fetched, before>>

\* lock_dependencies_resolved: an entry per outcome, a blank one for the rest.
ResolvedEntry(p, d) ==
    IF fetched[p][d] = NoOutcome THEN BlankEntry
    ELSE [sha |-> fetched[p][d], integrity |-> Integrity(d)]

NewLock(p) ==
    IF cmd[p] = "generate" THEN snapshot[p]
    ELSE Lock(snapshot[p].contracts, [d \in Deps |-> ResolvedEntry(p, d)])

\* fs::write empties the file...
Truncate(p) ==
    /\ pc[p] = "writing"
    /\ snapshot' = [snapshot EXCEPT ![p] = NewLock(p)]
    /\ lock' = Truncated
    /\ Goto(p, "written")
    /\ UNCHANGED <<remote, cache, build, cmd, plan, todo, fetched, end, before>>

\* ... and then fills it from its start.  What another process has written in
\* between is overwritten; where it was longer its end remains, and the whole no
\* longer parses (a remainder that begins with an entry and repeats it included).
WriteLock(p) ==
    /\ pc[p] = "written"
    /\ lock' \in IF lock \in {Truncated, snapshot[p]} THEN {snapshot[p]} ELSE {snapshot[p], Torn}
    /\ End(p, "Ok")
    /\ UNCHANGED <<remote, cache, build, cmd, plan, todo, fetched, snapshot, before>>

\* What a write that is cut short leaves of l.  The contracts come first; without
\* all of them (0) there is no dependency, and inside a value nothing parses.
Part(l, whole, cut) ==
    Lock(l.contracts, [d \in Deps |-> IF d \in whole THEN l.deps[d]
                                     ELSE IF d \in cut THEN [l.deps[d] EXCEPT !.integrity = Blank]
                                     ELSE BlankEntry])

Prefixes(l) ==
    {Torn, Lock(0, BlankDeps)} \cup
    {Part(l, whole, cut) : whole \in SUBSET Declared, cut \in {{}} \cup {{d} : d \in Declared}}

\* The write fails, before the file was emptied, after it, or part of the way: an
\* error for update and generate, a warning for fetch and build; or the process
\* is killed there.
WriteFails(p) ==
    /\ Faults /\ pc[p] \in {"writing", "written"}
    /\ \E how \in {"WriteFailed", "Killed"} : End(p, how)
    /\ lock' \in {lock} \cup (IF pc[p] = "written" THEN Prefixes(snapshot[p]) ELSE {})
    /\ UNCHANGED <<remote, cache, build, cmd, plan, todo, fetched, snapshot, before>>

\* The process exits.
Exit(p) ==
    /\ pc[p] = "ended"
    /\ Goto(p, "idle")
    /\ cmd' = [cmd EXCEPT ![p] = "none"]
    /\ plan' = [plan EXCEPT ![p] = NoPlan]
    /\ todo' = [todo EXCEPT ![p] = {}]
    /\ fetched' = [fetched EXCEPT ![p] = NoOutcomes]
    /\ snapshot' = [snapshot EXCEPT ![p] = Missing]
    /\ end' = [end EXCEPT ![p] = "none"]
    /\ before' = [before EXCEPT ![p] = Missing]
    /\ UNCHANGED <<remote, cache, lock, build>>

Work(p) ==
    \/ PlanUpdates(p)
    \/ \E d \in Deps : \/ FetchPath(p, d) \/ FetchReuses(p, d) \/ FetchGit(p, d)
                       \/ FetchFails(p, d) \/ FetchHalfway(p, d)
    \/ ReadLock(p) \/ GenerateLock(p)
    \/ Truncate(p) \/ WriteLock(p) \/ WriteFails(p)
    \/ Exit(p)

\* The owner of the dependency pushes, moves the tag or releases a version; the
\* user edits the directory.
Push(d) ==
    /\ d \in Declared /\ remote[d] < MaxCommit
    /\ remote' = [remote EXCEPT ![d] = @ + 1]
    /\ UNCHANGED <<cache, lock, build, procVars>>

\* The workspace is cloned afresh: sdkt.lock is kept, .sdkt-cache is not.
DropCache ==
    /\ \A p \in Procs : pc[p] = "idle"
    /\ cache' = [k \in Keys |-> NoCheckout]
    /\ UNCHANGED <<remote, lock, build, procVars>>

Next ==
    /\ \/ \E p \in Procs : Start(p) \/ Work(p)
       \/ \E d \in Deps : Push(d)
       \/ DropCache
    /\ UNCHANGED setting

Spec == Init /\ [][Next]_vars /\ WF_work(\E p \in Procs : Work(p))

-----------------------------------------------------------------------------
\* Properties

\* All variables stay in their types.
TypeOK ==
    /\ setting \in Settings
    /\ remote \in [Deps -> Commits]
    /\ cache \in [Keys -> Checkouts]
    /\ lock \in LockFiles
    /\ build \in 0 .. MaxBuild
    /\ pc \in [Procs -> {"idle", "planning", "building", "fetching", "writing", "written", "ended"}]
    /\ cmd \in [Procs -> Commands \cup {"none"}]
    /\ plan \in [Procs -> [Deps -> [status : {"none", "Unchanged", "Pinned", "Constraint",
                                              "Updated", "Error"}, commit : Commits]]]
    /\ todo \in [Procs -> SUBSET Deps]
    /\ fetched \in [Procs -> [Deps -> Objects \cup {NoOutcome}]]
    /\ snapshot \in [Procs -> LockFiles] /\ before \in [Procs -> LockFiles]
    /\ end \in [Procs -> {"none", "Ok", "MissingLock", "Git", "DetachedBranch",
                          "GitUnavailable", "ArtifactNotFound", "WriteFailed", "Killed"}]

\* verify_dependencies: what `sdkt lock verify` says of the dependencies.
Verified ==
    /\ Readable(lock)
    /\ \A d \in Git : lock.deps[d].sha # Blank =>
         LET c == cache[ManifestKey(d)] IN
         /\ c.state # "absent"
         /\ c.head = lock.deps[d].sha
         /\ lock.deps[d].integrity # Blank => c.head = lock.deps[d].integrity

\* One command at a time.
OneAtATime == \A p, q \in Active : p = q

\* verify looks for the recorded object as the HEAD under the manifest's key: the
\* checkout of a version constraint has another key, and an annotated tag is
\* recorded by the object of the tag.
Comparable(d) == Kind[d] \notin {"version", "annotated"}

\* Right after a command that succeeded and wrote the lock.
Succeeded(p) == pc[p] = "ended" /\ end[p] = "Ok"

\* With one command at a time, a fetch or an update that succeeds leaves a lock
\* that `sdkt lock verify` accepts, whatever earlier commands failed at or were
\* killed in.
SyncedIsVerified ==
    OneAtATime /\ (\A d \in Git : Comparable(d)) =>
        \A p \in Procs : Succeeded(p) /\ cmd[p] # "generate" => Verified

\* Whatever the lock pins has been at the remote's reference, and a rev is never
\* pinned to anything else than itself, also when commands overlap.
LockedCommitsExisted ==
    Readable(lock) => \A d \in Git : lock.deps[d].sha # Blank =>
        \E n \in 1 .. IF Kind[d] = "rev" THEN 1 ELSE remote[d] :
            lock.deps[d].sha = ObjectOf(d, n)

\* With one command at a time, a command that does not succeed leaves sdkt.lock as
\* it found it; and where it failed or was killed inside the write, what can still
\* be read pins nothing but what the command fetched.
FailureKeepsLock ==
    OneAtATime =>
        \A p \in Procs : pc[p] = "ended" /\ end[p] # "Ok" =>
            \/ lock = before[p]
            \/ /\ end[p] \in {"WriteFailed", "Killed"}
               /\ Readable(lock) => \A d \in Git : lock.deps[d].sha \in {Blank, fetched[p][d]}

\* "contract artifacts and deploy order are never touched" (sync.rs): with one
\* command at a time, a fetch or an update that succeeds writes back the
\* contracts it found.
ContractsSurvive ==
    OneAtATime =>
        \A p \in Procs :
            Succeeded(p) /\ cmd[p] # "generate" /\ Readable(before[p])
                => lock.contracts = before[p].contracts

\* The same sentence where commands overlap: what a fetch or an update writes has
\* the contracts of the lock it replaces.  Not checked by any run: the lock is read
\* before it is emptied, and a build that ends in between is undone.
BuildsStay ==
    [][\A p \in Procs : Truncate(p) /\ cmd[p] # "generate" /\ Readable(lock) =>
          snapshot'[p].contracts = lock.contracts]_vars

\* sdkt.lock can be trusted: what a sync wrote is verified, and what is pinned
\* was once at the remote.
LockIsTrue == SyncedIsVerified /\ LockedCommitsExisted

\* With one command at a time none destroys what it does not own: not the lock when
\* it fails, not the pins when it is killed inside the write, and not the contracts.
NothingIsDestroyed == FailureKeepsLock /\ ContractsSurvive

\* With one command at a time no command moves a locked commit back to an older
\* one.
NoRollback ==
    [][OneAtATime /\ Readable(lock') => \A p \in Procs : Readable(before[p]) /\ WriteLock(p) =>
          \A d \in Git : lock'.deps[d].sha = Blank \/ lock'.deps[d].sha >= before[p].deps[d].sha]_vars

\* With one command at a time every command ends.
CommandsEnd ==
    OneAtATime /\ (\E p \in Procs : pc[p] # "idle") ~> \A p \in Procs : pc[p] = "idle"

\* "`tag`/`branch` update on drift": in a cache that only sdkt touches, no
\* update is refused because of the state of a branch's checkout.
BranchesCanUpdate == \A p \in Procs : end[p] # "DetachedBranch"
=============================================================================
