---------------------------- MODULE DeployOrder ----------------------------
(***************************************************************************)
(* resolve_deploy_order (sdkt-core project.rs): the contract graph of      *)
(* .sdkt.toml is validated alias by alias, in the arbitrary order of a     *)
(* HashMap, and handed to topo_sort (package.rs), Kahn's algorithm with a  *)
(* sorted queue.  The order it returns is walked by `sdkt build`, which    *)
(* compiles each contract, and by `sdkt project deploy`, which looks each  *)
(* artifact up.                                                            *)
(*                                                                         *)
(* Aliases are numbers: what the code needs of them is the order that      *)
(* queue.sort() uses.  The queue is sorted after every push and never      *)
(* holds an alias twice, so it is the set of its elements and its first    *)
(* element the least one.                                                  *)
(***************************************************************************)
EXTENDS Integers, Sequences, FiniteSets

CONSTANTS Names,      \* the names a manifest can use
          MaxDeps     \* bound: names listed by one contract

ASSUME NamesAssumption == Names \subseteq Nat /\ IsFiniteSet(Names)
ASSUME MaxDepsAssumption == MaxDeps \in Nat

VARIABLES contracts,  \* the aliases under [contracts]
          deps,       \* per alias, deploy_after followed by depends_on
          built,      \* the contracts that have a wasm artifact on disk
          command,    \* "build" or "deploy"
          lock,       \* the deploy_order of sdkt.lock
          pc, pending, graph, in_degree, queue, ordered, walked, result

manifest == <<contracts, deps, command>>
vars == <<contracts, deps, built, command, lock,
          pc, pending, graph, in_degree, queue, ordered, walked, result>>

DepLists == UNION {[1 .. n -> Names] : n \in 0 .. MaxDeps}

NoResult == [tag |-> "none"]
Ok == [tag |-> "Ok"]
Err(kind, name) == [tag |-> "Err", kind |-> kind, name |-> name]
Results ==
    {NoResult, Ok, [tag |-> "Err", kind |-> "MissingConfig"]}
        \cup {Err(k, n) : k \in {"Duplicate", "Self", "Unknown", "Circular",
                                 "BuildFailed", "BuildRequired"}, n \in Names}

Placed == {ordered[i] : i \in 1 .. Len(ordered)}

Finish(r) == pc' = "done" /\ result' = r

-----------------------------------------------------------------------------

\* Any manifest; a deployment may find any set of artifacts on disk, a build
\* starts from a clean workspace.
Init ==
    /\ contracts \in SUBSET Names
    /\ deps \in [contracts -> DepLists]
    /\ command \in {"build", "deploy"}
    /\ built \in IF command = "build" THEN {{}} ELSE SUBSET contracts
    /\ lock = <<>>
    /\ pending = contracts
    /\ graph = [a \in contracts |-> {}]
    /\ in_degree = [a \in contracts |-> 0]
    /\ queue = {} /\ ordered = <<>> /\ walked = 0
    /\ IF contracts = {}
       THEN pc = "done" /\ result = [tag |-> "Err", kind |-> "MissingConfig"]
       ELSE pc = "validate" /\ result = NoResult

\* What the loop over the merged list says of its i-th name.
Problem(a, i) ==
    LET dep == deps[a][i] IN
    IF \E j \in 1 .. i - 1 : deps[a][j] = dep THEN Err("Duplicate", a)
    ELSE IF dep = a THEN Err("Self", a)
    ELSE IF dep \notin contracts THEN Err("Unknown", dep)
    ELSE Ok

\* One round of the validation loop: the first problem ends the call.
Validate(a) ==
    /\ pc = "validate" /\ a \in pending
    /\ pending' = pending \ {a}
    /\ \/ /\ \A i \in DOMAIN deps[a] : Problem(a, i) = Ok
          /\ graph' = [graph EXCEPT ![a] = {deps[a][i] : i \in DOMAIN deps[a]}]
          /\ UNCHANGED <<pc, result>>
       \/ /\ \E i \in DOMAIN deps[a] :
               /\ Problem(a, i) # Ok
               /\ \A j \in 1 .. i - 1 : Problem(a, j) = Ok
               /\ Finish(Problem(a, i))
          /\ UNCHANGED graph
    /\ UNCHANGED <<manifest, lock, built, in_degree, queue, ordered, walked>>

\* topo_sort counts the dependencies and queues the contracts without any.
BeginSort ==
    /\ pc = "validate" /\ pending = {}
    /\ pc' = "sort"
    /\ in_degree' = [a \in contracts |-> Cardinality(graph[a])]
    /\ queue' = {a \in contracts : graph[a] = {}}
    /\ UNCHANGED <<manifest, lock, built, pending, graph, ordered, walked, result>>

\* current is placed, its dependents lose one degree each, and those that have
\* none left are queued.
Place(current) ==
    /\ ordered' = Append(ordered, current)
    /\ in_degree' = [a \in contracts |->
                        IF current \in graph[a] THEN in_degree[a] - 1 ELSE in_degree[a]]
    /\ queue' = (queue \ {current})
                    \cup {a \in contracts : current \in graph[a] /\ in_degree'[a] = 0}
    /\ UNCHANGED <<manifest, lock, built, pc, pending, graph, walked, result>>

\* Mutant: the queue is not sorted.
PopUnsorted(current) ==
    /\ pc = "sort" /\ current \in queue
    /\ Place(current)

\* One round of the while loop: it takes the first alias of the sorted queue.
Pop(current) ==
    /\ pc = "sort"
    /\ current \in queue /\ \A b \in queue : current <= b
    /\ Place(current)

\* Mutant: a short order is returned as it is.
EndSortIncomplete ==
    /\ pc = "sort" /\ queue = {}
    /\ pc' = "walk"
    /\ UNCHANGED <<manifest, lock, built, pending, graph, in_degree, queue, ordered, walked, result>>

\* With the queue empty, a short order means a cycle; the error names whichever
\* alias with a degree left the HashMap yields first.
EndSort ==
    /\ pc = "sort" /\ queue = {}
    /\ \/ /\ Len(ordered) = Cardinality(contracts)
          /\ pc' = "walk"
          /\ UNCHANGED result
       \/ /\ Len(ordered) # Cardinality(contracts)
          /\ \E a \in contracts : in_degree[a] > 0 /\ Finish(Err("Circular", a))
    /\ UNCHANGED <<manifest, lock, built, pending, graph, in_degree, queue, ordered, walked>>

\* build_workspace compiles the contracts in that order and stops at the first
\* failure; what was compiled stays on disk.
BuildNext ==
    /\ pc = "walk" /\ command = "build" /\ walked < Len(ordered)
    /\ LET a == ordered[walked + 1] IN
         \/ /\ built' = built \cup {a}
            /\ walked' = walked + 1
            /\ UNCHANGED <<pc, result>>
         \/ /\ Finish(Err("BuildFailed", a))
            /\ UNCHANGED <<built, walked>>
    /\ UNCHANGED <<manifest, lock, pending, graph, in_degree, queue, ordered>>

\* resolve_project needs an artifact for every contract.
ResolveNext ==
    /\ pc = "walk" /\ command = "deploy" /\ walked < Len(ordered)
    /\ LET a == ordered[walked + 1] IN
         \/ /\ a \in built
            /\ walked' = walked + 1
            /\ UNCHANGED <<pc, result>>
         \/ /\ a \notin built
            /\ Finish(Err("BuildRequired", a))
            /\ UNCHANGED walked
    /\ UNCHANGED <<manifest, lock, built, pending, graph, in_degree, queue, ordered>>

\* A finished build writes sdkt.lock, unless generating or writing it fails,
\* which is only a warning.
EndWalk ==
    /\ pc = "walk" /\ walked = Len(ordered)
    /\ Finish(Ok)
    /\ \/ command = "build" /\ lock' = ordered
       \/ UNCHANGED lock
    /\ UNCHANGED <<manifest, built, pending, graph, in_degree, queue, ordered, walked>>

Step ==
    \/ \E a \in Names : Validate(a)
    \/ BeginSort
    \/ \E a \in Names : Pop(a)
    \/ EndSort
    \/ BuildNext
    \/ ResolveNext
    \/ EndWalk

Terminated == pc = "done" /\ UNCHANGED vars

Next == Step \/ Terminated

Spec == Init /\ [][Next]_vars /\ WF_vars(Step)

-----------------------------------------------------------------------------
\* Properties

\* All variables stay in their types; in particular no in-degree, a usize, is
\* ever decremented below zero.
TypeOK ==
    /\ contracts \subseteq Names
    /\ deps \in [contracts -> DepLists]
    /\ built \subseteq contracts
    /\ command \in {"build", "deploy"}
    /\ pc \in {"validate", "sort", "walk", "done"}
    /\ pending \subseteq contracts
    /\ graph \in [contracts -> SUBSET contracts]
    /\ in_degree \in [contracts -> Nat]
    /\ queue \subseteq contracts
    /\ ordered \in Seq(contracts)
    /\ lock \in Seq(contracts)
    /\ walked \in 0 .. Len(ordered)
    /\ result \in Results

\* The order, finished or not, lists no contract twice and every contract only
\* after all the names its manifest entry depends on.
OrderRespectsDependencies ==
    \A i \in 1 .. Len(ordered) :
        /\ \A j \in 1 .. i - 1 : ordered[j] # ordered[i]
        /\ \A k \in DOMAIN deps[ordered[i]] :
               \E j \in 1 .. i - 1 : ordered[j] = deps[ordered[i]][k]

\* The order that build and deploy walk names every contract of the manifest.
WalksEverything == pc = "walk" => Placed = contracts

\* The topological orders of the validated graph, and the dictionary order on
\* them: the reference for what "deterministic" can mean.
TopologicalOrders ==
    {p \in [1 .. Cardinality(contracts) -> contracts] :
        \A i \in DOMAIN p :
            /\ \A j \in 1 .. i - 1 : p[j] # p[i]
            /\ graph[p[i]] \subseteq {p[j] : j \in 1 .. i - 1}}

Before(p, q) ==
    \E i \in DOMAIN p : p[i] < q[i] /\ \A j \in 1 .. i - 1 : p[j] = q[j]

\* The order is a function of the manifest alone, whatever order the HashMaps
\* iterate in: the first topological order in dictionary order.
OrderIsDeterministic ==
    pc = "walk" => \A p \in TopologicalOrders : ~Before(p, ordered)

\* A contract comes after what it depends on, and of all such orders the first is
\* taken, whatever order the HashMaps iterate in.
OrderIsTheFirst == OrderRespectsDependencies /\ OrderIsDeterministic

\* A set of contracts each of which depends on another of the set: one exists
\* exactly if the graph has a cycle.
Cyclic(S) == S # {} /\ \A a \in S : graph[a] \cap S # {}

\* resolve_deploy_order reports a circular dependency only when there is one...
CircularMeansCycle ==
    (result.tag = "Err" /\ "name" \in DOMAIN result /\ result.kind = "Circular")
        => \E S \in SUBSET contracts : Cyclic(S)

\* ... and never lets a cyclic graph through.
WalkMeansAcyclic ==
    pc = "walk" => \A S \in SUBSET contracts : ~Cyclic(S)

\* The verdict on cycles is exact.
CyclesAreFound == CircularMeansCycle /\ WalkMeansAcyclic

\* However far a build of a clean workspace gets, everything a compiled
\* contract depends on is compiled too.
BuiltIsClosed ==
    command = "build" => \A a \in built : graph[a] \subseteq built

-----------------------------------------------------------------------------
\* The inductive invariant of WorkspaceProofs: its conjuncts beside the
\* properties above.

\* The elements of the order before position i.
Prefix(i) == {ordered[j] : j \in 1 .. i - 1}

\* Validated aliases have their names as edges, and sorting starts from nothing
\* placed once all are validated.
GraphIsManifest ==
    /\ pc # "done" => \A a \in contracts \ pending :
                         graph[a] = {deps[a][i] : i \in DOMAIN deps[a]}
    /\ pc \in {"sort", "walk"} => pending = {}
    /\ pc = "validate" => ordered = <<>>
    /\ pc # "done" => result = NoResult

\* A degree counts the dependencies not placed yet, and the queue holds exactly
\* the contracts that have none left.
QueueIsExact ==
    pc = "sort" =>
        /\ \A a \in contracts : in_degree[a] = Cardinality(graph[a] \ Placed)
        /\ queue = {a \in contracts \ Placed : graph[a] \subseteq Placed}

\* Every placed contract came after its edges, was the least one possible, and
\* counts once.
OrderIsGreedy ==
    /\ \A i \in 1 .. Len(ordered) :
          /\ ordered[i] \notin Prefix(i)
          /\ graph[ordered[i]] \subseteq Prefix(i)
          /\ \A a \in contracts \ Prefix(i) :
                graph[a] \subseteq Prefix(i) => ordered[i] <= a
    /\ IsFiniteSet(Placed) /\ Cardinality(Placed) = Len(ordered)

\* A contract on a cycle is never placed.
CyclesStayOut ==
    \A S \in SUBSET contracts : Cyclic(S) => S \cap Placed = {}

\* A build has compiled what it has walked over.
BuiltIsWalked ==
    command = "build" => /\ pc \in {"validate", "sort"} => walked = 0
                         /\ built = {ordered[j] : j \in 1 .. walked}

IInv ==
    /\ TypeOK
    /\ GraphIsManifest
    /\ QueueIsExact
    /\ OrderIsGreedy
    /\ CyclesStayOut
    /\ BuiltIsWalked
    /\ OrderRespectsDependencies
    /\ WalksEverything
    /\ CircularMeansCycle
=============================================================================
