-------------------------- MODULE WorkspaceProofs --------------------------
(***************************************************************************)
(* What is promised of a workspace before and around its deployment, for   *)
(* every manifest, plugin, source tree and artifact: the deploy order, the *)
(* plugin store, the audit and its gate, and the verdict of a release.     *)
(***************************************************************************)
EXTENDS Integers, DeployOrder, PluginStore, Audit, Release, FiniteSetTheorems, SequenceTheorems, TLAPS

\* Induction over the positions of a sequence.
LEMMA Induction ==
    ASSUME NEW n \in Nat, NEW P, 0 \in P, \A i \in 0..(n - 1) : i \in P => i + 1 \in P
    PROVE  0..n \subseteq P
PROOF
<1>1. PICK R : IsWellFoundedOn(R, Nat) /\ \A x, y \in Nat : x < y => <<x, y>> \in R
  <2> DEFINE less == OpToRel(<, Nat)
  <2>1. IsWellFoundedOn(less, Nat)  BY NatLessThanWellFounded
  <2>2. \A x, y \in Nat : x < y => <<x, y>> \in less  BY Zenon DEF OpToRel
  <2> HIDE DEF less
  <2> QED BY <2>1, <2>2, Zenon
<1> DEFINE S == {i \in 0..n : i \notin P}
<1>2. SUFFICES ASSUME S # {}  PROVE FALSE  OBVIOUS
<1>3. S \subseteq Nat /\ IsWellFoundedOn(R, Nat)  BY <1>1
<1> HIDE DEF S
<1>4. PICK m \in S : \A y \in S : ~(<<y, m>> \in R)  BY <1>2, <1>3, WFMin, Zenon
<1> USE DEF S
<1>5. m \in 0..n /\ m \notin P /\ m # 0  BY <1>4
<1>6. m - 1 \in 0..(n - 1) /\ m - 1 \in Nat /\ m \in Nat /\ m - 1 < m /\ (m - 1) + 1 = m  BY <1>5
<1>7. m - 1 \notin S  BY <1>1, <1>4, <1>6, Zenon
<1>8. m - 1 \in P  BY <1>6, <1>7
<1> QED BY <1>5, <1>6, <1>8

-----------------------------------------------------------------------------
(* The deploy order: it respects the dependencies, names every contract and depends on nothing but the
   manifest, and is an error exactly when there is a cycle. *)

\* Every set of contracts is finite.
LEMMA ContractsFinite ==
  ASSUME TypeOK, NEW S \in SUBSET contracts
  PROVE  IsFiniteSet(S) /\ Cardinality(S) \in Nat
<1>1. S \in SUBSET Names
  BY DEF TypeOK
<1>2. IsFiniteSet(S)
  BY <1>1, NamesAssumption, FS_Subset
<1> QED
  BY <1>2, FS_CardinalityType

\* The initial state satisfies the inductive invariant.
LEMMA InitIInv == Init => IInv
<1> SUFFICES ASSUME Init PROVE IInv
  OBVIOUS
<1>1. ordered = <<>> /\ Len(ordered) = 0 /\ Placed = {}
  BY DEF Init, Placed
<1>2. TypeOK
  BY DEF Init, TypeOK, Results, NoResult
<1>3. OrderIsGreedy
  BY <1>1, FS_EmptySet DEF OrderIsGreedy
<1>4. result.tag = "Err" => "name" \notin DOMAIN result
  BY DEF Init, NoResult
<1> QED
  BY <1>1, <1>2, <1>3, <1>4
     DEF Init, IInv, GraphIsManifest, QueueIsExact, CyclesStayOut, BuiltIsWalked,
         OrderRespectsDependencies, WalksEverything, CircularMeansCycle

\* A step that leaves graph, order and manifest alone keeps what is said of them.
LEMMA OrderUnchanged ==
  ASSUME IInv, UNCHANGED <<contracts, deps, graph, ordered>>
  PROVE  OrderIsGreedy' /\ CyclesStayOut' /\ OrderRespectsDependencies'
<1>1. OrderIsGreedy /\ CyclesStayOut /\ OrderRespectsDependencies
  BY DEF IInv
<1>2. contracts' = contracts /\ deps' = deps /\ graph' = graph /\ ordered' = ordered
  OBVIOUS
<1>3. OrderIsGreedy'
  <2>1. Placed' = Placed
    BY <1>2 DEF Placed
  <2>2. \A i \in 1 .. Len(ordered) : Prefix(i)' = Prefix(i)
    BY <1>2 DEF Prefix
  <2> QED
    BY <1>1, <1>2, <2>1, <2>2 DEF OrderIsGreedy
<1>4. CyclesStayOut'
  BY <1>1, <1>2 DEF CyclesStayOut, Placed, Cyclic
<1>5. OrderRespectsDependencies'
  <2> DEFINE Respects(o, d) ==
        \A i \in 1 .. Len(o) :
          /\ \A j \in 1 .. (i - 1) : o[j] # o[i]
          /\ \A k \in DOMAIN d[o[i]] : \E j \in 1 .. (i - 1) : o[j] = d[o[i]][k]
  <2>1. Respects(ordered, deps)
    BY <1>1 DEF OrderRespectsDependencies
  <2>2. Respects(ordered', deps') => OrderRespectsDependencies'
    BY DEF OrderRespectsDependencies
  <2> HIDE DEF Respects
  <2> QED
    BY <1>2, <2>1, <2>2
<1> QED
  BY <1>3, <1>4, <1>5

\* One round of validation.
LEMMA ValidateKeeps ==
  ASSUME IInv, NEW a \in Names, Validate(a) PROVE IInv'
<1> USE DEF Validate, manifest
<1>1. /\ pc = "validate" /\ ordered = <<>> /\ ordered' = <<>> /\ a \in contracts
      /\ walked = 0
  BY DEF IInv, GraphIsManifest, TypeOK
<1>2. Placed = {} /\ Placed' = {} /\ Len(ordered') = 0
  BY <1>1 DEF Placed
<1>3. CASE /\ \A i \in DOMAIN deps[a] : Problem(a, i) = Ok
           /\ graph' = [graph EXCEPT ![a] = {deps[a][i] : i \in DOMAIN deps[a]}]
           /\ UNCHANGED <<pc, result>>
  <2>1. \A i \in DOMAIN deps[a] : deps[a][i] \in contracts
    BY <1>3 DEF Problem, Ok, Err
  <2>2. TypeOK'
    BY <1>3, <2>1 DEF IInv, TypeOK
  <2>3. GraphIsManifest'
    BY <1>1, <1>3 DEF IInv, TypeOK, GraphIsManifest
  <2>4. CircularMeansCycle'
    BY <1>1, <1>3 DEF IInv, GraphIsManifest, CircularMeansCycle, NoResult
  <2> QED
    BY <1>1, <1>2, <1>3, <2>2, <2>3, <2>4, FS_EmptySet
       DEF IInv, QueueIsExact, OrderIsGreedy, CyclesStayOut, BuiltIsWalked,
           OrderRespectsDependencies, WalksEverything
<1>4. CASE /\ \E i \in DOMAIN deps[a] :
                /\ Problem(a, i) # Ok
                /\ Finish(Problem(a, i))
           /\ UNCHANGED graph
  <2>1. PICK i \in DOMAIN deps[a] : Problem(a, i) # Ok /\ Finish(Problem(a, i))
    BY <1>4
  <2>2. deps[a][i] \in Names
    <3>1. deps[a] \in DepLists
      BY <1>1 DEF IInv, TypeOK
    <3>2. PICK n \in 0 .. MaxDeps : deps[a] \in [1 .. n -> Names]
      BY <3>1 DEF DepLists
    <3> QED
      BY <3>2
  <2>3. result' \in {Err("Duplicate", a), Err("Self", a), Err("Unknown", deps[a][i])}
    BY <2>1 DEF Problem, Finish
  <2>4. result' \in Results /\ pc' = "done"
    BY <2>1, <2>2, <2>3 DEF Results, Finish
  <2>5. result'.kind # "Circular"
    BY <2>3 DEF Err
  <2>6. TypeOK'
    BY <1>4, <2>4 DEF IInv, TypeOK
  <2> QED
    BY <1>1, <1>4, <2>4, <2>5, <2>6, OrderUnchanged
       DEF IInv, GraphIsManifest, QueueIsExact, BuiltIsWalked, WalksEverything,
           CircularMeansCycle
<1> QED
  BY <1>3, <1>4

\* The degrees and the queue start out exact.
LEMMA BeginSortKeeps ==
  ASSUME IInv, BeginSort PROVE IInv'
<1> USE DEF BeginSort, manifest
<1>1. ordered = <<>> /\ Placed' = {}
  BY DEF IInv, GraphIsManifest, Placed
<1>2. \A a \in contracts : Cardinality(graph[a]) \in Nat
  BY ContractsFinite DEF IInv, TypeOK
<1>3. TypeOK'
  BY <1>2 DEF IInv, TypeOK
<1>4. QueueIsExact'
  <2>1. \A a \in contracts : graph[a] \ Placed' = graph[a]
    BY <1>1
  <2> QED
    BY <1>1, <2>1 DEF QueueIsExact
<1>5. OrderIsGreedy' /\ CyclesStayOut' /\ OrderRespectsDependencies'
  BY OrderUnchanged
<1>6. GraphIsManifest' /\ WalksEverything'
  BY DEF IInv, GraphIsManifest, WalksEverything
<1>7. BuiltIsWalked'
  BY DEF IInv, BuiltIsWalked
<1>8. CircularMeansCycle'
  BY DEF IInv, CircularMeansCycle, Cyclic
<1> QED
  BY <1>3, <1>4, <1>5, <1>6, <1>7, <1>8 DEF IInv

\* What placing the first alias of the queue does to the order.
LEMMA PopPlaces ==
  ASSUME IInv, NEW c \in Names, Pop(c)
  PROVE  /\ c \in contracts \ Placed /\ graph[c] \subseteq Placed
         /\ Len(ordered') = Len(ordered) + 1
         /\ Len(ordered) \in Nat
         /\ \A i \in 1 .. Len(ordered) : ordered'[i] = ordered[i]
         /\ ordered'[Len(ordered) + 1] = c
         /\ Placed' = Placed \cup {c}
         /\ \A i \in 1 .. Len(ordered) : Prefix(i)' = Prefix(i)
         /\ \A i : i = Len(ordered) + 1 => Prefix(i)' = Placed
<1> USE DEF Pop, Place
<1>1. c \in contracts \ Placed /\ graph[c] \subseteq Placed
  BY DEF IInv, QueueIsExact
<1>2. ordered \in Seq(contracts) /\ ordered' = Append(ordered, c)
  BY DEF IInv, TypeOK
<1>3. /\ Len(ordered) \in Nat /\ Len(ordered') = Len(ordered) + 1
      /\ \A i \in 1 .. Len(ordered) : ordered'[i] = ordered[i]
      /\ ordered'[Len(ordered) + 1] = c
  BY <1>1, <1>2
<1>4. Placed' = Placed \cup {c}
  BY <1>3 DEF Placed
<1>5. \A i \in 1 .. Len(ordered) : Prefix(i)' = Prefix(i)
  BY <1>3 DEF Prefix
<1>6. \A i : i = Len(ordered) + 1 => Prefix(i)' = Placed
  <2>1. {ordered'[j] : j \in 1 .. Len(ordered)} = Placed
    BY <1>3 DEF Placed
  <2>2. (Len(ordered) + 1) - 1 = Len(ordered)
    BY <1>3
  <2> QED
    BY <2>1, <2>2 DEF Prefix
<1> QED
  BY <1>1, <1>3, <1>4, <1>5, <1>6

\* The degrees and the queue stay exact.
LEMMA PopKeepsQueue ==
  ASSUME IInv, NEW c \in Names, Pop(c)
  PROVE  /\ in_degree' \in [contracts -> Nat] /\ queue' \subseteq contracts
         /\ QueueIsExact'
<1> USE DEF Pop, Place, manifest
<1>1. c \in contracts \ Placed /\ graph[c] \subseteq Placed /\ Placed' = Placed \cup {c}
  BY PopPlaces
<1>2. ASSUME NEW a \in contracts
      PROVE  in_degree'[a] = Cardinality(graph[a] \ Placed') /\ in_degree'[a] \in Nat
  <2> DEFINE Left == graph[a] \ Placed
  <2>1. IsFiniteSet(Left) /\ in_degree[a] = Cardinality(Left)
    BY ContractsFinite DEF IInv, TypeOK, QueueIsExact
  <2>2. graph[a] \ Placed' = Left \ {c}
    BY <1>1
  <2>3. IsFiniteSet(Left \ {c})
        /\ Cardinality(Left \ {c}) = IF c \in Left THEN Cardinality(Left) - 1 ELSE Cardinality(Left)
    BY <2>1, FS_RemoveElement
  <2>4. c \in Left <=> c \in graph[a]
    BY <1>1
  <2>5. Cardinality(Left \ {c}) \in Nat
    BY <2>3, FS_CardinalityType
  <2> HIDE DEF Left
  <2> QED
    BY <2>1, <2>2, <2>3, <2>4, <2>5
<1>3. ASSUME NEW a \in contracts, c \in graph[a]
      PROVE  a \notin Placed'
  <2>1. a # c
    BY <1>1, <1>3
  <2>2. \A b \in Placed : graph[b] \subseteq Placed
    <3>1. \A i \in 1 .. Len(ordered) : graph[ordered[i]] \subseteq Prefix(i)
      BY DEF IInv, OrderIsGreedy
    <3>2. \A i \in 1 .. Len(ordered) : Prefix(i) \subseteq Placed
      BY DEF Prefix, Placed, IInv, TypeOK
    <3> QED
      BY <3>1, <3>2 DEF Placed
  <2> QED
    BY <1>1, <1>3, <2>1, <2>2
<1>4. ASSUME NEW a \in contracts
      PROVE  in_degree'[a] = 0 <=> graph[a] \subseteq Placed'
  <2>1. IsFiniteSet(graph[a] \ Placed')
    BY ContractsFinite DEF IInv, TypeOK
  <2>2. in_degree'[a] = 0 <=> graph[a] \ Placed' = {}
    BY <1>2, <2>1, FS_EmptySet
  <2> QED
    BY <2>2
<1>5. queue' = {a \in contracts \ Placed' : graph[a] \subseteq Placed'}
  <2>1. queue = {a \in contracts \ Placed : graph[a] \subseteq Placed}
    BY DEF IInv, QueueIsExact
  <2>2. queue' = (queue \ {c})
                    \cup {a \in contracts : c \in graph[a] /\ in_degree'[a] = 0}
    OBVIOUS
  <2>3. ASSUME NEW a \in queue'
        PROVE  a \in contracts \ Placed' /\ graph[a] \subseteq Placed'
    BY <1>1, <1>3, <1>4, <2>1, <2>2, <2>3
  <2>4. ASSUME NEW a \in contracts \ Placed', graph[a] \subseteq Placed'
        PROVE  a \in queue'
    BY <1>1, <1>4, <2>1, <2>2, <2>4
  <2> QED
    BY <2>3, <2>4
<1> QED
  BY <1>2, <1>5 DEF QueueIsExact, IInv, TypeOK

\* The order stays greedy, topological, free of cycles and without repetition.
LEMMA PopKeepsOrder ==
  ASSUME IInv, NEW c \in Names, Pop(c)
  PROVE  OrderIsGreedy' /\ CyclesStayOut' /\ OrderRespectsDependencies'
<1> USE DEF Pop, Place, manifest
<1> DEFINE n == Len(ordered)
<1>1. /\ c \in contracts \ Placed /\ graph[c] \subseteq Placed
      /\ n \in Nat /\ Len(ordered') = n + 1
      /\ \A i \in 1 .. n : ordered'[i] = ordered[i]
      /\ ordered'[n + 1] = c
      /\ Placed' = Placed \cup {c}
      /\ \A i \in 1 .. n : Prefix(i)' = Prefix(i)
      /\ \A i : i = n + 1 => Prefix(i)' = Placed
  BY PopPlaces
<1>2. IsFiniteSet(Placed') /\ Cardinality(Placed') = Len(ordered')
  <2>1. IsFiniteSet(Placed) /\ Cardinality(Placed) = n
    BY DEF IInv, OrderIsGreedy
  <2>2. IsFiniteSet(Placed \cup {c}) /\ Cardinality(Placed \cup {c}) = Cardinality(Placed) + 1
    BY <1>1, <2>1, FS_AddElement
  <2> QED
    BY <1>1, <2>1, <2>2
<1>3. ASSUME NEW i \in 1 .. Len(ordered')
      PROVE  /\ ordered'[i] \notin Prefix(i)'
             /\ graph[ordered'[i]] \subseteq Prefix(i)'
             /\ \A a \in contracts \ Prefix(i)' :
                   graph[a] \subseteq Prefix(i)' => ordered'[i] <= a
  <2>1. CASE i \in 1 .. n
    BY <1>1, <2>1 DEF IInv, OrderIsGreedy
  <2>2. CASE i = n + 1
    <3>1. ASSUME NEW a \in contracts \ Placed, graph[a] \subseteq Placed
          PROVE  c <= a
      BY <3>1 DEF IInv, QueueIsExact
    <3> QED
      BY <1>1, <2>2, <3>1
  <2> QED
    BY <1>1, <2>1, <2>2
<1>4. OrderIsGreedy'
  BY <1>2, <1>3 DEF OrderIsGreedy
<1>5. CyclesStayOut'
  <2> SUFFICES ASSUME NEW S \in SUBSET contracts, Cyclic(S)
               PROVE  S \cap Placed' = {}
    BY DEF CyclesStayOut, Cyclic
  <2>1. S \cap Placed = {}
    BY DEF IInv, CyclesStayOut
  <2>2. c \notin S
    BY <1>1, <2>1 DEF Cyclic
  <2> QED
    BY <1>1, <2>1, <2>2
<1>6. ASSUME NEW i \in 1 .. Len(ordered'), NEW k \in DOMAIN deps[ordered'[i]]
      PROVE  \E j \in 1 .. i - 1 : ordered'[j] = deps[ordered'[i]][k]
  <2>1. ordered'[i] \in contracts
    <3>1. \A j \in 1 .. n : ordered[j] \in contracts
      BY DEF IInv, TypeOK
    <3>2. i \in 1 .. n \/ i = n + 1
      BY <1>1
    <3> QED
      BY <1>1, <3>1, <3>2
  <2>2. deps[ordered'[i]][k] \in graph[ordered'[i]]
    BY <2>1 DEF IInv, GraphIsManifest
  <2>3. deps[ordered'[i]][k] \in Prefix(i)'
    BY <1>3, <2>2
  <2> QED
    BY <2>3 DEF Prefix
<1>7. ASSUME NEW i \in 1 .. Len(ordered'), NEW j \in 1 .. i - 1
      PROVE  ordered'[j] # ordered'[i]
  BY <1>3 DEF Prefix
<1> QED
  BY <1>4, <1>5, <1>6, <1>7 DEF OrderRespectsDependencies

LEMMA PopKeeps ==
  ASSUME IInv, NEW c \in Names, Pop(c) PROVE IInv'
<1>1. TypeOK'
  <2>1. Len(ordered') = Len(ordered) + 1 /\ Len(ordered) \in Nat /\ c \in contracts
    BY PopPlaces
  <2>2. ordered' \in Seq(contracts)
    BY <2>1 DEF IInv, TypeOK, Pop, Place
  <2>3. walked' \in 0 .. Len(ordered')
    BY <2>1 DEF IInv, TypeOK, Pop, Place
  <2> QED
    BY <2>2, <2>3, PopKeepsQueue DEF IInv, TypeOK, Pop, Place, manifest
<1>2. BuiltIsWalked'
  BY DEF IInv, TypeOK, BuiltIsWalked, Pop, Place, manifest
<1>3. GraphIsManifest' /\ WalksEverything'
  BY DEF IInv, GraphIsManifest, WalksEverything, Pop, Place, manifest
<1>4. CircularMeansCycle'
  BY DEF IInv, CircularMeansCycle, Pop, Place, manifest, Cyclic
<1> QED
  BY <1>1, <1>2, <1>3, <1>4, PopKeepsQueue, PopKeepsOrder DEF IInv

\* The verdict: a full order is walked, a short one is a cycle.
LEMMA EndSortKeeps ==
  ASSUME IInv, EndSort PROVE IInv'
<1> USE DEF EndSort, manifest
<1>1. OrderIsGreedy' /\ CyclesStayOut' /\ OrderRespectsDependencies'
  BY OrderUnchanged
<1>2. Placed' = Placed /\ Placed \subseteq contracts
  BY DEF Placed, IInv, TypeOK
<1>3. QueueIsExact' /\ BuiltIsWalked'
  BY DEF IInv, QueueIsExact, BuiltIsWalked, Finish
<1>4. CASE Len(ordered) = Cardinality(contracts) /\ pc' = "walk" /\ UNCHANGED result
  <2>1. Placed = contracts
    BY <1>2, <1>4, ContractsFinite, FS_Subset DEF IInv, OrderIsGreedy
  <2>2. TypeOK'
    BY <1>4 DEF IInv, TypeOK
  <2> QED
    BY <1>1, <1>2, <1>3, <1>4, <2>1, <2>2
       DEF IInv, GraphIsManifest, WalksEverything, CircularMeansCycle, Cyclic
<1>5. CASE /\ Len(ordered) # Cardinality(contracts)
           /\ \E a \in contracts : in_degree[a] > 0 /\ Finish(Err("Circular", a))
  <2> DEFINE S == contracts \ Placed
  <2>1. S # {}
    BY <1>2, <1>5 DEF IInv, OrderIsGreedy
  <2>2. \A a \in S : graph[a] \cap S # {}
    BY DEF IInv, TypeOK, QueueIsExact
  <2>3. Cyclic(S)'
    BY <1>2, <2>1, <2>2 DEF Cyclic
  <2>4. CircularMeansCycle'
    BY <2>3 DEF CircularMeansCycle
  <2>5. TypeOK'
    BY <1>5 DEF IInv, TypeOK, Finish, Results
  <2>6. pc' = "done"
    BY <1>5 DEF Finish
  <2> QED
    BY <1>1, <1>3, <2>4, <2>5, <2>6 DEF IInv, GraphIsManifest, WalksEverything
<1> QED
  BY <1>4, <1>5

\* The walks of build and deploy, and their end.
LEMMA WalkKeeps ==
  ASSUME IInv, BuildNext \/ ResolveNext \/ EndWalk PROVE IInv'
<1> USE DEF manifest
<1>1. OrderIsGreedy' /\ CyclesStayOut' /\ OrderRespectsDependencies'
  BY OrderUnchanged DEF BuildNext, ResolveNext, EndWalk
<1>2. Placed' = Placed /\ pc = "walk" /\ pc' \in {"walk", "done"}
  BY DEF Placed, BuildNext, ResolveNext, EndWalk, Finish, IInv, TypeOK
<1>3. GraphIsManifest' /\ QueueIsExact' /\ WalksEverything'
  <2>1. UNCHANGED <<contracts, deps, graph, pending, ordered>>
    BY DEF BuildNext, ResolveNext, EndWalk
  <2>2. pc' # "done" => UNCHANGED result
    BY <1>2 DEF BuildNext, ResolveNext, EndWalk, Finish
  <2>3. GraphIsManifest'
    BY <1>2, <2>1, <2>2 DEF IInv, GraphIsManifest
  <2> QED
    BY <1>2, <2>1, <2>3 DEF IInv, QueueIsExact, WalksEverything
<1>4. ASSUME walked < Len(ordered)
      PROVE  ordered[walked + 1] \in contracts /\ ordered[walked + 1] \in Names
  BY <1>4 DEF IInv, TypeOK
<1>5. TypeOK' /\ CircularMeansCycle' /\ BuiltIsWalked'
  <2>1. CASE BuildNext
    <3>1. TypeOK'
      BY <1>4, <2>1 DEF BuildNext, IInv, TypeOK, Finish, Results
    <3>2. CircularMeansCycle'
      BY <2>1 DEF BuildNext, IInv, CircularMeansCycle, Finish, Err, Cyclic
    <3>3. BuiltIsWalked'
      <4>1. CASE UNCHANGED <<built, walked>>
        BY <1>2, <2>1, <4>1 DEF BuildNext, IInv, BuiltIsWalked
      <4>2. CASE built' = built \cup {ordered[walked + 1]} /\ walked' = walked + 1
        <5>1. {ordered[j] : j \in 1 .. walked + 1}
                 = {ordered[j] : j \in 1 .. walked} \cup {ordered[walked + 1]}
          BY DEF IInv, TypeOK
        <5> QED
          BY <1>2, <2>1, <4>2, <5>1 DEF BuildNext, IInv, BuiltIsWalked
      <4> QED
        BY <2>1, <4>1, <4>2 DEF BuildNext
    <3> QED
      BY <3>1, <3>2, <3>3
  <2>2. CASE ResolveNext
    <3>1. TypeOK'
      BY <1>4, <2>2 DEF ResolveNext, IInv, TypeOK, Finish, Results
    <3>2. CircularMeansCycle'
      BY <2>2 DEF ResolveNext, IInv, CircularMeansCycle, Finish, Err, Cyclic
    <3> QED
      BY <2>2, <3>1, <3>2 DEF ResolveNext, BuiltIsWalked
  <2>3. CASE EndWalk
    <3>1. TypeOK'
      BY <2>3 DEF EndWalk, IInv, TypeOK, Finish, Results
    <3>2. CircularMeansCycle'
      BY <2>3 DEF EndWalk, IInv, CircularMeansCycle, Finish, Ok
    <3> QED
      BY <1>2, <2>3, <3>1, <3>2 DEF EndWalk, IInv, BuiltIsWalked
  <2> QED
    BY <2>1, <2>2, <2>3
<1> QED
  BY <1>1, <1>3, <1>5 DEF IInv

\* Every reachable state satisfies the inductive invariant.
LEMMA Invariance == Spec => []IInv
<1>1. IInv /\ [Next]_vars => IInv'
  <2> SUFFICES ASSUME IInv, [Next]_vars PROVE IInv'
    OBVIOUS
  <2>1. ASSUME NEW a \in Names, Validate(a) PROVE IInv'
    BY <2>1, ValidateKeeps
  <2>2. CASE BeginSort
    BY <2>2, BeginSortKeeps
  <2>3. ASSUME NEW a \in Names, Pop(a) PROVE IInv'
    BY <2>3, PopKeeps
  <2>4. CASE EndSort
    BY <2>4, EndSortKeeps
  <2>5. CASE BuildNext \/ ResolveNext \/ EndWalk
    BY <2>5, WalkKeeps
  <2>6. CASE UNCHANGED vars
    <3>1. OrderIsGreedy' /\ CyclesStayOut' /\ OrderRespectsDependencies'
      BY <2>6, OrderUnchanged DEF vars
    <3>2. Placed' = Placed
      BY <2>6 DEF vars, Placed
    <3>3. TypeOK' /\ BuiltIsWalked'
      BY <2>6 DEF vars, IInv, TypeOK, BuiltIsWalked
    <3>4. GraphIsManifest' /\ CircularMeansCycle'
      BY <2>6 DEF vars, IInv, GraphIsManifest, CircularMeansCycle, Cyclic
    <3>5. QueueIsExact' /\ WalksEverything'
      BY <2>6, <3>2 DEF vars, IInv, QueueIsExact, WalksEverything
    <3> QED
      BY <3>1, <3>3, <3>4, <3>5 DEF IInv
  <2> QED
    BY <2>1, <2>2, <2>3, <2>4, <2>5, <2>6 DEF Next, Step, Terminated
<1> QED
  BY <1>1, InitIInv, PTL DEF Spec

\* Type correctness of topo_sort and its callers; no degree, a usize, is
\* decremented below zero.
THEOREM TypeCorrect == Spec => []TypeOK
  BY Invariance, PTL DEF IInv

\* The order never lists a contract before a name its manifest entry depends on.
THEOREM DependenciesFirst == Spec => []OrderRespectsDependencies
  BY Invariance, PTL DEF IInv

\* The order that build, deploy and lock walk names every contract.
THEOREM NothingForgotten == Spec => []WalksEverything
  BY Invariance, PTL DEF IInv

\* The order is the first topological one in dictionary order, whatever the
\* iteration order of the HashMaps.
THEOREM Deterministic == Spec => []OrderIsDeterministic
<1>1. IInv => OrderIsDeterministic
  <2> SUFFICES ASSUME IInv, pc = "walk", NEW p \in TopologicalOrders, Before(p, ordered)
               PROVE  FALSE
    BY DEF OrderIsDeterministic
  <2>1. PICK i \in DOMAIN p : p[i] < ordered[i] /\ \A j \in 1 .. i - 1 : p[j] = ordered[j]
    BY DEF Before
  <2>2. Len(ordered) = Cardinality(contracts)
    BY DEF IInv, WalksEverything, OrderIsGreedy
  <2>3. /\ i \in 1 .. Len(ordered)
        /\ p[i] \in contracts
        /\ \A j \in 1 .. i - 1 : p[j] # p[i]
        /\ graph[p[i]] \subseteq {p[j] : j \in 1 .. i - 1}
    BY <2>2 DEF TopologicalOrders
  <2>4. {p[j] : j \in 1 .. i - 1} = Prefix(i)
    BY <2>1 DEF Prefix
  <2>5. p[i] \notin Prefix(i)
    BY <2>3, <2>4
  <2>6. ordered[i] <= p[i]
    BY <2>3, <2>4, <2>5 DEF IInv, OrderIsGreedy
  <2>7. ordered[i] \in Nat /\ p[i] \in Nat
    <3>1. contracts \subseteq Nat /\ ordered \in Seq(contracts)
      BY NamesAssumption DEF IInv, TypeOK
    <3>2. ordered[i] \in contracts
      BY <2>3, <3>1
    <3> QED
      BY <2>3, <3>1, <3>2
  <2> QED
    BY <2>1, <2>6, <2>7
<1> QED
  BY <1>1, Invariance, PTL

\* A circular dependency is reported only when there is one.
THEOREM ReportedCyclesExist == Spec => []CircularMeansCycle
  BY Invariance, PTL DEF IInv

\* A cyclic graph never reaches build or deploy.
THEOREM NoCycleGetsThrough == Spec => []WalkMeansAcyclic
<1>1. IInv => WalkMeansAcyclic
  BY DEF IInv, WalksEverything, CyclesStayOut, WalkMeansAcyclic, Cyclic
<1> QED
  BY <1>1, Invariance, PTL

\* A circular dependency is reported exactly when there is one.
THEOREM CycleVerdictIsExact == Spec => []CyclesAreFound
<1>1. CircularMeansCycle /\ WalkMeansAcyclic => CyclesAreFound
  BY DEF CyclesAreFound
<1> QED
  BY <1>1, ReportedCyclesExist, NoCycleGetsThrough, PTL

\* Whatever a build of a clean workspace has compiled includes everything that
\* depends on.
THEOREM CompiledIsClosed == Spec => []BuiltIsClosed
<1>1. IInv => BuiltIsClosed
  <2> SUFFICES ASSUME IInv, command = "build", NEW a \in built, NEW b \in graph[a]
               PROVE  b \in built
    BY DEF BuiltIsClosed
  <2>1. built = {ordered[j] : j \in 1 .. walked}
    BY DEF IInv, BuiltIsWalked
  <2>2. PICK i \in 1 .. walked : a = ordered[i]
    BY <2>1
  <2>3. i \in 1 .. Len(ordered) /\ walked \in Nat
    BY DEF IInv, TypeOK
  <2>4. b \in Prefix(i)
    BY <2>2, <2>3 DEF IInv, OrderIsGreedy
  <2>5. PICK j \in 1 .. i - 1 : b = ordered[j]
    BY <2>4 DEF Prefix
  <2> QED
    BY <2>1, <2>3, <2>5
<1> QED
  BY <1>1, Invariance, PTL

\* What ProjectDeploy assumes of the order it is given (OrderAssumption) holds
\* of every order that resolve_deploy_order returns.
THEOREM OrderServesDeployment ==
  Spec => [](pc = "walk" =>
               /\ ordered \in Seq(contracts)
               /\ \A a \in contracts : \E i \in 1 .. Len(ordered) : ordered[i] = a
               /\ graph \in [contracts -> SUBSET contracts]
               /\ \A i \in 1 .. Len(ordered) : \A b \in graph[ordered[i]] :
                      \E j \in 1 .. i - 1 : ordered[j] = b)
<1> DEFINE Served ==
      pc = "walk" =>
        /\ ordered \in Seq(contracts)
        /\ \A a \in contracts : \E i \in 1 .. Len(ordered) : ordered[i] = a
        /\ graph \in [contracts -> SUBSET contracts]
        /\ \A i \in 1 .. Len(ordered) : \A b \in graph[ordered[i]] :
               \E j \in 1 .. i - 1 : ordered[j] = b
<1>1. IInv => Served
  <2> SUFFICES ASSUME IInv, pc = "walk" PROVE Served
    OBVIOUS
  <2>1. ordered \in Seq(contracts) /\ graph \in [contracts -> SUBSET contracts]
    BY DEF IInv, TypeOK
  <2>2. \A a \in contracts : \E i \in 1 .. Len(ordered) : ordered[i] = a
    BY DEF IInv, WalksEverything, Placed
  <2>3. \A i \in 1 .. Len(ordered) : \A b \in graph[ordered[i]] :
           \E j \in 1 .. i - 1 : ordered[j] = b
    BY SMTT(30) DEF IInv, OrderIsGreedy, Prefix
  <2> QED
    BY <2>1, <2>2, <2>3
<1> QED
  BY <1>1, Invariance, PTL

\* The order of topo_sort respects the dependencies and is the first that does,
\* for every manifest.
THEOREM FirstOrder == Spec => []OrderIsTheFirst
<1>1. OrderRespectsDependencies /\ OrderIsDeterministic => OrderIsTheFirst BY DEF OrderIsTheFirst
<1> QED BY <1>1, DependenciesFirst, Deterministic, PTL

-----------------------------------------------------------------------------
(* The plugin store: what it lists can be loaded, and nothing damaged gets in. *)

\* The metadata of a source under another id.
Renamed(s, id) == [s.meta EXCEPT !.id = id]
Metas == {s.meta : s \in Sources} \cup {Renamed(s, id) : s \in Sources, id \in Ids}
StorePcs == {"idle", "mkdir", "copy", "fill", "toml", "fill_toml", "clean", "rm"}

Jobs == [pc : StorePcs, dir : Dirs \cup {<<>>}, meta : Metas \cup {None}, file : Binaries \cup {None},
         prev : Artifacts \cup {None}, todo : SUBSET (Artifacts \cup {Toml})]

StoreType ==
    /\ store \in [Dirs -> [there : BOOLEAN, toml : Metas \cup {None, Torn},
                           files : [Artifacts -> Binaries \cup {None, Torn}]]]
    /\ job \in [Procs -> Jobs]

\* A bundle carries the digest of a file that was there when it was packed.
BundleIsOfASource ==
    bundle # NoBundle =>
        /\ DOMAIN bundle = {"meta", "file", "digest", "sig"}
        /\ bundle.digest \in Binaries /\ \E s \in Sources : bundle.meta = s.meta

\* A command that writes has a directory, and one that installs a plugin, too.
JobIsWhole ==
    \A p \in Procs :
        /\ job[p].pc # "idle" => job[p].dir \in Dirs
        /\ job[p].pc \notin {"idle", "rm"} => job[p].meta \in Metas /\ job[p].file \in Binaries

\* With one command at a time: what it has done so far of the commit or the removal.
OneCommand == \A p, q \in Procs : job[p].pc # "idle" /\ job[q].pc # "idle" => p = q

Committing(p) ==
    LET j == job[p]
        old == read_meta(j.dir)
    IN /\ j.pc \in {"mkdir", "copy"} => j.prev = (IF old = None THEN None ELSE old.artifact)
       /\ j.pc \in {"fill", "fill_toml"} => p \in linked
       /\ j.pc \in {"toml", "fill_toml", "clean"} => store[j.dir].files[j.meta.artifact] \in Binaries
       /\ j.pc = "clean" => store[j.dir].toml = j.meta
       /\ j.pc = "rm" => j.dir \in half

StoreInv ==
    /\ StoreType /\ BundleIsOfASource /\ JobIsWhole
    /\ Sequential => OneCommand /\ \A p \in Procs : Committing(p)
    /\ ListedIsLoadable

LEMMA StoreFacts ==
    /\ None # Torn /\ None \notin Binaries /\ Torn \notin Binaries /\ None \notin Artifacts
    /\ \A m \in Metas : m.artifact \in Artifacts /\ sanitize_id(m.id) \in Dirs
    /\ \A s \in Sources : s.meta \in Metas /\ s.file \in Binaries
    /\ \A s \in Sources, id \in Ids : Renamed(s, id) \in Metas
    /\ \A id \in Ids : sanitize_id(id) \in Dirs
PROOF
<1>1. ASSUME NEW s \in Sources, NEW id \in Ids
      PROVE  Renamed(s, id).artifact = s.meta.artifact /\ Renamed(s, id).id = id
  BY <1>1, SourcesAssumption DEF Renamed
<1>2. ASSUME NEW m \in Metas  PROVE m.artifact \in Artifacts /\ sanitize_id(m.id) \in Dirs
  <2>1. CASE \E s \in Sources : m = s.meta  BY <2>1 DEF Artifacts, Dirs, AllIds
  <2>2. CASE \E s \in Sources, id \in Ids : m = Renamed(s, id)
    <3>1. PICK s \in Sources, id \in Ids : m = Renamed(s, id)  BY <2>2
    <3>2. m.artifact = s.meta.artifact /\ m.id = id  BY <1>1, <3>1
    <3> QED BY <3>2 DEF Artifacts, Dirs, AllIds
  <2> QED BY <2>1, <2>2 DEF Metas
<1>3. None # Torn /\ None \notin Binaries /\ Torn \notin Binaries /\ None \notin Artifacts
      BY SourcesAssumption DEF Binaries, Artifacts
<1>4. \A s \in Sources : s.meta \in Metas /\ s.file \in Binaries  BY DEF Metas, Binaries
<1>5. \A s \in Sources, id \in Ids : Renamed(s, id) \in Metas  BY DEF Metas
<1>6. \A id \in Ids : sanitize_id(id) \in Dirs  BY DEF Dirs, AllIds
<1> QED BY <1>2, <1>3, <1>4, <1>5, <1>6

LEMMA StoreInitial == StoreInit => StoreInv
  BY StoreFacts DEF StoreInit, StoreInv, StoreType, Jobs, StorePcs, NoDir, Idle, BundleIsOfASource, JobIsWhole, OneCommand,
     Committing, ListedIsLoadable, read_meta

\* What nobody touched is as it was.
LEMMA StoreStays ==
    ASSUME StoreInv, UNCHANGED <<setting, store, job, linked, half, bundle>>
    PROVE  StoreInv'
  BY DEF StoreInv, StoreType, BundleIsOfASource, JobIsWhole, OneCommand, Committing, ListedIsLoadable, Sequential, read_meta

\* An install that has passed its checks is about to make the directory.
LEMMA InstallBegins ==
    ASSUME StoreInv, NEW p \in Procs, job[p].pc = "idle", Sequential => \A q \in Procs : job[q].pc = "idle",
           NEW s, NEW id, NEW force, install(p, s, id, force),
           id = NoId => s.meta \in Metas, id # NoId => Renamed(s, id) \in Metas,
           ~UNCHANGED job => s.file \in Binaries,
           UNCHANGED <<setting, store, linked, half, bundle>>
    PROVE  StoreInv'
PROOF
<1> DEFINE meta == IF id = NoId THEN s.meta ELSE Renamed(s, id)
           d == sanitize_id(meta.id)
           old == read_meta(d)
           prev == IF old = None THEN None ELSE old.artifact
           j == [pc |-> "mkdir", dir |-> d, meta |-> meta, file |-> s.file, prev |-> prev, todo |-> {}]
<1>1. CASE UNCHANGED job  BY <1>1, StoreStays
<1>2. CASE ~UNCHANGED job
  <2>1. job' = [job EXCEPT ![p] = j]  BY <1>2 DEF install, Renamed
  <2>2. meta \in Metas /\ d \in Dirs /\ s.file \in Binaries  BY <1>2, StoreFacts
  <2>3. prev \in Artifacts \cup {None}
    <3>1. old # None => old \in Metas  BY <2>2 DEF read_meta, StoreInv, StoreType
    <3> QED BY <3>1, StoreFacts
  <2>4. j = [pc |-> "mkdir", dir |-> d, meta |-> meta, file |-> s.file, prev |-> prev, todo |-> {}]
        OBVIOUS
  <2> HIDE DEF meta, d, prev, j
  <2>5. StoreType'  BY <2>1, <2>2, <2>3, <2>4 DEF StoreInv, StoreType, Jobs, StorePcs
  <2>6. job'[p] = j /\ \A q \in Procs : q # p => job'[q] = job[q]  BY <2>1 DEF StoreInv, StoreType
  <2>7. JobIsWhole'  BY <2>2, <2>4, <2>6 DEF StoreInv, JobIsWhole
  <2>8. BundleIsOfASource' /\ ListedIsLoadable' /\ (Sequential' <=> Sequential)
        BY DEF StoreInv, BundleIsOfASource, ListedIsLoadable, Sequential, read_meta
  <2>9. ASSUME Sequential  PROVE OneCommand' /\ \A q \in Procs : Committing(q)'
    <3>1. \A q \in Procs : q # p => job'[q].pc = "idle"  BY <2>6, <2>9
    <3>2. OneCommand'  BY <3>1 DEF OneCommand
    <3>3. ASSUME NEW q \in Procs, q # p  PROVE Committing(q)'  BY <3>1, <3>3 DEF Committing
    <3>4. prev = (IF read_meta(d)' = None THEN None ELSE read_meta(d)'.artifact)  BY DEF read_meta, prev
    <3>5. Committing(p)'  BY <2>4, <2>6, <3>4 DEF Committing
    <3> QED BY <3>2, <3>3, <3>5
  <2> QED BY <2>5, <2>7, <2>8, <2>9 DEF StoreInv
<1> QED BY <1>1, <1>2


\* A command that is over leaves nobody busy, one command at a time.
LEMMA CommandEnds ==
    ASSUME StoreInv, NEW p \in Procs, job[p].pc # "idle", job' = [job EXCEPT ![p] = Idle], UNCHANGED setting
    PROVE  /\ job' \in [Procs -> Jobs]
           /\ JobIsWhole'
           /\ Sequential' => OneCommand' /\ \A q \in Procs : Committing(q)'
PROOF
<1>1. job'[p] = Idle /\ \A q \in Procs : q # p => job'[q] = job[q]  BY DEF StoreInv, StoreType
<1>2. job' \in [Procs -> Jobs]
      BY DEF StoreInv, StoreType, Jobs, Idle, StorePcs
<1>3. Idle.pc = "idle"  BY DEF Idle
<1>4. JobIsWhole'  BY <1>1, <1>3 DEF JobIsWhole, StoreInv
<1>5. ASSUME Sequential'  PROVE OneCommand' /\ \A q \in Procs : Committing(q)'
  <2>1. \A q \in Procs : job'[q].pc = "idle"  BY <1>1, <1>3, <1>5 DEF StoreInv, OneCommand, Sequential
  <2> QED BY <2>1 DEF OneCommand, Committing
<1> QED BY <1>2, <1>4, <1>5

\* A commit that goes on keeps what it is about.
LEMMA CommitMoves ==
    ASSUME StoreInv, NEW p \in Procs, NEW w \in StorePcs \ {"idle", "rm"}, job[p].pc \notin {"idle", "rm"},
           Goto(p, w), UNCHANGED setting
    PROVE  /\ job' \in [Procs -> Jobs]
           /\ job'[p] = [job[p] EXCEPT !.pc = w]
           /\ job'[p].pc = w /\ job'[p].dir = job[p].dir /\ job'[p].meta = job[p].meta
           /\ job'[p].prev = job[p].prev
           /\ job[p].dir \in Dirs /\ job[p].meta \in Metas /\ job[p].file \in Binaries
           /\ JobIsWhole'
           /\ Sequential' => OneCommand' /\ \A q \in Procs : q # p => Committing(q)'
PROOF
<1>1. job'[p] = [job[p] EXCEPT !.pc = w] /\ \A q \in Procs : q # p => job'[q] = job[q]
      BY DEF StoreInv, StoreType, Jobs, Goto
<1>2. job' \in [Procs -> Jobs]
  <2>1. job \in [Procs -> Jobs] /\ job[p] \in Jobs  BY DEF StoreInv, StoreType
  <2>2. job' = [job EXCEPT ![p] = [job[p] EXCEPT !.pc = w]]  BY <2>1 DEF Goto
  <2>3. [job[p] EXCEPT !.pc = w] \in Jobs  BY <2>1 DEF Jobs
  <2> QED BY <2>1, <2>2, <2>3
<1>3. job'[p].pc = w /\ job'[p].dir = job[p].dir /\ job'[p].meta = job[p].meta /\ job'[p].file = job[p].file
      /\ job'[p].prev = job[p].prev
      BY <1>1 DEF StoreInv, StoreType, Jobs
<1>4. job[p].dir \in Dirs /\ job[p].meta \in Metas /\ job[p].file \in Binaries  BY DEF StoreInv, JobIsWhole
<1>5. JobIsWhole'  BY <1>1, <1>3, <1>4 DEF JobIsWhole, StoreInv
<1>6. ASSUME Sequential'  PROVE OneCommand' /\ \A q \in Procs : q # p => Committing(q)'
  <2>1. \A q \in Procs : q # p => job'[q].pc = "idle"  BY <1>1, <1>6 DEF StoreInv, OneCommand, Sequential
  <2> QED BY <2>1 DEF OneCommand, Committing
<1> QED BY <1>1, <1>2, <1>3, <1>4, <1>5, <1>6

\* A step in one directory leaves the others loadable.
LEMMA ElsewhereLoadable ==
    ASSUME StoreInv, NEW d \in Dirs, UNCHANGED setting,
           \A e \in Dirs : e # d => store'[e] = store[e] /\ (e \in half' <=> e \in half),
           Sequential /\ d \notin half' /\ read_meta(d)' # None
               => store'[d].files[read_meta(d)'.artifact] \in Binaries
    PROVE  ListedIsLoadable'
PROOF
<1> SUFFICES ASSUME Sequential, NEW e \in Dirs, e \notin half', read_meta(e)' # None
             PROVE  store'[e].files[read_meta(e)'.artifact] \in Binaries
    BY DEF ListedIsLoadable, Sequential
<1>1. CASE e = d  BY <1>1
<1>2. CASE e # d
  <2>1. read_meta(e)' = read_meta(e)  BY <1>2 DEF read_meta
  <2>2. store[e].files[read_meta(e).artifact] \in Binaries  BY <1>2, <2>1 DEF StoreInv, ListedIsLoadable
  <2> QED BY <1>2, <2>1, <2>2
<1> QED BY <1>1, <1>2

\* What a directory lists is the metadata of somebody's plugin.
LEMMA ListedIsMeta ==
    ASSUME StoreInv, NEW d \in Dirs
    PROVE  read_meta(d) # None => read_meta(d) = store[d].toml /\ read_meta(d) \in Metas
  BY DEF StoreInv, StoreType, read_meta

LEMMA MakeDirStep ==
    ASSUME StoreInv, NEW p \in Procs, MakeDir(p)  PROVE StoreInv'
PROOF
<1> USE DEF MakeDir
<1>1. "copy" \in StorePcs \ {"idle", "rm"}  BY DEF StorePcs
<1> DEFINE j == job[p]
<1>2. /\ job' \in [Procs -> Jobs]
      /\ j.dir \in Dirs /\ JobIsWhole' /\ job'[p].pc = "copy" /\ job'[p].dir = j.dir /\ job'[p].prev = j.prev
      /\ Sequential' => OneCommand' /\ \A q \in Procs : q # p => Committing(q)'
      BY <1>1, CommitMoves
<1>3. StoreType'  BY <1>2 DEF StoreInv, StoreType
<1>4. \A d \in Dirs : store'[d].toml = store[d].toml /\ store'[d].files = store[d].files
      BY <1>2 DEF StoreInv, StoreType
<1>5. \A d \in Dirs : read_meta(d)' = read_meta(d)  BY <1>4 DEF read_meta
<1>6. ListedIsLoadable'  BY <1>4, <1>5 DEF StoreInv, ListedIsLoadable, Sequential
<1>7. Sequential' => Committing(p)'  BY <1>2, <1>5 DEF StoreInv, Committing, Sequential
<1> QED BY <1>2, <1>3, <1>6, <1>7 DEF StoreInv, BundleIsOfASource

\* The artifact is opened: what is listed then names another file, or the overwrite is known to have begun.
LEMMA OpenArtifactStep ==
    ASSUME StoreInv, NEW p \in Procs, OpenArtifact(p)  PROVE StoreInv'
PROOF
<1> DEFINE j == job[p]
           a == j.meta.artifact
<1>0. UNCHANGED <<setting, bundle>> /\ j.pc = "copy"  BY DEF OpenArtifact
<1>1. CASE End(p, "Io") /\ UNCHANGED <<store, linked, half>>
  <2>1. job' = [job EXCEPT ![p] = Idle]  BY <1>1 DEF End
  <2>2. job' \in [Procs -> Jobs] /\ JobIsWhole' /\ (Sequential' => OneCommand' /\ \A q \in Procs : Committing(q)')
        BY <1>0, <2>1, CommandEnds
  <2>3. ListedIsLoadable'  BY <1>0, <1>1 DEF StoreInv, ListedIsLoadable, Sequential, read_meta
  <2> QED BY <1>0, <1>1, <2>2, <2>3 DEF StoreInv, StoreType, BundleIsOfASource
<1>2. CASE /\ store' = [store EXCEPT ![j.dir].files[a] = Torn]
           /\ half' = IF j.prev = a THEN half \cup {j.dir} ELSE half
           /\ linked' = linked \cup {p}
           /\ Goto(p, "fill")
  <2>1. "fill" \in StorePcs \ {"idle", "rm"}  BY DEF StorePcs
  <2>2. /\ job' \in [Procs -> Jobs] /\ JobIsWhole' /\ job'[p].pc = "fill"
        /\ j.dir \in Dirs /\ j.meta \in Metas
        /\ Sequential' => OneCommand' /\ \A q \in Procs : q # p => Committing(q)'
        BY <1>0, <1>2, <2>1, CommitMoves
  <2>3. a \in Artifacts  BY <2>2, StoreFacts
  <2> HIDE DEF a
  <2>d. PICK d \in Dirs : d = j.dir  BY <2>2
  <2>4. store' \in [Dirs -> [there : BOOLEAN, toml : Metas \cup {None, Torn},
                             files : [Artifacts -> Binaries \cup {None, Torn}]]]
        BY <1>2, <2>3, <2>d DEF StoreInv, StoreType
  <2>5. /\ \A e \in Dirs : e # d => store'[e] = store[e] /\ (e \in half' <=> e \in half)
        /\ store'[d].toml = store[d].toml
        /\ \A b \in Artifacts : b # a => store'[d].files[b] = store[d].files[b]
        BY <1>2, <2>d DEF StoreInv, StoreType
  <2>6. read_meta(d)' = read_meta(d)  BY <2>5 DEF read_meta
  <2>7. ASSUME Sequential, d \notin half', read_meta(d) # None
        PROVE  store'[d].files[read_meta(d).artifact] \in Binaries
    <3>1. j.prev = read_meta(d).artifact  BY <1>0, <2>7, <2>d DEF StoreInv, Committing
    <3>2. j.prev # a /\ d \notin half  BY <1>2, <2>7, <2>d
    <3>3. read_meta(d).artifact \in Artifacts  BY <2>7, ListedIsMeta, StoreFacts
    <3>4. store[d].files[read_meta(d).artifact] \in Binaries  BY <2>7, <3>2 DEF StoreInv, ListedIsLoadable
    <3> QED BY <2>5, <3>1, <3>2, <3>3, <3>4
  <2>8. ListedIsLoadable'  BY <1>0, <2>5, <2>6, <2>7, ElsewhereLoadable
  <2>9. Committing(p)'  BY <1>2, <2>2 DEF Committing
  <2> QED BY <1>0, <2>2, <2>4, <2>8, <2>9 DEF StoreInv, StoreType, BundleIsOfASource
<1> QED BY <1>1, <1>2 DEF OpenArtifact

LEMMA FillArtifactStep ==
    ASSUME StoreInv, NEW p \in Procs, FillArtifact(p)  PROVE StoreInv'
PROOF
<1> DEFINE j == job[p]
           a == j.meta.artifact
<1>0. /\ UNCHANGED <<setting, bundle, half>> /\ j.pc = "fill" /\ Goto(p, "toml")
      /\ store' = IF p \in linked THEN [store EXCEPT ![j.dir].files[a] = j.file] ELSE store
      BY DEF FillArtifact
<1>1. "toml" \in StorePcs \ {"idle", "rm"}  BY DEF StorePcs
<1>2. /\ job' \in [Procs -> Jobs] /\ JobIsWhole' /\ job'[p].pc = "toml" /\ job'[p].dir = j.dir /\ job'[p].meta = j.meta
      /\ j.dir \in Dirs /\ j.meta \in Metas /\ j.file \in Binaries
      /\ Sequential' => OneCommand' /\ \A q \in Procs : q # p => Committing(q)'
      BY <1>0, <1>1, CommitMoves
<1>3. a \in Artifacts  BY <1>2, StoreFacts
<1>d. PICK d \in Dirs : d = j.dir  BY <1>2
<1>b. PICK b : b = a  OBVIOUS
<1>f. PICK f \in Binaries : f = j.file  BY <1>2
<1>4. store' \in [Dirs -> [there : BOOLEAN, toml : Metas \cup {None, Torn},
                           files : [Artifacts -> Binaries \cup {None, Torn}]]]
      BY <1>0, <1>3, <1>d, <1>b, <1>f DEF StoreInv, StoreType
<1>5. /\ \A e \in Dirs : e # d => store'[e] = store[e] /\ (e \in half' <=> e \in half)
      /\ store'[d].toml = store[d].toml
      /\ \A c \in Artifacts : store'[d].files[c] \in {store[d].files[c], f}
      /\ p \in linked => store'[d].files[b] = f
      BY <1>0, <1>3, <1>d, <1>b, <1>f DEF StoreInv, StoreType
<1>6. read_meta(d)' = read_meta(d)  BY <1>5 DEF read_meta
<1>7. ASSUME Sequential, d \notin half', read_meta(d) # None
      PROVE  store'[d].files[read_meta(d).artifact] \in Binaries
  <2>1. read_meta(d).artifact \in Artifacts  BY <1>7, ListedIsMeta, StoreFacts
  <2>2. store[d].files[read_meta(d).artifact] \in Binaries  BY <1>0, <1>7 DEF StoreInv, ListedIsLoadable
  <2> QED BY <1>5, <2>1, <2>2
<1>8. ListedIsLoadable'  BY <1>0, <1>5, <1>6, <1>7, ElsewhereLoadable
<1>9. Sequential' => Committing(p)'
  <2>1. ASSUME Sequential'  PROVE p \in linked
    <3>1. Sequential  BY <1>0, <2>1 DEF Sequential
    <3> QED BY <1>0, <3>1 DEF StoreInv, Committing
  <2>2. ASSUME Sequential'  PROVE store'[d].files[b] \in Binaries  BY <1>5, <2>1, <2>2
  <2> QED BY <1>2, <1>b, <1>d, <2>2 DEF Committing
<1> QED BY <1>0, <1>2, <1>4, <1>8, <1>9 DEF StoreInv, StoreType, BundleIsOfASource

LEMMA OpenMetaStep ==
    ASSUME StoreInv, NEW p \in Procs, OpenMeta(p)  PROVE StoreInv'
PROOF
<1> DEFINE j == job[p]
<1>0. UNCHANGED <<setting, bundle, half>> /\ j.pc = "toml"  BY DEF OpenMeta
<1>1. CASE End(p, "Io") /\ UNCHANGED <<store, linked>>
  <2>1. job' = [job EXCEPT ![p] = Idle]  BY <1>1 DEF End
  <2>2. job' \in [Procs -> Jobs] /\ JobIsWhole' /\ (Sequential' => OneCommand' /\ \A q \in Procs : Committing(q)')
        BY <1>0, <2>1, CommandEnds
  <2>3. ListedIsLoadable'  BY <1>0, <1>1 DEF StoreInv, ListedIsLoadable, Sequential, read_meta
  <2> QED BY <1>0, <1>1, <2>2, <2>3 DEF StoreInv, StoreType, BundleIsOfASource
<1>2. CASE /\ store' = [store EXCEPT ![j.dir].toml = Torn]
           /\ linked' = linked \cup {p}
           /\ Goto(p, "fill_toml")
  <2>1. "fill_toml" \in StorePcs \ {"idle", "rm"}  BY DEF StorePcs
  <2>2. /\ job' \in [Procs -> Jobs] /\ JobIsWhole' /\ job'[p].pc = "fill_toml" /\ job'[p].dir = j.dir /\ job'[p].meta = j.meta
        /\ j.dir \in Dirs /\ j.meta \in Metas
        /\ Sequential' => OneCommand' /\ \A q \in Procs : q # p => Committing(q)'
        BY <1>0, <1>2, <2>1, CommitMoves
  <2>d. PICK d \in Dirs : d = j.dir  BY <2>2
  <2>3. store' \in [Dirs -> [there : BOOLEAN, toml : Metas \cup {None, Torn},
                             files : [Artifacts -> Binaries \cup {None, Torn}]]]
        BY <1>2, <2>d DEF StoreInv, StoreType
  <2>4. /\ \A e \in Dirs : e # d => store'[e] = store[e] /\ (e \in half' <=> e \in half)
        /\ store'[d].toml = Torn /\ store'[d].files = store[d].files
        BY <1>0, <1>2, <2>d DEF StoreInv, StoreType
  <2>5. read_meta(d)' = None  BY <2>4 DEF read_meta
  <2>6. ListedIsLoadable'  BY <1>0, <2>4, <2>5, ElsewhereLoadable
  <2>7. Sequential' => Committing(p)'
        BY <1>0, <1>2, <2>2, <2>4, <2>d DEF StoreInv, Committing, Sequential
  <2> QED BY <1>0, <2>2, <2>3, <2>6, <2>7 DEF StoreInv, StoreType, BundleIsOfASource
<1> QED BY <1>1, <1>2 DEF OpenMeta

LEMMA FillMetaStep ==
    ASSUME StoreInv, NEW p \in Procs, FillMeta(p)  PROVE StoreInv'
PROOF
<1> DEFINE j == job[p]
<1>0. /\ UNCHANGED <<setting, bundle>> /\ j.pc = "fill_toml" /\ Goto(p, "clean") /\ half' = half \ {j.dir}
      /\ store' = IF p \in linked THEN [store EXCEPT ![j.dir].toml = j.meta] ELSE store
      BY DEF FillMeta
<1>1. "clean" \in StorePcs \ {"idle", "rm"}  BY DEF StorePcs
<1>2. /\ job' \in [Procs -> Jobs] /\ JobIsWhole' /\ job'[p].pc = "clean" /\ job'[p].dir = j.dir /\ job'[p].meta = j.meta
      /\ j.dir \in Dirs /\ j.meta \in Metas
      /\ Sequential' => OneCommand' /\ \A q \in Procs : q # p => Committing(q)'
      BY <1>0, <1>1, CommitMoves
<1>d. PICK d \in Dirs : d = j.dir  BY <1>2
<1>m. PICK m \in Metas : m = j.meta  BY <1>2
<1>3. store' \in [Dirs -> [there : BOOLEAN, toml : Metas \cup {None, Torn},
                           files : [Artifacts -> Binaries \cup {None, Torn}]]]
      BY <1>0, <1>d, <1>m DEF StoreInv, StoreType
<1>4. /\ \A e \in Dirs : e # d => store'[e] = store[e] /\ (e \in half' <=> e \in half)
      /\ store'[d].files = store[d].files
      /\ p \in linked => store'[d].toml = m
      BY <1>0, <1>d, <1>m DEF StoreInv, StoreType
<1>5. Sequential => p \in linked /\ store[d].files[m.artifact] \in Binaries
      BY <1>0, <1>d, <1>m DEF StoreInv, Committing
<1>6. Sequential => (read_meta(d)' # None => read_meta(d)' = m)  BY <1>4, <1>5 DEF read_meta
<1>7. ListedIsLoadable'  BY <1>0, <1>4, <1>5, <1>6, ElsewhereLoadable
<1>8. Sequential' => Committing(p)'
      BY <1>0, <1>2, <1>4, <1>5, <1>d, <1>m DEF Committing, Sequential
<1> QED BY <1>0, <1>2, <1>3, <1>7, <1>8 DEF StoreInv, StoreType, BundleIsOfASource

\* The stale artifact is another than the one that the new metadata names.
LEMMA CleanArtifactStep ==
    ASSUME StoreInv, NEW p \in Procs, CleanArtifact(p)  PROVE StoreInv'
PROOF
<1> DEFINE j == job[p]
<1>0. /\ UNCHANGED <<setting, bundle, half, linked>> /\ j.pc = "clean" /\ job' = [job EXCEPT ![p] = Idle]
      /\ store' = IF j.prev \notin {None, j.meta.artifact} THEN [store EXCEPT ![j.dir].files[j.prev] = None] ELSE store
      BY DEF CleanArtifact, End
<1>1. job' \in [Procs -> Jobs] /\ JobIsWhole' /\ (Sequential' => OneCommand' /\ \A q \in Procs : Committing(q)')
      BY <1>0, CommandEnds
<1>2. j.dir \in Dirs /\ j.meta \in Metas  BY <1>0 DEF StoreInv, JobIsWhole
<1>3. j.prev \in Artifacts \cup {None}  BY DEF StoreInv, StoreType, Jobs
<1>d. PICK d \in Dirs : d = j.dir  BY <1>2
<1>m. PICK m \in Metas : m = j.meta  BY <1>2
<1>b. PICK b \in Artifacts \cup {None} : b = j.prev  BY <1>3
<1>4. store' \in [Dirs -> [there : BOOLEAN, toml : Metas \cup {None, Torn},
                           files : [Artifacts -> Binaries \cup {None, Torn}]]]
      BY <1>0, <1>b, <1>d DEF StoreInv, StoreType
<1>5. /\ \A e \in Dirs : e # d => store'[e] = store[e] /\ (e \in half' <=> e \in half)
      /\ store'[d].toml = store[d].toml
      /\ m.artifact \in Artifacts => store'[d].files[m.artifact] = store[d].files[m.artifact]
      BY <1>0, <1>d, <1>m, <1>b DEF StoreInv, StoreType
<1>6. Sequential => store'[d].toml = m /\ store'[d].files[m.artifact] \in Binaries
      BY <1>0, <1>d, <1>m, <1>5, StoreFacts DEF StoreInv, Committing
<1>7. Sequential => (read_meta(d)' # None => read_meta(d)' = m)  BY <1>6 DEF read_meta
<1>8. ListedIsLoadable'  BY <1>0, <1>5, <1>6, <1>7, ElsewhereLoadable
<1> QED BY <1>0, <1>1, <1>4, <1>8 DEF StoreInv, StoreType, BundleIsOfASource

\* A removal has begun, and so the directory is not promised any more.
LEMMA PluginRemoveStep ==
    ASSUME StoreInv, NEW p \in Procs, PluginRemove(p)  PROVE StoreInv'
PROOF
<1>0. /\ UNCHANGED <<setting, bundle, store, linked>> /\ job[p].pc = "idle"
      /\ Sequential => \A q \in Procs : job[q].pc = "idle"
      BY DEF PluginRemove, Start
<1>1. CASE UNCHANGED <<job, half>>  BY <1>0, <1>1, StoreStays
<1>2. CASE \E id \in Ids :
              LET d == sanitize_id(id)
                  files == {a \in Artifacts : store[d].files[a] # None}
              IN /\ job' = [job EXCEPT ![p] = [pc |-> "rm", dir |-> d, meta |-> None, file |-> None, prev |-> None,
                              todo |-> files \cup (IF store[d].toml = None THEN {} ELSE {Toml})]]
                 /\ half' = half \cup {d}
  <2>1. PICK d \in Dirs, todo \in SUBSET (Artifacts \cup {Toml}) :
             /\ job' = [job EXCEPT ![p] = [pc |-> "rm", dir |-> d, meta |-> None, file |-> None, prev |-> None,
                                           todo |-> todo]]
             /\ half' = half \cup {d}
    <3>1. PICK id \in Ids :
              LET d == sanitize_id(id)
                  files == {a \in Artifacts : store[d].files[a] # None}
              IN /\ job' = [job EXCEPT ![p] = [pc |-> "rm", dir |-> d, meta |-> None, file |-> None, prev |-> None,
                              todo |-> files \cup (IF store[d].toml = None THEN {} ELSE {Toml})]]
                 /\ half' = half \cup {d}
      BY <1>2
    <3> DEFINE d == sanitize_id(id)
               todo == {a \in Artifacts : store[d].files[a] # None} \cup (IF store[d].toml = None THEN {} ELSE {Toml})
    <3>2. d \in Dirs /\ todo \in SUBSET (Artifacts \cup {Toml})  BY StoreFacts
    <3>3. /\ job' = [job EXCEPT ![p] = [pc |-> "rm", dir |-> d, meta |-> None, file |-> None, prev |-> None,
                                        todo |-> todo]]
          /\ half' = half \cup {d}
      BY <3>1
    <3> HIDE DEF d, todo
    <3> QED BY <3>2, <3>3
  <2>2. job' \in [Procs -> Jobs]  BY <2>1 DEF StoreInv, StoreType, Jobs, StorePcs
  <2>3. job'[p].pc = "rm" /\ job'[p].dir = d /\ \A q \in Procs : q # p => job'[q] = job[q]
        BY <2>1 DEF StoreInv, StoreType
  <2>4. JobIsWhole'  BY <2>3 DEF StoreInv, JobIsWhole
  <2>5. ListedIsLoadable'  BY <1>0, <2>1, ElsewhereLoadable
  <2>6. ASSUME Sequential'  PROVE OneCommand' /\ \A q \in Procs : Committing(q)'
    <3>1. \A q \in Procs : q # p => job'[q].pc = "idle"  BY <1>0, <2>3, <2>6 DEF Sequential
    <3>2. Committing(p)'  BY <2>1, <2>3 DEF Committing
    <3>3. \A q \in Procs : q # p => Committing(q)'  BY <3>1 DEF Committing
    <3> QED BY <3>1, <3>2, <3>3 DEF OneCommand
  <2> QED BY <1>0, <2>2, <2>4, <2>5, <2>6 DEF StoreInv, StoreType, BundleIsOfASource
<1> QED BY <1>1, <1>2 DEF PluginRemove

LEMMA RemoveEntryStep ==
    ASSUME StoreInv, NEW p \in Procs, RemoveEntry(p)  PROVE StoreInv'
PROOF
<1> DEFINE j == job[p]
<1>0. UNCHANGED <<setting, bundle, half>> /\ j.pc = "rm"  BY DEF RemoveEntry
<1>1. PICK e \in j.todo :
          /\ store' = IF e = Toml THEN [store EXCEPT ![j.dir].toml = None] ELSE [store EXCEPT ![j.dir].files[e] = None]
          /\ job' = [job EXCEPT ![p].todo = @ \ {e}]
      BY DEF RemoveEntry
<1>2. j.dir \in Dirs /\ j.todo \subseteq Artifacts \cup {Toml}  BY <1>0 DEF StoreInv, StoreType, Jobs, JobIsWhole
<1>d. PICK d \in Dirs : d = j.dir  BY <1>2
<1>3. store' \in [Dirs -> [there : BOOLEAN, toml : Metas \cup {None, Torn},
                           files : [Artifacts -> Binaries \cup {None, Torn}]]]
  <2>1. CASE e = Toml
    <3>1. store' = [store EXCEPT ![d].toml = None]  BY <1>1, <1>d, <2>1
    <3> QED BY <3>1 DEF StoreInv, StoreType
  <2>2. CASE e # Toml
    <3>1. store' = [store EXCEPT ![d].files[e] = None] /\ e \in Artifacts  BY <1>1, <1>2, <1>d, <2>2
    <3> QED BY <3>1 DEF StoreInv, StoreType
  <2> QED BY <2>1, <2>2
<1>4. \A c \in Dirs : c # d => store'[c] = store[c] /\ (c \in half' <=> c \in half)
      BY <1>0, <1>1, <1>d DEF StoreInv, StoreType
<1>5. job' \in [Procs -> Jobs]
  <2>1. job \in [Procs -> Jobs] /\ j \in Jobs  BY DEF StoreInv, StoreType
  <2>2. job' = [job EXCEPT ![p] = [j EXCEPT !.todo = j.todo \ {e}]]  BY <1>1, <2>1
  <2>3. [j EXCEPT !.todo = j.todo \ {e}] \in Jobs  BY <2>1 DEF Jobs
  <2> QED BY <2>1, <2>2, <2>3
<1>6. job'[p].pc = "rm" /\ job'[p].dir = d /\ \A q \in Procs : q # p => job'[q] = job[q]
      BY <1>0, <1>1, <1>d DEF StoreInv, StoreType, Jobs
<1>7. JobIsWhole'  BY <1>6 DEF StoreInv, JobIsWhole
<1>8. Sequential => d \in half  BY <1>0, <1>d DEF StoreInv, Committing
<1>9. ListedIsLoadable'  BY <1>0, <1>4, <1>8, ElsewhereLoadable
<1>10. ASSUME Sequential'  PROVE OneCommand' /\ \A q \in Procs : Committing(q)'
  <2>1. \A q \in Procs : q # p => job'[q].pc = "idle"  BY <1>0, <1>6, <1>10 DEF StoreInv, OneCommand, Sequential
  <2>2. Committing(p)'  BY <1>0, <1>6, <1>8, <1>10 DEF Committing, Sequential
  <2>3. \A q \in Procs : q # p => Committing(q)'  BY <2>1 DEF Committing
  <2> QED BY <2>1, <2>2, <2>3 DEF OneCommand
<1> QED BY <1>0, <1>3, <1>5, <1>7, <1>9, <1>10 DEF StoreInv, StoreType, BundleIsOfASource

LEMMA RemoveDirStep ==
    ASSUME StoreInv, NEW p \in Procs, RemoveDir(p)  PROVE StoreInv'
PROOF
<1> DEFINE j == job[p]
           empty == store[j.dir].toml = None /\ \A a \in Artifacts : store[j.dir].files[a] = None
<1>0. /\ UNCHANGED <<setting, bundle, linked>> /\ j.pc = "rm" /\ job' = [job EXCEPT ![p] = Idle]
      /\ store' = IF empty THEN [store EXCEPT ![j.dir] = NoDir] ELSE store
      /\ half' = IF empty THEN half \ {j.dir} ELSE half
      BY DEF RemoveDir, End
<1>1. job' \in [Procs -> Jobs] /\ JobIsWhole' /\ (Sequential' => OneCommand' /\ \A q \in Procs : Committing(q)')
      BY <1>0, CommandEnds
<1>2. j.dir \in Dirs  BY <1>0 DEF StoreInv, JobIsWhole
<1>d. PICK d \in Dirs : d = j.dir  BY <1>2
<1>3. StoreType'
  <2>1. NoDir \in [there : BOOLEAN, toml : Metas \cup {None, Torn}, files : [Artifacts -> Binaries \cup {None, Torn}]]
        BY DEF NoDir
  <2> QED BY <1>0, <1>1, <1>2, <2>1 DEF StoreInv, StoreType
<1>4. \A c \in Dirs : c # d => store'[c] = store[c] /\ (c \in half' <=> c \in half)
      BY <1>0, <1>d DEF StoreInv, StoreType
<1>5. Sequential => d \in half  BY <1>0, <1>d DEF StoreInv, Committing
<1>6. d \notin half' /\ Sequential => read_meta(d)' = None
  <2>1. NoDir.toml = None  BY DEF NoDir
  <2>2. empty => store'[d].toml = None  BY <1>0, <1>d, <2>1 DEF StoreInv, StoreType
  <2> QED BY <1>0, <1>5, <2>2 DEF read_meta
<1>7. ListedIsLoadable'  BY <1>0, <1>4, <1>6, ElsewhereLoadable
<1> QED BY <1>0, <1>1, <1>3, <1>7 DEF StoreInv, BundleIsOfASource

LEMMA StopStep ==
    ASSUME StoreInv, NEW p \in Procs, Stop(p)  PROVE StoreInv'
PROOF
<1>0. UNCHANGED <<setting, store, bundle, half>> /\ job[p].pc # "idle" /\ job' = [job EXCEPT ![p] = Idle]
      BY DEF Stop, End
<1>1. job' \in [Procs -> Jobs] /\ JobIsWhole' /\ (Sequential' => OneCommand' /\ \A q \in Procs : Committing(q)')
      BY <1>0, CommandEnds
<1>2. ListedIsLoadable'  BY <1>0 DEF StoreInv, ListedIsLoadable, Sequential, read_meta
<1> QED BY <1>0, <1>1, <1>2 DEF StoreInv, StoreType, BundleIsOfASource

\* A new bundle is of a source, and a damaged one still says what it was.
LEMMA BundleSteps ==
    ASSUME StoreInv, BundleDamaged \/ \E p \in Procs : PluginPack(p)  PROVE StoreInv'
PROOF
<1>1. UNCHANGED <<setting, store, job, linked, half>>  BY DEF BundleDamaged, PluginPack, Start
<1>2. BundleIsOfASource'
  <2>1. CASE BundleDamaged  BY <2>1 DEF BundleDamaged, StoreInv, BundleIsOfASource
  <2>2. CASE UNCHANGED bundle  BY <2>2 DEF StoreInv, BundleIsOfASource
  <2>3. CASE \E s \in Sources, key \in Keys \cup {NoKey} : bundle' = pack_bundle(s, key)
        BY <2>3, StoreFacts DEF pack_bundle, BundleIsOfASource
  <2> QED BY <2>1, <2>2, <2>3 DEF PluginPack
<1> QED BY <1>1, <1>2 DEF StoreInv, StoreType, JobIsWhole, OneCommand, Committing, ListedIsLoadable, Sequential, read_meta

\* What is installed of a bundle has the digest it was packed with.
LEMMA InstallBundleStep ==
    ASSUME StoreInv, NEW p \in Procs, PluginInstallBundle(p)  PROVE StoreInv'
PROOF
<1>0. /\ UNCHANGED <<setting, store, linked, bundle, half>> /\ job[p].pc = "idle" /\ bundle # NoBundle
      /\ Sequential => \A q \in Procs : job[q].pc = "idle"
      BY DEF PluginInstallBundle, Start
<1>1. CASE UNCHANGED job  BY <1>0, <1>1, StoreStays
<1>2. CASE ~UNCHANGED job
  <2> DEFINE b == [meta |-> bundle.meta, file |-> bundle.file, ext |-> bundle.meta.artifact.ext]
  <2>1. PICK key, force : bundle_error(bundle, key) = "none" /\ install(p, b, NoId, force)
        BY <1>2 DEF PluginInstallBundle
  <2>2. bundle.digest = bundle.file  BY <2>1 DEF bundle_error, verify_bundle
  <2>3. b.meta \in Metas /\ b.file \in Binaries
        BY <1>0, <2>2, StoreFacts DEF StoreInv, BundleIsOfASource
  <2> HIDE DEF b
  <2> QED BY <1>0, <2>1, <2>3, InstallBegins
<1> QED BY <1>1, <1>2

LEMMA InstallStep ==
    ASSUME StoreInv, NEW p \in Procs, PluginInstall(p) \/ PluginUpdate(p)  PROVE StoreInv'
PROOF
<1>0. /\ UNCHANGED <<setting, store, linked, bundle, half>> /\ job[p].pc = "idle"
      /\ Sequential => \A q \in Procs : job[q].pc = "idle"
      BY DEF PluginInstall, PluginUpdate, Start
<1>1. PICK s \in Sources, id \in Ids \cup {NoId}, force \in BOOLEAN : install(p, s, id, force)
      BY DEF PluginInstall, PluginUpdate
<1>2. s.meta \in Metas /\ s.file \in Binaries /\ (id # NoId => Renamed(s, id) \in Metas)  BY <1>1, StoreFacts
<1> QED BY <1>0, <1>1, <1>2, InstallBegins

LEMMA StoreStepKeeps ==
    ASSUME StoreInv, [StoreNext]_storeVars  PROVE StoreInv'
PROOF
<1>1. CASE UNCHANGED storeVars  BY <1>1, StoreStays DEF storeVars
<1>2. CASE BundleDamaged  BY <1>2, BundleSteps
<1>3. ASSUME NEW p \in Procs, StoreStep(p)  PROVE StoreInv'
  <2>1. CASE PluginInstall(p) \/ PluginUpdate(p)  BY <2>1, InstallStep
  <2>2. CASE PluginPack(p)  BY <2>2, BundleSteps
  <2>3. CASE PluginInstallBundle(p)  BY <2>3, InstallBundleStep
  <2>4. CASE PluginDoctor(p) \/ PluginVerifyBundle(p) \/ PluginShow(p)
        BY <2>4, StoreStays DEF PluginDoctor, PluginVerifyBundle, PluginShow, Start
  <2>5. CASE MakeDir(p) \/ OpenArtifact(p) \/ FillArtifact(p)
        BY <2>5, MakeDirStep, OpenArtifactStep, FillArtifactStep
  <2>6. CASE OpenMeta(p) \/ FillMeta(p) \/ CleanArtifact(p)
        BY <2>6, OpenMetaStep, FillMetaStep, CleanArtifactStep
  <2>7. CASE PluginRemove(p) \/ RemoveEntry(p) \/ RemoveDir(p)
        BY <2>7, PluginRemoveStep, RemoveEntryStep, RemoveDirStep
  <2>8. CASE Stop(p)  BY <2>8, StopStep
  <2> QED BY <1>3, <2>1, <2>2, <2>3, <2>4, <2>5, <2>6, <2>7, <2>8 DEF StoreStep
<1> QED BY <1>1, <1>2, <1>3 DEF StoreNext

LEMMA StoreInvIsSound == StoreInv => StoreIsSound
PROOF
<1> SUFFICES ASSUME StoreInv  PROVE DamageIsRefused  BY DEF StoreInv, StoreIsSound
<1> QED BY StoreFacts DEF StoreInv, StoreType, Jobs, DamageIsRefused

(* Install, update, remove and bundles keep the store sound: with one command at a time a
   listed plugin has its complete artifact, except where a removal or an overwrite of that
   very file was cut short; and no command ever works with a damaged one. *)
THEOREM PluginStoreIsSound == StoreSpec => []StoreIsSound
PROOF
<1>1. StoreInv /\ [StoreNext]_storeVars => StoreInv'  BY StoreStepKeeps
<1> QED BY <1>1, StoreInitial, StoreInvIsSound, PTL DEF StoreSpec

-----------------------------------------------------------------------------
(* The audit: its gate sees every finding, and its findings are of the source. *)

\* A loop that stays in V has run at every position.
IsRun(f, b, n, G) == f[0] = b /\ \A i \in 1..n : f[i] = G[<<i, f[i - 1]>>]

LEMMA LoopRuns ==
    ASSUME NEW V, NEW b \in V, NEW n \in Nat, NEW G \in [(1..n) \X V -> V]
    PROVE  \E f \in [0..n -> V] : IsRun(f, b, n, G)
PROOF
<1> DEFINE Runs(f, k) == f \in [0..k -> V] /\ f[0] = b /\ \A i \in 1..k : f[i] = G[<<i, f[i - 1]>>]
           P == {k \in 0..n : \E f : Runs(f, k)}
<1>1. 0 \in P
  <2>1. Runs([i \in 0..0 |-> b], 0)  OBVIOUS
  <2> HIDE DEF Runs
  <2>2. \E f : Runs(f, 0)  BY <2>1, Zenon
  <2>3. 0 \in 0..n  OBVIOUS
  <2> QED BY <2>2, <2>3
<1>2. ASSUME NEW k \in 0..(n - 1), k \in P  PROVE k + 1 \in P
  <2>1. PICK f : Runs(f, k)  BY <1>2
  <2> DEFINE g == [i \in 0..(k + 1) |-> IF i = k + 1 THEN G[<<k + 1, f[k]>>] ELSE f[i]]
  <2>2. k \in Nat /\ k + 1 \in 1..n /\ k \in 0..k /\ k + 1 \in 0..n  OBVIOUS
  <2>3. f[k] \in V /\ G[<<k + 1, f[k]>>] \in V  BY <2>1, <2>2
  <2>4. g \in [0..(k + 1) -> V]  BY <2>1, <2>2, <2>3
  <2>5. g[0] = b  BY <2>1, <2>2
  <2>6. ASSUME NEW i \in 1..(k + 1)  PROVE g[i] = G[<<i, g[i - 1]>>]
    <3>1. CASE i = k + 1
      <4>1. g[i] = G[<<k + 1, f[k]>>] /\ g[i - 1] = f[k]  BY <2>2, <3>1
      <4> QED BY <3>1, <4>1
    <3>2. CASE i # k + 1
      <4>1. i \in 1..k /\ g[i] = f[i] /\ g[i - 1] = f[i - 1]  BY <2>2, <3>2
      <4> HIDE DEF g
      <4> QED BY <2>1, <4>1
    <3> QED BY <3>1, <3>2
  <2> HIDE DEF g
  <2>7. Runs(g, k + 1)  BY <2>4, <2>5, <2>6
  <2> QED BY <2>2, <2>7
<1>3. n \in P
  <2> HIDE DEF P
  <2>1. 0..n \subseteq P  BY <1>1, <1>2, Induction
  <2> QED BY <2>1
<1>4. PICK f : Runs(f, n)  BY <1>3
<1> QED BY <1>4 DEF IsRun

\* Registering one entry.
LEMMA RegisterOne ==
    ASSUME NEW E, NEW reg \in Seq(E), NEW e \in E
    PROVE  LET r == register_rule(reg, e)
           IN /\ r \in Seq(E)
              /\ RuleId(e) \in RuleIds(reg) => ToSet(r) = ToSet(reg) /\ RuleIds(r) = RuleIds(reg)
              /\ RuleId(e) \notin RuleIds(reg) =>
                   ToSet(r) = ToSet(reg) \cup {e} /\ RuleIds(r) = RuleIds(reg) \cup {RuleId(e)}
PROOF
<1>1. CASE RuleId(e) \in RuleIds(reg)
  <2>1. register_rule(reg, e) = reg  BY <1>1 DEF register_rule, RuleIds
  <2> QED BY <1>1, <2>1, Zenon
<1>2. CASE RuleId(e) \notin RuleIds(reg)
  <2>1. register_rule(reg, e) = Append(reg, e)  BY <1>2 DEF register_rule, RuleIds
  <2>2. /\ Append(reg, e) \in Seq(E) /\ Len(Append(reg, e)) = Len(reg) + 1 /\ Append(reg, e)[Len(reg) + 1] = e
        /\ \A i \in 1 .. Len(reg) : Append(reg, e)[i] = reg[i]
        BY AppendProperties
  <2>3. DOMAIN Append(reg, e) = 1 .. (Len(reg) + 1) /\ DOMAIN reg = 1 .. Len(reg) /\ Len(reg) \in Nat  BY <2>2
  <2> DEFINE r == Append(reg, e)
  <2> HIDE DEF r
  <2>4. 1 .. (Len(reg) + 1) = (1 .. Len(reg)) \cup {Len(reg) + 1}  BY <2>3
  <2>5. ToSet(r) = ToSet(reg) \cup {e}  BY <2>2, <2>3, <2>4 DEF ToSet, r
  <2>6. RuleIds(r) = RuleIds(reg) \cup {RuleId(e)}  BY <2>2, <2>3, <2>4 DEF RuleIds, r
  <2> QED BY <1>2, <2>1, <2>2, <2>5, <2>6, Zenon DEF r
<1> QED BY <1>1, <1>2

\* The entries of a list that are registered: the first of every id that is not taken.
Fresh(reg, entries, n) ==
    {k \in 1 .. n : /\ RuleId(entries[k]) \notin RuleIds(reg)
                    /\ \A m \in 1 .. (k - 1) : RuleId(entries[m]) # RuleId(entries[k])}

Registered(E, reg, entries, r) ==
    /\ r \in Seq(E)
    /\ ToSet(r) = ToSet(reg) \cup {entries[k] : k \in Fresh(reg, entries, Len(entries))}
    /\ RuleIds(r) = RuleIds(reg) \cup RuleIds(entries)

LEMMA RegisterAll ==
    ASSUME NEW E, NEW reg \in Seq(E), NEW entries \in Seq(E)
    PROVE  Registered(E, reg, entries, register_all(reg, entries))
PROOF
<1> DEFINE n == Len(entries)
           Loop(h) == [i \in 0 .. n |-> IF i = 0 THEN reg ELSE register_rule(h[i - 1], entries[i])]
<1>1. n \in Nat /\ DOMAIN entries = 1 .. n /\ \A i \in 1 .. n : entries[i] \in E  OBVIOUS
<1> HIDE DEF n
<1>2. \E h : h = Loop(h)
  <2> DEFINE G == [x \in (1 .. n) \X Seq(E) |-> register_rule(x[2], entries[x[1]])]
  <2>1. G \in [(1 .. n) \X Seq(E) -> Seq(E)]  BY <1>1, RegisterOne
  <2>2. \A i \in 1 .. n, v \in Seq(E) : G[<<i, v>>] = register_rule(v, entries[i])  OBVIOUS
  <2> HIDE DEF G
  <2>r. PICK f \in [0 .. n -> Seq(E)] : IsRun(f, reg, n, G)  BY <1>1, <2>1, LoopRuns
  <2>3. f[0] = reg /\ \A i \in 1 .. n : f[i] = G[<<i, f[i - 1]>>]  BY <2>r DEF IsRun
  <2>4. \A i \in 1 .. n : f[i] = register_rule(f[i - 1], entries[i])
    <3> SUFFICES ASSUME NEW i \in 1 .. n  PROVE f[i] = register_rule(f[i - 1], entries[i])  OBVIOUS
    <3>1. i - 1 \in 0 .. n  BY <1>1
    <3>2. f[i - 1] \in Seq(E)  BY <2>3, <3>1
    <3> QED BY <2>2, <2>3, <3>2
  <2>5. \A i \in 0 .. n : f[i] = Loop(f)[i]
    <3> SUFFICES ASSUME NEW i \in 0 .. n  PROVE f[i] = IF i = 0 THEN reg ELSE register_rule(f[i - 1], entries[i])
        OBVIOUS
    <3>1. CASE i = 0  BY <2>3, <3>1
    <3>2. CASE i # 0
      <4>1. i \in 1 .. n  BY <1>1, <3>2
      <4> QED BY <2>4, <3>2, <4>1
    <3> QED BY <3>1, <3>2
  <2>6. f = [i \in 0 .. n |-> f[i]]  BY <2>3
  <2>7. f = Loop(f)  BY <2>5, <2>6
  <2> QED BY <2>7
<1>3. PICK h : h = Loop(h) /\ register_all(reg, entries) = h[n]  BY <1>2 DEF register_all, n
<1>4. h[0] = reg /\ \A i \in 1 .. n : h[i] = register_rule(h[i - 1], entries[i])
  <2>1. 0 \in 0 .. n /\ \A i \in 1 .. n : i \in 0 .. n /\ i # 0  BY <1>1
  <2> QED BY <1>3, <2>1
<1> HIDE DEF Loop
<1> DEFINE P == {i \in 0 .. n : /\ h[i] \in Seq(E)
                                /\ ToSet(h[i]) = ToSet(reg) \cup {entries[k] : k \in Fresh(reg, entries, i)}
                                /\ RuleIds(h[i]) = RuleIds(reg) \cup {RuleId(entries[k]) : k \in 1 .. i}}
<1>5. 0 \in P
  <2>1. 1 .. 0 = {} /\ 0 \in 0 .. n  BY <1>1
  <2>2. Fresh(reg, entries, 0) = {}  BY <2>1 DEF Fresh
  <2>3. {entries[k] : k \in Fresh(reg, entries, 0)} = {} /\ {RuleId(entries[k]) : k \in 1 .. 0} = {}  BY <2>1, <2>2
  <2> QED BY <1>4, <2>1, <2>3
<1>6. ASSUME NEW i \in 0 .. (n - 1), i \in P  PROVE i + 1 \in P
  <2> DEFINE e == entries[i + 1]
  <2>1. i + 1 \in 1 .. n /\ i + 1 \in 0 .. n /\ (i + 1) - 1 = i /\ i \in Nat  BY <1>1
  <2>2. e \in E /\ h[i] \in Seq(E) /\ h[i + 1] = register_rule(h[i], e)  BY <1>1, <1>4, <1>6, <2>1
  <2>3. 1 .. (i + 1) = (1 .. i) \cup {i + 1}  BY <2>1
  <2> HIDE DEF e
  <2>4. {RuleId(entries[k]) : k \in 1 .. (i + 1)} = {RuleId(entries[k]) : k \in 1 .. i} \cup {RuleId(e)}
        BY <2>3 DEF e
  <2>5. RuleIds(h[i]) = RuleIds(reg) \cup {RuleId(entries[k]) : k \in 1 .. i}  BY <1>6
  <2>6. CASE RuleId(e) \in RuleIds(h[i])
    <3>1. Fresh(reg, entries, i + 1) = Fresh(reg, entries, i)
      <4>1. i + 1 \notin Fresh(reg, entries, i + 1)  BY <2>1, <2>5, <2>6 DEF Fresh, e
      <4> QED BY <2>3, <4>1 DEF Fresh
    <3>2. h[i + 1] \in Seq(E) /\ ToSet(h[i + 1]) = ToSet(h[i]) /\ RuleIds(h[i + 1]) = RuleIds(h[i])
          BY <2>2, <2>6, RegisterOne
    <3> QED BY <1>6, <2>1, <2>4, <2>5, <2>6, <3>1, <3>2
  <2>7. CASE RuleId(e) \notin RuleIds(h[i])
    <3>1. Fresh(reg, entries, i + 1) = Fresh(reg, entries, i) \cup {i + 1}
      <4>1. i + 1 \in Fresh(reg, entries, i + 1)  BY <2>1, <2>3, <2>5, <2>7 DEF Fresh, e
      <4> QED BY <2>3, <4>1 DEF Fresh
    <3>2. {entries[k] : k \in Fresh(reg, entries, i + 1)} = {entries[k] : k \in Fresh(reg, entries, i)} \cup {e}
          BY <3>1 DEF e
    <3>3. h[i + 1] \in Seq(E) /\ ToSet(h[i + 1]) = ToSet(h[i]) \cup {e} /\ RuleIds(h[i + 1]) = RuleIds(h[i]) \cup {RuleId(e)}
          BY <2>2, <2>7, RegisterOne
    <3> QED BY <1>6, <2>1, <2>4, <2>5, <3>2, <3>3
  <2> QED BY <2>6, <2>7
<1> HIDE DEF P
<1>7. n \in P
  <2>1. 0 .. n \subseteq P  BY <1>1, <1>5, <1>6, Induction
  <2> QED BY <1>1, <2>1
<1>8. RuleIds(entries) = {RuleId(entries[k]) : k \in 1 .. n}  BY <1>1 DEF RuleIds
<1> QED BY <1>3, <1>7, <1>8 DEF P, n, Registered

\* What is kept of a list is of that list.
LEMMA AmongIsOf ==
    ASSUME NEW E, NEW ps \in Seq(E), NEW good
    PROVE  Among(ps, good) \in Seq(E) /\ ToSet(Among(ps, good)) \subseteq ToSet(ps) \cap good
PROOF
<1> DEFINE n == Len(ps)
           next(kept, i) == IF ps[i] \in good THEN Append(kept, ps[i]) ELSE kept
           Loop(h) == [i \in 0 .. n |-> IF i = 0 THEN <<>> ELSE next(h[i - 1], i)]
<1>1. n \in Nat /\ DOMAIN ps = 1 .. n /\ \A i \in 1 .. n : ps[i] \in E  OBVIOUS
<1>0. \A kept \in Seq(E) : \A i \in 1 .. n :
          /\ next(kept, i) \in Seq(E)
          /\ ToSet(next(kept, i)) \subseteq ToSet(kept) \cup (ToSet(ps) \cap good)
  <2> SUFFICES ASSUME NEW kept \in Seq(E), NEW i \in 1 .. n
               PROVE  /\ next(kept, i) \in Seq(E)
                      /\ ToSet(next(kept, i)) \subseteq ToSet(kept) \cup (ToSet(ps) \cap good)
      OBVIOUS
  <2>1. CASE ps[i] \in good
    <3>1. ps[i] \in E /\ ps[i] \in ToSet(ps)  BY <1>1 DEF ToSet
    <3>2. /\ Append(kept, ps[i]) \in Seq(E) /\ Len(Append(kept, ps[i])) = Len(kept) + 1
          /\ Append(kept, ps[i])[Len(kept) + 1] = ps[i]
          /\ \A j \in 1 .. Len(kept) : Append(kept, ps[i])[j] = kept[j]
          BY <3>1, AppendProperties
    <3>3. DOMAIN Append(kept, ps[i]) = (1 .. Len(kept)) \cup {Len(kept) + 1} /\ DOMAIN kept = 1 .. Len(kept)
          BY <3>2
    <3>4. ToSet(Append(kept, ps[i])) \subseteq ToSet(kept) \cup {ps[i]}  BY <3>2, <3>3 DEF ToSet
    <3> QED BY <2>1, <3>1, <3>2, <3>4
  <2>2. CASE ps[i] \notin good  BY <2>2
  <2> QED BY <2>1, <2>2
<1> HIDE DEF n, next
<1>2. \E h : h = Loop(h)
  <2> DEFINE G == [x \in (1 .. n) \X Seq(E) |-> next(x[2], x[1])]
  <2>1. G \in [(1 .. n) \X Seq(E) -> Seq(E)]  BY <1>0
  <2>2. \A i \in 1 .. n, v \in Seq(E) : G[<<i, v>>] = next(v, i)  OBVIOUS
  <2>3. <<>> \in Seq(E)  OBVIOUS
  <2> HIDE DEF G
  <2>4. PICK f \in [0 .. n -> Seq(E)] : IsRun(f, <<>>, n, G)  BY <1>1, <2>1, <2>3, LoopRuns
  <2>5. f[0] = <<>> /\ \A i \in 1 .. n : f[i] = G[<<i, f[i - 1]>>]  BY <2>4 DEF IsRun
  <2>6. ASSUME NEW i \in 1 .. n  PROVE f[i] = next(f[i - 1], i)
    <3>1. i - 1 \in 0 .. n  BY <1>1
    <3>2. f[i - 1] \in Seq(E)  BY <3>1
    <3> QED BY <2>2, <2>5, <3>2
  <2>7. ASSUME NEW i \in 0 .. n  PROVE f[i] = IF i = 0 THEN <<>> ELSE next(f[i - 1], i)
    <3>1. CASE i = 0  BY <2>5, <3>1
    <3>2. CASE i # 0
      <4>1. i \in 1 .. n  BY <1>1, <3>2
      <4> QED BY <2>6, <3>2, <4>1
    <3> QED BY <3>1, <3>2
  <2>8. f = [i \in 0 .. n |-> f[i]]  OBVIOUS
  <2>9. f = Loop(f)  BY <2>7, <2>8
  <2> QED BY <2>9
<1>3. PICK h : h = Loop(h) /\ Among(ps, good) = h[n]  BY <1>2 DEF Among, n, next
<1>4. h[0] = <<>> /\ \A i \in 1 .. n : h[i] = next(h[i - 1], i)
  <2>1. 0 \in 0 .. n /\ \A i \in 1 .. n : i \in 0 .. n /\ i # 0  BY <1>1
  <2> QED BY <1>3, <2>1
<1> HIDE DEF Loop
<1> DEFINE P == {i \in 0 .. n : h[i] \in Seq(E) /\ ToSet(h[i]) \subseteq ToSet(ps) \cap good}
<1>5. 0 \in P
  <2>1. 0 \in 0 .. n  BY <1>1
  <2>2. <<>> \in Seq(E) /\ ToSet(<<>>) = {}  BY DEF ToSet
  <2> QED BY <1>4, <2>1, <2>2
<1>6. ASSUME NEW i \in 0 .. (n - 1), i \in P  PROVE i + 1 \in P
  <2>1. i + 1 \in 1 .. n /\ i + 1 \in 0 .. n /\ (i + 1) - 1 = i  BY <1>1
  <2>2. h[i + 1] = next(h[i], i + 1)  BY <1>4, <2>1
  <2>3. h[i] \in Seq(E) /\ ToSet(h[i]) \subseteq ToSet(ps) \cap good  BY <1>6
  <2>4. h[i + 1] \in Seq(E) /\ ToSet(h[i + 1]) \subseteq ToSet(h[i]) \cup (ToSet(ps) \cap good)
        BY <1>0, <2>1, <2>2, <2>3
  <2> QED BY <2>1, <2>3, <2>4
<1> HIDE DEF P
<1>7. n \in P
  <2>1. 0 .. n \subseteq P  BY <1>1, <1>5, <1>6, Induction
  <2> QED BY <1>1, <2>1
<1> QED BY <1>3, <1>7 DEF P

\* Every plugin there is, and every entry that a registry can hold.
Plugins == UNION {ToSet(ps) : ps \in Installed \cup {r.rules : r \in Requests}}
Builtins == {Builtin(all_rules[i]) : i \in 1 .. Len(all_rules)}
Entries == Plugins \cup Builtins \cup {Builtin("EXAMPLE-001")}

LEMMA EntryFacts ==
    /\ \A p \in Plugins : "rule" \in DOMAIN p /\ p.severity \in Severities /\ RuleId(p) = p.rule
    /\ \A id : "rule" \notin DOMAIN Builtin(id) /\ Builtin(id).builtin = id /\ RuleId(Builtin(id)) = id
    /\ \A ps \in Installed \cup {r.rules : r \in Requests} : ps \in Seq(Plugins)
    /\ [i \in 1 .. Len(all_rules) |-> Builtin(all_rules[i])] \in Seq(Builtins)
    /\ ToSet([i \in 1 .. Len(all_rules) |-> Builtin(all_rules[i])]) = Builtins
    /\ <<>> \in Seq(Entries) /\ Seq(Plugins) \subseteq Seq(Entries) /\ Seq(Builtins) \subseteq Seq(Entries)
PROOF
<1>1. ASSUME NEW p \in Plugins  PROVE "rule" \in DOMAIN p /\ p.severity \in Severities /\ RuleId(p) = p.rule
  <2>1. PICK ps \in Installed \cup {r.rules : r \in Requests} : p \in ToSet(ps)  BY DEF Plugins
  <2>0. DOMAIN ps = 1 .. Len(ps)  BY PluginsAssumption
  <2>2. PICK i \in 1 .. Len(ps) : p = ps[i]  BY <2>0, <2>1 DEF ToSet
  <2> QED BY <2>2, PluginsAssumption DEF RuleId
<1>2. \A id : "rule" \notin DOMAIN Builtin(id) /\ Builtin(id).builtin = id /\ RuleId(Builtin(id)) = id
      BY DEF Builtin, RuleId
<1>3. ASSUME NEW ps \in Installed \cup {r.rules : r \in Requests}  PROVE ps \in Seq(Plugins)
  <2>1. Len(ps) \in Nat /\ ps = [i \in 1 .. Len(ps) |-> ps[i]] /\ DOMAIN ps = 1 .. Len(ps)  BY PluginsAssumption
  <2>2. \A i \in 1 .. Len(ps) : ps[i] \in Plugins  BY <2>1 DEF Plugins, ToSet
  <2>3. PICK n \in Nat : n = Len(ps)  BY <2>1
  <2>4. [i \in 1 .. n |-> ps[i]] \in Seq(Plugins)  BY <2>2, <2>3
  <2> QED BY <2>1, <2>3, <2>4
<1>4. Len(all_rules) = 7  BY DEF all_rules
<1>5. [i \in 1 .. Len(all_rules) |-> Builtin(all_rules[i])] \in Seq(Builtins)
  <2>1. \A i \in 1 .. Len(all_rules) : Builtin(all_rules[i]) \in Builtins  BY DEF Builtins
  <2> QED BY <1>4, <2>1
<1>6. ToSet([i \in 1 .. Len(all_rules) |-> Builtin(all_rules[i])]) = Builtins  BY DEF ToSet, Builtins
<1>7. <<>> \in Seq(Entries) /\ Seq(Plugins) \subseteq Seq(Entries) /\ Seq(Builtins) \subseteq Seq(Entries)
      BY DEF Entries
<1> QED BY <1>1, <1>2, <1>3, <1>5, <1>6, <1>7

-----------------------------------------------------------------------------
\* What the registries hold

BuiltinIds == {all_rules[i] : i \in 1 .. Len(all_rules)}

LEMMA BuiltinById ==
    /\ \A e \in Builtins : RuleId(e) \in BuiltinIds /\ e = Builtin(RuleId(e))
    /\ RuleIds([i \in 1 .. Len(all_rules) |-> Builtin(all_rules[i])]) = BuiltinIds
    /\ BuiltinIds = ToSet(all_rules) /\ "EXAMPLE-001" \notin BuiltinIds
PROOF
<1>1. \A e \in Builtins : RuleId(e) \in BuiltinIds /\ e = Builtin(RuleId(e))
      BY EntryFacts DEF Builtins, BuiltinIds
<1>2. RuleIds([i \in 1 .. Len(all_rules) |-> Builtin(all_rules[i])]) = BuiltinIds
      BY EntryFacts DEF RuleIds, BuiltinIds
<1>3. DOMAIN all_rules = 1 .. Len(all_rules)  BY DEF all_rules
<1>4. BuiltinIds = ToSet(all_rules)  BY <1>3 DEF BuiltinIds, ToSet
<1>5. "EXAMPLE-001" \notin BuiltinIds
  <2> SUFFICES ASSUME NEW i \in 1 .. Len(all_rules)  PROVE all_rules[i] # "EXAMPLE-001"  BY DEF BuiltinIds
  <2>1. Len(all_rules) = 7  BY DEF all_rules
  <2>2. i \in {1, 2, 3, 4, 5, 6, 7}  BY <2>1
  <2> QED BY <2>2 DEF all_rules
<1> QED BY <1>1, <1>2, <1>4, <1>5

LEMMA SetOfIds ==
    ASSUME NEW E, NEW reg \in Seq(E)  PROVE RuleIds(reg) = {RuleId(e) : e \in ToSet(reg)}
  BY DEF RuleIds, ToSet

\* The built-in rules join what is there, if nobody has taken one of their ids.
LEMMA BuiltinsJoin ==
    ASSUME NEW reg \in Seq(Entries), \A x \in ToSet(reg) : RuleId(x) \in BuiltinIds => x \in Builtins
    PROVE  /\ register_builtin_rules(reg) \in Seq(Entries)
           /\ ToSet(register_builtin_rules(reg)) = ToSet(reg) \cup Builtins
PROOF
<1> DEFINE b == [i \in 1 .. Len(all_rules) |-> Builtin(all_rules[i])]
           r == register_builtin_rules(reg)
<1>1. b \in Seq(Entries) /\ ToSet(b) = Builtins /\ RuleIds(b) = BuiltinIds  BY EntryFacts, BuiltinById
<1>2. r = register_all(reg, b)  BY DEF register_builtin_rules
<1> HIDE DEF b, r
<1>3. /\ r \in Seq(Entries) /\ RuleIds(r) = RuleIds(reg) \cup RuleIds(b)
      /\ ToSet(r) = ToSet(reg) \cup {b[k] : k \in Fresh(reg, b, Len(b))}
  <2>1. Registered(Entries, reg, b, r)  BY <1>1, <1>2, RegisterAll
  <2> QED BY <2>1 DEF Registered
<1>4. {b[k] : k \in Fresh(reg, b, Len(b))} \subseteq Builtins  BY <1>1 DEF Fresh, ToSet
<1>5. ASSUME NEW e \in Builtins  PROVE e \in ToSet(r)
  <2>1. RuleId(e) \in RuleIds(r)  BY <1>1, <1>3, BuiltinById
  <2>2. PICK x \in ToSet(r) : RuleId(x) = RuleId(e)  BY <1>3, <2>1, SetOfIds
  <2>3. x \in Builtins  BY <1>3, <1>4, <2>2, BuiltinById
  <2>4. x = e  BY <2>2, <2>3, BuiltinById
  <2> QED BY <2>2, <2>4
<1> QED BY <1>3, <1>4, <1>5 DEF r

\* In an audit of one file, the registry that plugins, the linked rule and the built-in
\* rules make of an empty one.
SingleRegistry ==
    LET plugins == register_all(<<>>, Loaded)
        example == IF "native" \in features THEN register_rule(plugins, Builtin("EXAMPLE-001")) ELSE plugins
    IN register_builtin_rules(example)

Own == {Loaded[k] : k \in Fresh(<<>>, Loaded, Len(Loaded))}
Linked == IF "native" \in features THEN {Builtin("EXAMPLE-001")} ELSE {}
OwnIds == \A i \in DOMAIN chosen : chosen[i].rule \notin ToSet(all_rules) \cup {"EXAMPLE-001"}

LEMMA LoadedFacts ==
    ASSUME chosen \in Seq(Plugins)
    PROVE  /\ Loaded \in Seq(Plugins) /\ Loaded \in Seq(Entries)
           /\ Own \subseteq Plugins /\ Own \subseteq ToSet(Loaded)
           /\ RuleIds(<<>>) = {} /\ ToSet(<<>>) = {}
           /\ OwnIds => \A p \in ToSet(Loaded) : RuleId(p) \notin BuiltinIds \cup {"EXAMPLE-001"}
PROOF
<1>1. Loaded \in Seq(Plugins) /\ ToSet(Loaded) \subseteq ToSet(chosen)  BY AmongIsOf DEF Loaded
<1>2. Loaded \in Seq(Entries)  BY <1>1, EntryFacts
<1>3. Own \subseteq ToSet(Loaded) /\ ToSet(Loaded) \subseteq Plugins
  <2> HIDE DEF Loaded
  <2>1. DOMAIN Loaded = 1 .. Len(Loaded) /\ \A k \in 1 .. Len(Loaded) : Loaded[k] \in Plugins  BY <1>1
  <2> QED BY <2>1 DEF Own, Fresh, ToSet
<1>4. RuleIds(<<>>) = {} /\ ToSet(<<>>) = {}  BY DEF RuleIds, ToSet
<1>5. ASSUME OwnIds, NEW p \in ToSet(Loaded)  PROVE RuleId(p) \notin BuiltinIds \cup {"EXAMPLE-001"}
  <2>1. p \in Plugins /\ p \in ToSet(chosen)  BY <1>1, <1>3
  <2>2. RuleId(p) = p.rule  BY <2>1, EntryFacts
  <2> QED BY <1>5, <2>1, <2>2, BuiltinById DEF OwnIds, ToSet
<1> QED BY <1>1, <1>2, <1>3, <1>4, <1>5

LEMMA LocalHolds ==
    ASSUME chosen \in Seq(Plugins)
    PROVE  /\ local_registry \in Seq(Entries)
           /\ OwnIds => ToSet(local_registry) = Builtins \cup Own
PROOF
<1> DEFINE b == register_builtin_rules(<<>>)
<1>1. b \in Seq(Entries) /\ ToSet(b) = Builtins  BY EntryFacts, BuiltinsJoin, LoadedFacts
<1>2. RuleIds(b) = BuiltinIds
  <2>1. RuleIds(b) = {RuleId(e) : e \in Builtins}  BY <1>1, SetOfIds
  <2>2. {RuleId(e) : e \in Builtins} = BuiltinIds  BY EntryFacts DEF Builtins, BuiltinIds
  <2> QED BY <2>1, <2>2
<1> HIDE DEF b
<1>3. /\ local_registry \in Seq(Entries)
      /\ ToSet(local_registry) = ToSet(b) \cup {Loaded[k] : k \in Fresh(b, Loaded, Len(Loaded))}
  <2>1. Loaded \in Seq(Entries)  BY LoadedFacts
  <2>2. local_registry = register_all(b, Loaded)  BY DEF local_registry, b
  <2> HIDE DEF Loaded
  <2>3. Registered(Entries, b, Loaded, local_registry)  BY <1>1, <2>1, <2>2, RegisterAll
  <2> QED BY <2>3 DEF Registered
<1>4. ASSUME OwnIds  PROVE Fresh(b, Loaded, Len(Loaded)) = Fresh(<<>>, Loaded, Len(Loaded))
  <2>1. \A k \in 1 .. Len(Loaded) : RuleId(Loaded[k]) \notin BuiltinIds
    <3>1. \A k \in 1 .. Len(Loaded) : Loaded[k] \in ToSet(Loaded)  BY LoadedFacts DEF ToSet
    <3> QED BY <1>4, <3>1, LoadedFacts
  <2> HIDE DEF Loaded
  <2> QED BY <1>2, <2>1, LoadedFacts DEF Fresh
<1> QED BY <1>1, <1>3, <1>4 DEF Own

\* A list that is registered once more adds nothing.
LEMMA RegisterAgain ==
    ASSUME NEW E, NEW reg \in Seq(E), NEW entries \in Seq(E), RuleIds(entries) \subseteq RuleIds(reg)
    PROVE  ToSet(register_all(reg, entries)) = ToSet(reg)
PROOF
<1>1. Registered(E, reg, entries, register_all(reg, entries))  BY RegisterAll
<1>2. Fresh(reg, entries, Len(entries)) = {}  BY DEF Fresh, RuleIds
<1> QED BY <1>1, <1>2 DEF Registered

\* The plugins, the linked rule and the built-in rules, from what a registry holds.
LEMMA SingleHolds ==
    ASSUME chosen \in Seq(Plugins), NEW reg \in Seq(Entries), OwnIds,
           ToSet(reg) = {} \/ (ToSet(reg) = Builtins \cup Own \cup Linked /\ RuleIds(Loaded) \subseteq RuleIds(reg))
    PROVE  LET plugins == register_all(reg, Loaded)
               example == IF "native" \in features THEN register_rule(plugins, Builtin("EXAMPLE-001")) ELSE plugins
               r == register_builtin_rules(example)
           IN r \in Seq(Entries) /\ ToSet(r) = Builtins \cup Own \cup Linked /\ RuleIds(Loaded) \subseteq RuleIds(r)
PROOF
<1> DEFINE plugins == register_all(reg, Loaded)
           EX == Builtin("EXAMPLE-001")
           example == IF "native" \in features THEN register_rule(plugins, EX) ELSE plugins
           r == register_builtin_rules(example)
<1>0. /\ Loaded \in Seq(Entries) /\ Own \subseteq ToSet(Loaded)
      /\ \A p \in ToSet(Loaded) : RuleId(p) \notin BuiltinIds \cup {"EXAMPLE-001"}
      BY LoadedFacts
<1>e. RuleId(EX) = "EXAMPLE-001" /\ EX \in Entries /\ "EXAMPLE-001" \notin BuiltinIds
      BY EntryFacts, BuiltinById DEF Entries
<1> HIDE DEF EX
<1>1. plugins \in Seq(Entries) /\ RuleIds(Loaded) \subseteq RuleIds(plugins)
  <2>1. Registered(Entries, reg, Loaded, plugins)  BY <1>0, RegisterAll
  <2> QED BY <2>1 DEF Registered
<1>2. ToSet(plugins) = Own \/ ToSet(plugins) = Builtins \cup Own \cup Linked
  <2>1. CASE ToSet(reg) = {}
    <3>1. Registered(Entries, reg, Loaded, plugins)  BY <1>0, RegisterAll
    <3>2. RuleIds(reg) = {} /\ RuleIds(<<>>) = {}  BY <2>1, SetOfIds, LoadedFacts
    <3>3. Fresh(reg, Loaded, Len(Loaded)) = Fresh(<<>>, Loaded, Len(Loaded))  BY <3>2 DEF Fresh
    <3>4. ToSet(plugins) = Own
      <4>1. ToSet(plugins) = ToSet(reg) \cup {Loaded[k] : k \in Fresh(<<>>, Loaded, Len(Loaded))}
            BY <3>1, <3>3 DEF Registered
      <4> QED BY <2>1, <4>1 DEF Own
    <3> QED BY <3>4
  <2>2. CASE ToSet(reg) = Builtins \cup Own \cup Linked /\ RuleIds(Loaded) \subseteq RuleIds(reg)
        BY <1>0, <2>2, RegisterAgain
  <2> QED BY <2>1, <2>2
<1> HIDE DEF plugins
<1>3. \A x \in Own : RuleId(x) \notin BuiltinIds \cup {"EXAMPLE-001"}  BY <1>0
<1>4. \A x \in Builtins : RuleId(x) \in BuiltinIds  BY BuiltinById
<1>5. /\ example \in Seq(Entries) /\ RuleIds(Loaded) \subseteq RuleIds(example)
      /\ ToSet(example) = Own \cup Linked \/ ToSet(example) = Builtins \cup Own \cup Linked
  <2>1. CASE "native" \notin features  BY <1>1, <1>2, <2>1 DEF Linked
  <2>2. CASE "native" \in features
    <3>1. example = register_rule(plugins, EX) /\ Linked = {EX}  BY <2>2 DEF Linked, EX
    <3>2. /\ register_rule(plugins, EX) \in Seq(Entries)
          /\ RuleId(EX) \in RuleIds(plugins) => /\ ToSet(register_rule(plugins, EX)) = ToSet(plugins)
                                                /\ RuleIds(register_rule(plugins, EX)) = RuleIds(plugins)
          /\ RuleId(EX) \notin RuleIds(plugins) =>
                /\ ToSet(register_rule(plugins, EX)) = ToSet(plugins) \cup {EX}
                /\ RuleIds(register_rule(plugins, EX)) = RuleIds(plugins) \cup {RuleId(EX)}
          BY <1>1, <1>e, RegisterOne
    <3>3. CASE ToSet(plugins) = Own
      <4>1. RuleId(EX) \notin RuleIds(plugins)  BY <1>1, <1>3, <1>e, <3>3, SetOfIds
      <4> QED BY <1>1, <3>1, <3>2, <3>3, <4>1
    <3>4. CASE ToSet(plugins) = Builtins \cup Own \cup Linked
      <4>1. RuleId(EX) \in RuleIds(plugins)  BY <1>1, <3>1, <3>4, SetOfIds
      <4> QED BY <1>1, <3>1, <3>2, <3>4, <4>1
    <3> QED BY <1>2, <3>3, <3>4
  <2> QED BY <2>1, <2>2
<1>6. \A x \in Linked : RuleId(x) \notin BuiltinIds  BY <1>e DEF Linked, EX
<1> HIDE DEF example
<1>7. \A x \in ToSet(example) : RuleId(x) \in BuiltinIds => x \in Builtins  BY <1>3, <1>5, <1>6
<1>8. r \in Seq(Entries) /\ ToSet(r) = ToSet(example) \cup Builtins  BY <1>5, <1>7, BuiltinsJoin
<1>9. RuleIds(Loaded) \subseteq RuleIds(r)
  <2>1. RuleIds(r) = {RuleId(e) : e \in ToSet(r)} /\ RuleIds(example) = {RuleId(e) : e \in ToSet(example)}
        BY <1>5, <1>8, SetOfIds
  <2> QED BY <1>5, <1>8, <2>1
<1>10. r \in Seq(Entries) /\ ToSet(r) = Builtins \cup Own \cup Linked /\ RuleIds(Loaded) \subseteq RuleIds(r)
       BY <1>5, <1>8, <1>9
<1> QED BY <1>10 DEF r, example, plugins, EX

\* The typing of the same, whatever ids the plugins have.
LEMMA SingleTyped ==
    ASSUME chosen \in Seq(Plugins), NEW reg \in Seq(Entries)
    PROVE  LET plugins == register_all(reg, Loaded)
               example == IF "native" \in features THEN register_rule(plugins, Builtin("EXAMPLE-001")) ELSE plugins
           IN register_builtin_rules(example) \in Seq(Entries)
PROOF
<1> DEFINE plugins == register_all(reg, Loaded)
           EX == Builtin("EXAMPLE-001")
           b == [i \in 1 .. Len(all_rules) |-> Builtin(all_rules[i])]
           example == IF "native" \in features THEN register_rule(plugins, EX) ELSE plugins
<1>1. Loaded \in Seq(Entries) /\ EX \in Entries /\ b \in Seq(Entries)  BY LoadedFacts, EntryFacts DEF Entries
<1> HIDE DEF EX, b
<1>2. Registered(Entries, reg, Loaded, plugins)  BY <1>1, RegisterAll
<1>3. plugins \in Seq(Entries)  BY <1>2 DEF Registered
<1> HIDE DEF plugins
<1>4. register_rule(plugins, EX) \in Seq(Entries)  BY <1>1, <1>3, RegisterOne
<1>5. example \in Seq(Entries)  BY <1>3, <1>4
<1> HIDE DEF example
<1>6. Registered(Entries, example, b, register_all(example, b))  BY <1>1, <1>5, RegisterAll
<1>7. register_builtin_rules(example) \in Seq(Entries)  BY <1>6 DEF Registered, register_builtin_rules, b
<1> QED BY <1>7 DEF example, plugins, EX

\* What a file is told depends on what the registry holds and not on the order.
FindingsIn(held, fns, spec, disabled) ==
    UNION {FindingsOf(e, fns, spec) : e \in {x \in held : RuleId(x) \notin disabled}}

LEMMA RunAllFinds ==
    ASSUME NEW reg, NEW fns, NEW spec, NEW disabled
    PROVE  run_all(reg, fns, spec, disabled).findings = FindingsIn(ToSet(reg), fns, spec, disabled)
  BY DEF run_all, FindingsIn

\* The linked rule only says what carries its id.
LEMMA LinkedSays ==
    ASSUME NEW held, NEW fns, NEW spec, NEW disabled
    PROVE  LET with == FindingsIn(held \cup Linked, fns, spec, disabled)
               without == FindingsIn(held, fns, spec, disabled)
           IN without = {f \in with : f.rule # "EXAMPLE-001"} \cup {f \in without : f.rule = "EXAMPLE-001"}
PROOF
<1>1. \A e \in Linked : \A f \in FindingsOf(e, fns, spec) : f.rule = "EXAMPLE-001"
      BY EntryFacts DEF Linked, FindingsOf, ExampleRule, Found
<1>2. FindingsIn(held, fns, spec, disabled) \subseteq FindingsIn(held \cup Linked, fns, spec, disabled)
      BY DEF FindingsIn
<1>3. \A f \in FindingsIn(held \cup Linked, fns, spec, disabled) :
          f \in FindingsIn(held, fns, spec, disabled) \/ f.rule = "EXAMPLE-001"
      BY <1>1 DEF FindingsIn
<1> QED BY <1>2, <1>3

-----------------------------------------------------------------------------
\* The command

AuditType ==
    /\ tree \in Trees /\ request \in Requests /\ installed \in Installed
    /\ chosen \in Seq(Plugins) /\ registry \in Seq(Entries)
    /\ reports \in Seq(ToSet(reports))
    /\ \A r \in ToSet(reports) : \A f \in r.findings : f.severity \in Severities

Ends ==
    /\ auditPc \in {"start", "choose"} => registry = <<>> /\ reports = <<>>
    /\ auditPc \in {"start", "choose", "files"} => exit = 9
    /\ (auditPc = "done" /\ exit = 0 /\ ~request.list /\ request.fail_on # "none") => ~audit_gate_trips(request.fail_on)

\* What was reported so far, and the registry it came from.
ReportsFollow ==
    auditPc = "files" =>
        /\ registry = <<>> \/ (single_file /\ registry = SingleRegistry /\ Len(reports) >= 1)
        /\ \A i \in 1 .. Len(reports) :
              tree[i].state = "ok" =>
                reports[i].findings = run_all(IF single_file THEN SingleRegistry ELSE local_registry, tree[i].fns,
                                              request.spec, request.disable).findings

AuditInv == AuditType /\ Ends /\ ReportsFollow

LEMMA BuiltinGrades ==
    ASSUME NEW rule, NEW fns, NEW spec, NEW f \in BuiltinFindings(rule, fns, spec)  PROVE f.severity \in Severities
PROOF
<1>1. \A g : privileged_match_severity(g) \in Severities  BY DEF privileged_match_severity, Severities
<1>2. \A r, s, g : Found(r, s, g).severity = s  BY DEF Found
<1>3. "critical" \in Severities /\ "warning" \in Severities  BY DEF Severities
<1>4. f \in Auth001(fns, spec) => f.severity \in Severities  BY <1>1, <1>2 DEF Auth001
<1>5. f \in Auth002(fns, spec) => f.severity \in Severities  BY <1>2, <1>3 DEF Auth002
<1>6. f \in Auth003(fns, spec) => f.severity \in Severities  BY <1>2, <1>3 DEF Auth003
<1>7. f \in Auth004(fns, spec) => f.severity \in Severities  BY <1>1, <1>2 DEF Auth004
<1>8. f \in Move001(fns, spec) => f.severity \in Severities  BY <1>2, <1>3 DEF Move001
<1>9. f \in Math001(fns, spec) => f.severity \in Severities  BY <1>2, <1>3 DEF Math001
<1>10. f \in Cei001(fns, spec) => f.severity \in Severities  BY <1>2, <1>3 DEF Cei001
<1>11. \/ f \in Auth001(fns, spec) \/ f \in Auth002(fns, spec) \/ f \in Auth003(fns, spec) \/ f \in Auth004(fns, spec)
       \/ f \in Move001(fns, spec) \/ f \in Math001(fns, spec) \/ f \in Cei001(fns, spec)
       BY DEF BuiltinFindings
<1> QED BY <1>4, <1>5, <1>6, <1>7, <1>8, <1>9, <1>10, <1>11

\* Every finding has one of the three severities.
LEMMA FindingsAreGraded ==
    ASSUME NEW reg \in Seq(Entries), NEW fns, NEW spec, NEW disabled, NEW f \in run_all(reg, fns, spec, disabled).findings
    PROVE  f.severity \in Severities
PROOF
<1>1. PICK e \in ToSet(reg) : f \in FindingsOf(e, fns, spec)  BY DEF run_all
<1>2. e \in Entries  BY <1>1 DEF ToSet
<1>3. \A r, s, g : Found(r, s, g).severity = s  BY DEF Found
<1>4. "info" \in Severities /\ "warning" \in Severities  BY DEF Severities
<1>5. CASE e \in Plugins
  <2>1. "rule" \in DOMAIN e /\ e.severity \in Severities  BY <1>5, EntryFacts
  <2>2. f \in wasm_check(e, fns) => f.severity \in Severities  BY <1>3, <1>4, <2>1 DEF wasm_check
  <2>3. f \in native_check(e, fns) => f.severity \in Severities  BY <1>3, <1>4, <2>1 DEF native_check
  <2> QED BY <1>1, <2>1, <2>2, <2>3 DEF FindingsOf
<1>6. CASE e \notin Plugins
  <2>1. "rule" \notin DOMAIN e  BY <1>2, <1>6, EntryFacts DEF Entries, Builtins
  <2>2. f \in ExampleRule(fns) => f.severity \in Severities  BY <1>3, <1>4 DEF ExampleRule
  <2> QED BY <1>1, <2>1, <2>2, BuiltinGrades DEF FindingsOf
<1> QED BY <1>5, <1>6

LEMMA ReportAdds ==
    ASSUME AuditType, NEW r, reports' = Append(reports, r), \A f \in r.findings : f.severity \in Severities
    PROVE  /\ reports' \in Seq(ToSet(reports')) /\ \A x \in ToSet(reports') : \A f \in x.findings : f.severity \in Severities
           /\ Len(reports) \in Nat /\ Len(reports') = Len(reports) + 1 /\ reports'[Len(reports) + 1] = r
           /\ \A i \in 1 .. Len(reports) : reports'[i] = reports[i]
PROOF
<1> DEFINE R == ToSet(reports) \cup {r}
           q == Append(reports, r)
<1>1. reports \in Seq(R) /\ r \in R  BY DEF AuditType
<1> HIDE DEF R
<1>2. /\ q \in Seq(R) /\ Len(q) = Len(reports) + 1 /\ q[Len(reports) + 1] = r
      /\ \A i \in 1 .. Len(reports) : q[i] = reports[i]
      /\ Len(reports) \in Nat
      BY <1>1, AppendProperties
<1>3. DOMAIN q = (1 .. Len(reports)) \cup {Len(reports) + 1} /\ DOMAIN reports = 1 .. Len(reports)
      BY <1>1, <1>2
<1> HIDE DEF q
<1>4. ToSet(q) = R  BY <1>2, <1>3 DEF ToSet, R
<1>5. \A x \in R : \A f \in x.findings : f.severity \in Severities  BY DEF R, AuditType
<1>6. reports' = q  BY DEF q
<1> QED BY <1>2, <1>4, <1>5, <1>6, Zenon

LEMMA AuditStarts == AuditInit => AuditInv
PROOF
<1> SUFFICES ASSUME AuditInit  PROVE AuditInv  OBVIOUS
<1>1. <<>> \in Seq(Plugins) /\ <<>> \in Seq(Entries) /\ ToSet(<<>>) = {}  BY DEF ToSet
<1>2. <<>> \in Seq(ToSet(<<>>))  OBVIOUS
<1> QED BY <1>1, <1>2 DEF AuditInit, AuditInv, AuditType, Ends, ReportsFollow

\* A command that ends, or that goes on without a report.
LEMMA AuditLeaves ==
    ASSUME AuditInv, UNCHANGED <<tree, installed, request, features, reports>>, auditPc # "done",
           registry' \in Seq(Entries), chosen' \in Seq(Plugins), auditPc' = "done",
           (exit' = 0 /\ ~request.list /\ request.fail_on # "none") => ~audit_gate_trips(request.fail_on)
    PROVE  AuditInv'
PROOF
<1>1. AuditType'  BY DEF AuditInv, AuditType
<1>2. audit_gate_trips(request.fail_on)' = audit_gate_trips(request.fail_on)
      BY DEF audit_gate_trips, aggregate_summary
<1>3. Ends'  BY <1>2 DEF AuditInv, Ends
<1> QED BY <1>1, <1>3 DEF AuditInv, ReportsFollow

\* One more file is done and the command goes on.
LEMMA FileIsReported ==
    ASSUME AuditInv, UNCHANGED <<tree, installed, request, features, auditPc, chosen, exit>>, auditPc = "files",
           NEW r, reports' = Append(reports, r), \A f \in r.findings : f.severity \in Severities,
           registry' \in Seq(Entries), UNCHANGED registry \/ (single_file /\ registry' = SingleRegistry),
           tree[Len(reports) + 1].state = "ok" =>
             r.findings = run_all(IF single_file THEN SingleRegistry ELSE local_registry, tree[Len(reports) + 1].fns,
                                  request.spec, request.disable).findings
    PROVE  AuditInv'
PROOF
<1>1. /\ reports' \in Seq(ToSet(reports')) /\ \A x \in ToSet(reports') : \A f \in x.findings : f.severity \in Severities
      /\ Len(reports) \in Nat /\ Len(reports') = Len(reports) + 1 /\ reports'[Len(reports) + 1] = r
      /\ \A i \in 1 .. Len(reports) : reports'[i] = reports[i]
      BY ReportAdds DEF AuditInv
<1>2. AuditType'  BY <1>1 DEF AuditInv, AuditType
<1>3. Ends'  BY DEF AuditInv, Ends
<1>4. /\ single_file' = single_file /\ SingleRegistry' = SingleRegistry /\ local_registry' = local_registry
      BY DEF single_file, SingleRegistry, local_registry, Loaded
<1> DEFINE of(i) == run_all(IF single_file THEN SingleRegistry ELSE local_registry, tree[i].fns,
                            request.spec, request.disable).findings
<1> HIDE DEF of
<1>5. ASSUME NEW i \in 1 .. Len(reports'), tree[i].state = "ok"  PROVE reports'[i].findings = of(i)
  <2>1. CASE i = Len(reports) + 1  BY <1>1, <1>5, <2>1 DEF of
  <2>2. CASE i # Len(reports) + 1
    <3>1. i \in 1 .. Len(reports)  BY <1>1, <2>2
    <3>2. reports[i].findings = of(i)  BY <1>5, <3>1 DEF AuditInv, ReportsFollow, of
    <3> QED BY <1>1, <3>1, <3>2
  <2> QED BY <2>1, <2>2
<1>6. registry' = <<>> \/ (single_file /\ registry' = SingleRegistry /\ Len(reports') >= 1)
      BY <1>1 DEF AuditInv, ReportsFollow
<1>7. ReportsFollow'
  <2>1. \A i \in 1 .. Len(reports') : tree'[i].state = "ok" =>
           reports'[i].findings = run_all(IF single_file' THEN SingleRegistry' ELSE local_registry', tree'[i].fns,
                                          request'.spec, request'.disable).findings
        BY <1>4, <1>5 DEF of
  <2>2. registry' = <<>> \/ (single_file' /\ registry' = SingleRegistry' /\ Len(reports') >= 1)
        BY <1>4, <1>6
  <2> QED BY <2>1, <2>2 DEF ReportsFollow
<1> QED BY <1>2, <1>3, <1>7 DEF AuditInv

LEMMA AuditStepKeeps ==
    ASSUME AuditInv, [AuditNext]_auditVars  PROVE AuditInv'
PROOF
<1>0. reports \in Seq(ToSet(reports)) /\ registry \in Seq(Entries) /\ chosen \in Seq(Plugins) /\ Len(reports) \in Nat
      /\ request \in Requests /\ installed \in Installed
      BY DEF AuditInv, AuditType
<1>1. CASE UNCHANGED auditVars
  <2>1. UNCHANGED <<tree, installed, request, features, auditPc, chosen, registry, reports, exit>>  BY <1>1 DEF auditVars
  <2>2. AuditType' /\ Ends'  BY <2>1 DEF AuditInv, AuditType, Ends, audit_gate_trips, aggregate_summary
  <2>3. ReportsFollow'
        BY <2>1 DEF AuditInv, ReportsFollow, single_file, SingleRegistry, local_registry, Loaded
  <2> QED BY <2>2, <2>3 DEF AuditInv
<1>2. CASE ListRules
  <2>1. registry' \in Seq(Entries)
    <3> DEFINE good == {p \in ToSet(request.rules) : usable(p) /\ p.load = "ok"}
               ps == Among(request.rules, good)
               b == [i \in 1 .. Len(all_rules) |-> Builtin(all_rules[i])]
    <3>1. request.rules \in Seq(Plugins)  BY <1>0, EntryFacts
    <3> HIDE DEF good
    <3>2. ps \in Seq(Plugins)  BY <3>1, AmongIsOf
    <3> HIDE DEF ps
    <3>3. ps \in Seq(Entries) /\ <<>> \in Seq(Entries) /\ b \in Seq(Entries)  BY <3>2, EntryFacts
    <3> HIDE DEF b
    <3>4. Registered(Entries, <<>>, ps, register_all(<<>>, ps))  BY <3>3, RegisterAll
    <3>5. register_all(<<>>, ps) \in Seq(Entries)  BY <3>4 DEF Registered
    <3>6. Registered(Entries, register_all(<<>>, ps), b, register_all(register_all(<<>>, ps), b))
          BY <3>3, <3>5, RegisterAll
    <3>7. register_builtin_rules(register_all(<<>>, ps)) \in Seq(Entries)
          BY <3>6 DEF Registered, register_builtin_rules, b
    <3> QED BY <1>0, <1>2, <3>7 DEF ListRules, ps, good
  <2>2. auditPc = "start" /\ auditPc' = "done" /\ request.list  BY <1>2 DEF ListRules, Leave
  <2>3. UNCHANGED <<tree, installed, request, features, reports, chosen>>  BY <1>2 DEF ListRules
  <2> QED BY <1>0, <2>1, <2>2, <2>3, AuditLeaves
<1>3. CASE RefuseOptions
  <2>1. auditPc = "start" /\ auditPc' = "done" /\ exit' # 0  BY <1>3 DEF RefuseOptions, Leave
  <2>2. UNCHANGED <<tree, installed, request, features, reports, chosen, registry>>  BY <1>3 DEF RefuseOptions
  <2> QED BY <1>0, <2>1, <2>2, AuditLeaves
<1>4. CASE Discover
  <2>1. UNCHANGED <<tree, installed, request, features, reports, chosen, registry>> /\ auditPc = "start"
        BY <1>4 DEF Discover
  <2>2. CASE Leave(1)  BY <1>0, <2>1, <2>2, AuditLeaves DEF Leave
  <2>3. CASE auditPc' = "choose" /\ UNCHANGED exit
        BY <2>1, <2>3 DEF AuditInv, AuditType, Ends, ReportsFollow
  <2> QED BY <1>4, <2>2, <2>3 DEF Discover
<1>5. CASE ChoosePlugins
  <2>1. UNCHANGED <<tree, installed, request, features, reports, registry>> /\ auditPc = "choose"
        BY <1>5 DEF ChoosePlugins
  <2>2. CASE Leave(1) /\ UNCHANGED chosen  BY <1>0, <2>1, <2>2, AuditLeaves DEF Leave
  <2>3. CASE ~(Leave(1) /\ UNCHANGED chosen)
    <3>1. PICK ps : /\ ps = request.rules \/ ps = <<>> \/ ps = installed
                    /\ chosen' = Among(ps, {p \in ToSet(ps) : usable(p)})
                    /\ auditPc' = "files" /\ UNCHANGED exit
          BY <1>5, <2>3 DEF ChoosePlugins
    <3>2. ps \in Seq(Plugins)
      <4>1. request.rules \in Seq(Plugins) /\ installed \in Seq(Plugins)  BY <1>0, EntryFacts
      <4>2. <<>> \in Seq(Plugins)  OBVIOUS
      <4> QED BY <3>1, <4>1, <4>2
    <3> DEFINE good == {p \in ToSet(ps) : usable(p)}
    <3> HIDE DEF good
    <3>3. Among(ps, good) \in Seq(Plugins)  BY <3>2, AmongIsOf
    <3>4. chosen' \in Seq(Plugins)  BY <3>1, <3>3 DEF good
    <3>5. registry = <<>> /\ reports = <<>> /\ exit = 9  BY <2>1 DEF AuditInv, Ends
    <3>6. Len(reports') = 0  BY <2>1, <3>5
    <3> QED BY <2>1, <3>1, <3>4, <3>5, <3>6 DEF AuditInv, AuditType, Ends, ReportsFollow
  <2> QED BY <2>2, <2>3
<1>6. CASE UnreadableFile
  <2> DEFINE r == FileError("AUDIT-IO")
  <2>1. \A f \in r.findings : f.severity \in Severities  BY DEF FileError, Severities
  <2>2. UNCHANGED <<tree, installed, request, features, auditPc, chosen, registry, exit>>
        /\ reports' = Append(reports, r) /\ auditPc = "files" /\ tree[Upcoming].state = "unreadable"
        BY <1>6 DEF UnreadableFile
  <2> HIDE DEF r
  <2>3. tree[Len(reports) + 1].state # "ok"  BY <2>2 DEF Upcoming
  <2> QED BY <1>0, <2>1, <2>2, <2>3, FileIsReported
<1>7. CASE AuditSingle
  <2>1. UNCHANGED <<tree, installed, request, features, chosen>> /\ auditPc = "files" /\ single_file
        /\ Len(reports) + 1 <= Len(tree)
        BY <1>7 DEF AuditSingle, Upcoming
  <2>2. Len(reports) = 0  BY <1>0, <2>1 DEF single_file
  <2>3. registry = <<>>  BY <2>1, <2>2 DEF AuditInv, ReportsFollow
  <2>4. global_registry = SingleRegistry  BY <2>3 DEF global_registry, SingleRegistry
  <2>5. SingleRegistry \in Seq(Entries)
    <3>1. <<>> \in Seq(Entries)  OBVIOUS
    <3> QED BY <1>0, <3>1, SingleTyped DEF SingleRegistry
  <2>6. CASE Leave(1) /\ UNCHANGED <<registry, reports>>  BY <1>0, <2>1, <2>6, AuditLeaves DEF Leave
  <2>7. CASE ~(Leave(1) /\ UNCHANGED <<registry, reports>>)
    <3> DEFINE r == run_all(SingleRegistry, tree[Upcoming].fns, request.spec, request.disable)
    <3>1. registry' = SingleRegistry /\ reports' = Append(reports, r) /\ UNCHANGED <<auditPc, exit>>
          BY <1>7, <2>4, <2>7 DEF AuditSingle
    <3>2. \A f \in r.findings : f.severity \in Severities
      <4> HIDE DEF SingleRegistry
      <4> QED BY <2>5, FindingsAreGraded
    <3>3. r.findings = run_all(IF single_file THEN SingleRegistry ELSE local_registry, tree[Len(reports) + 1].fns,
                               request.spec, request.disable).findings
          BY <2>1 DEF Upcoming
    <3> HIDE DEF r
    <3> QED BY <2>1, <2>5, <3>1, <3>2, <3>3, FileIsReported
  <2> QED BY <2>6, <2>7
<1>8. CASE AuditOfMany
  <2>1. UNCHANGED <<tree, installed, request, features, chosen, registry>> /\ auditPc = "files" /\ ~single_file
        BY <1>8 DEF AuditOfMany
  <2>2. CASE Leave(1) /\ UNCHANGED reports  BY <1>0, <2>1, <2>2, AuditLeaves DEF Leave
  <2>3. CASE ~(Leave(1) /\ UNCHANGED reports)
    <3> DEFINE r == IF tree[Upcoming].state = "ok"
                    THEN run_all(local_registry, tree[Upcoming].fns, request.spec, request.disable)
                    ELSE FileError("AUDIT-PARSE")
    <3>1. reports' = Append(reports, r) /\ UNCHANGED <<auditPc, exit>>  BY <1>8, <2>3 DEF AuditOfMany
    <3>2. \A f \in r.findings : f.severity \in Severities
      <4>1. local_registry \in Seq(Entries)  BY <1>0, LocalHolds
      <4>2. \A f \in FileError("AUDIT-PARSE").findings : f.severity \in Severities  BY DEF FileError, Severities
      <4>3. \A f \in run_all(local_registry, tree[Upcoming].fns, request.spec, request.disable).findings :
               f.severity \in Severities
        <5> HIDE DEF local_registry
        <5> QED BY <4>1, FindingsAreGraded
      <4> QED BY <4>2, <4>3
    <3>3. tree[Len(reports) + 1].state = "ok" =>
            r.findings = run_all(IF single_file THEN SingleRegistry ELSE local_registry, tree[Len(reports) + 1].fns,
                                 request.spec, request.disable).findings
          BY <2>1 DEF Upcoming
    <3> HIDE DEF r
    <3> QED BY <1>0, <2>1, <3>1, <3>2, <3>3, FileIsReported
  <2> QED BY <2>2, <2>3
<1>9. CASE EndAudit
  <2>1. UNCHANGED <<tree, installed, request, features, reports, chosen>> /\ auditPc = "files" /\ auditPc' = "done"
        BY <1>9 DEF EndAudit, Leave
  <2>2. registry' \in Seq(Entries)
    <3> DEFINE b == [i \in 1 .. Len(all_rules) |-> Builtin(all_rules[i])]
    <3>1. b \in Seq(Entries)  BY EntryFacts
    <3> HIDE DEF b
    <3>2. Registered(Entries, registry, b, register_all(registry, b))  BY <1>0, <3>1, RegisterAll
    <3> QED BY <1>9, <3>2 DEF EndAudit, Registered, register_builtin_rules, b
  <2>3. exit' = 0 => ~apply_audit_gate  BY <1>9 DEF EndAudit, Leave
  <2>4. (exit' = 0 /\ ~request.list /\ request.fail_on # "none") => ~audit_gate_trips(request.fail_on)
        BY <2>3 DEF apply_audit_gate
  <2> QED BY <1>0, <2>1, <2>2, <2>4, AuditLeaves
<1> QED BY <1>1, <1>2, <1>3, <1>4, <1>5, <1>6, <1>7, <1>8, <1>9 DEF AuditNext

\* --fail-on: what an exit code of 0 says of every finding.
THEOREM GateSees == AuditSpec => []GateSeesEveryFinding
PROOF
<1>1. AuditInv => GateSeesEveryFinding
  <2> SUFFICES ASSUME AuditInv, auditPc = "done", exit = 0, ~request.list, request.fail_on # "none",
                      NEW i \in DOMAIN reports, NEW f \in reports[i].findings
               PROVE  /\ f.severity # "critical"
                      /\ request.fail_on = "warning" => f.severity # "warning"
                      /\ request.fail_on # "info"
      BY DEF GateSeesEveryFinding
  <2>1. ~audit_gate_trips(request.fail_on)  BY DEF AuditInv, Ends
  <2>2. f.severity \in Severities  BY DEF AuditInv, AuditType, ToSet
  <2>3. \A s : f.severity = s => aggregate_summary(s)  BY DEF aggregate_summary
  <2> QED BY <2>1, <2>2, <2>3 DEF audit_gate_trips, Severities
<1> QED BY <1>1, AuditStarts, AuditStepKeeps, PTL DEF AuditSpec

\* A file is told the same alone and among others.
LEMMA SameFindings == AuditInv => SameAloneAndTogether
PROOF
<1> SUFFICES ASSUME AuditInv, auditPc = "files", OwnIds, NEW i \in DOMAIN reports, tree[i].state = "ok"
             PROVE  reports[i].findings =
                      {f \in run_all(global_registry, tree[i].fns, request.spec, request.disable).findings :
                           f.rule # "EXAMPLE-001"}
                        \cup {f \in reports[i].findings : f.rule = "EXAMPLE-001"}
    BY DEF SameAloneAndTogether, OwnIds
<1> DEFINE In(s) == FindingsIn(s, tree[i].fns, request.spec, request.disable)
           held == Builtins \cup Own
<1>1. chosen \in Seq(Plugins) /\ <<>> \in Seq(Entries) /\ ToSet(<<>>) = {}
      BY EntryFacts, LoadedFacts DEF AuditInv, AuditType
<1>2. SingleRegistry \in Seq(Entries) /\ ToSet(SingleRegistry) = held \cup Linked /\ RuleIds(Loaded) \subseteq RuleIds(SingleRegistry)
  <2>1. ASSUME NEW reg, reg = <<>>
        PROVE  LET plugins == register_all(reg, Loaded)
                   example == IF "native" \in features THEN register_rule(plugins, Builtin("EXAMPLE-001")) ELSE plugins
                   r == register_builtin_rules(example)
               IN /\ r \in Seq(Entries) /\ ToSet(r) = Builtins \cup Own \cup Linked
                  /\ RuleIds(Loaded) \subseteq RuleIds(r)
    <3>1. reg \in Seq(Entries) /\ ToSet(reg) = {}  BY <1>1, <2>1
    <3> QED BY <1>1, <3>1, SingleHolds, Zenon
  <2> QED BY <2>1 DEF SingleRegistry
<1>3. ToSet(global_registry) = held \cup Linked
  <2>1. registry = <<>> \/ registry = SingleRegistry  BY DEF AuditInv, ReportsFollow
  <2>2. CASE registry = <<>>
    <3>1. global_registry = SingleRegistry  BY <2>2 DEF global_registry, SingleRegistry
    <3> QED BY <1>2, <3>1
  <2>3. CASE registry = SingleRegistry
    <3>1. /\ registry \in Seq(Entries) /\ RuleIds(Loaded) \subseteq RuleIds(registry)
          /\ ToSet(registry) = Builtins \cup Own \cup Linked
          BY <1>2, <2>3
    <3> QED BY <1>1, <3>1, SingleHolds DEF global_registry
  <2> QED BY <2>1, <2>2, <2>3
<1>4. ToSet(local_registry) = held  BY <1>1, LocalHolds
<1> HIDE DEF held, SingleRegistry, global_registry, local_registry
<1>5. run_all(global_registry, tree[i].fns, request.spec, request.disable).findings = In(held \cup Linked)
      BY <1>3, RunAllFinds
<1>6. reports[i].findings = run_all(IF single_file THEN SingleRegistry ELSE local_registry, tree[i].fns,
                                    request.spec, request.disable).findings
  <2>1. i \in 1 .. Len(reports)  BY DEF AuditInv, AuditType
  <2> QED BY <2>1 DEF AuditInv, ReportsFollow
<1>7. reports[i].findings = In(held \cup Linked) \/ reports[i].findings = In(held)
  <2>1. CASE single_file
    <3>1. reports[i].findings = run_all(SingleRegistry, tree[i].fns, request.spec, request.disable).findings
          BY <1>6, <2>1
    <3>2. ToSet(SingleRegistry) = held \cup Linked  BY <1>2
    <3>3. run_all(SingleRegistry, tree[i].fns, request.spec, request.disable).findings
            = FindingsIn(ToSet(SingleRegistry), tree[i].fns, request.spec, request.disable)
          BY RunAllFinds
    <3>4. reports[i].findings = FindingsIn(held \cup Linked, tree[i].fns, request.spec, request.disable)
          BY <3>1, <3>2, <3>3
    <3> QED BY <3>4
  <2>2. CASE ~single_file
    <3>1. reports[i].findings = run_all(local_registry, tree[i].fns, request.spec, request.disable).findings
          BY <1>6, <2>2
    <3> QED BY <1>4, <3>1, RunAllFinds
  <2> QED BY <2>1, <2>2
<1>8. In(held) = {f \in In(held \cup Linked) : f.rule # "EXAMPLE-001"} \cup {f \in In(held) : f.rule = "EXAMPLE-001"}
      BY LinkedSays
<1> HIDE DEF In
<1> QED BY <1>5, <1>7, <1>8

-----------------------------------------------------------------------------
\* The scan of a body

Scans == [auth : Nat, calls : Nat, writes : Nat, bound : BOOLEAN, usage : Nat,
          divided : BOOLEAN, divMul : BOOLEAN, cei : BOOLEAN]

Binds(t) == t = "let" \/ t = "let_div"

\* One token, field by field.
LEMMA VisitSays ==
    ASSUME NEW s \in Scans, NEW t \in Tokens
    PROVE  /\ visit(s, t) \in Scans
           /\ visit(s, t).calls = IF t = "call" THEN s.calls + 1 ELSE s.calls
           /\ visit(s, t).bound = (s.bound \/ Binds(t))
           /\ visit(s, t).divided = (t = "let_div" \/ (s.divided /\ t # "let"))
           /\ visit(s, t).divMul = (s.divMul \/ (t = "mul" /\ s.divided))
           /\ visit(s, t).cei = (s.cei \/ (t = "write" /\ s.calls > 0))
           /\ visit(s, t).usage = IF t = "use" /\ s.bound THEN s.usage + 1 ELSE s.usage
PROOF
<1> USE DEF Scans, visit, Binds
<1>1. CASE t = "auth"  BY <1>1
<1>2. CASE t = "call"  BY <1>2
<1>3. CASE t = "write"
  <2>1. visit(s, t) = [s EXCEPT !.writes = @ + 1, !.cei = @ \/ s.calls > 0]  BY <1>3
  <2> HIDE DEF visit, Binds
  <2>2. visit(s, t).cei = (s.cei \/ s.calls > 0) /\ visit(s, t).calls = s.calls /\ visit(s, t).bound = s.bound
        /\ visit(s, t).divided = s.divided /\ visit(s, t).divMul = s.divMul /\ visit(s, t).usage = s.usage
        BY <2>1
  <2>3. visit(s, t) \in Scans
    <3>1. PICK c \in BOOLEAN : c = (s.cei \/ s.calls > 0)  OBVIOUS
    <3>2. visit(s, t) = [s EXCEPT !.writes = @ + 1, !.cei = c]  BY <2>1, <3>1
    <3>3. s.writes + 1 \in Nat  OBVIOUS
    <3>4. PICK w \in Nat : w = s.writes + 1  BY <3>3
    <3>5. [s EXCEPT !.writes = w, !.cei = c] \in Scans  OBVIOUS
    <3>6. [s EXCEPT !.writes = @ + 1, !.cei = c] = [s EXCEPT !.writes = w, !.cei = c]  BY <3>4
    <3> QED BY <3>2, <3>5, <3>6, Zenon
  <2> QED BY <1>3, <2>2, <2>3 DEF Binds
<1>4. CASE t = "let_div"  BY <1>4
<1>5. CASE t = "let"  BY <1>5
<1>6. CASE t = "mul"  BY <1>6
<1>7. CASE t = "use"  BY <1>7
<1> QED BY <1>1, <1>2, <1>3, <1>4, <1>5, <1>6, <1>7 DEF Tokens

\* The scans of the prefixes of a body.
IsScan(h, b, n) ==
    /\ h[0] = FnScan
    /\ \A i \in 0 .. n : h[i] \in Scans
    /\ \A i \in 1 .. n : h[i] = visit(h[i - 1], b[i])

LEMMA ScanRuns ==
    ASSUME NEW f, f.body \in Seq(Tokens)
    PROVE  \E h : IsScan(h, f.body, Len(f.body)) /\ fn_scan(f) = h[Len(f.body)]
PROOF
<1> DEFINE b == f.body
           n == Len(b)
           Loop(h) == [i \in 0 .. n |-> IF i = 0 THEN FnScan ELSE visit(h[i - 1], b[i])]
<1>1. n \in Nat /\ \A i \in 1 .. n : b[i] \in Tokens  OBVIOUS
<1>2. FnScan \in Scans  BY DEF FnScan, Scans
<1> HIDE DEF b, n
<1>3. \E h : h = Loop(h)
  <2> DEFINE G == [x \in (1 .. n) \X Scans |-> visit(x[2], b[x[1]])]
  <2>1. G \in [(1 .. n) \X Scans -> Scans]  BY <1>1, VisitSays
  <2>2. \A i \in 1 .. n, v \in Scans : G[<<i, v>>] = visit(v, b[i])  OBVIOUS
  <2> HIDE DEF G
  <2>3. PICK h \in [0 .. n -> Scans] : IsRun(h, FnScan, n, G)  BY <1>1, <1>2, <2>1, LoopRuns
  <2>4. h[0] = FnScan /\ \A i \in 1 .. n : h[i] = G[<<i, h[i - 1]>>]  BY <2>3 DEF IsRun
  <2>5. ASSUME NEW i \in 1 .. n  PROVE h[i] = visit(h[i - 1], b[i])
    <3>1. i - 1 \in 0 .. n  BY <1>1
    <3>2. h[i - 1] \in Scans  BY <3>1
    <3> QED BY <2>2, <2>4, <3>2
  <2>6. ASSUME NEW i \in 0 .. n  PROVE h[i] = IF i = 0 THEN FnScan ELSE visit(h[i - 1], b[i])
    <3>1. CASE i = 0  BY <2>4, <3>1
    <3>2. CASE i # 0
      <4>1. i \in 1 .. n  BY <1>1, <3>2
      <4> QED BY <2>5, <3>2, <4>1
    <3> QED BY <3>1, <3>2
  <2>7. h = [i \in 0 .. n |-> h[i]]  OBVIOUS
  <2>8. h = Loop(h)  BY <2>6, <2>7
  <2> QED BY <2>8
<1>4. PICK h : h = Loop(h) /\ fn_scan(f) = h[n]  BY <1>3 DEF fn_scan, n, b
<1>5. h[0] = FnScan /\ \A i \in 1 .. n : h[i] = visit(h[i - 1], b[i])
  <2>1. 0 \in 0 .. n /\ \A i \in 1 .. n : i \in 0 .. n /\ i # 0  BY <1>1
  <2> QED BY <1>4, <2>1
<1> HIDE DEF Loop
<1> DEFINE P == {i \in 0 .. n : h[i] \in Scans}
<1>6. 0 \in P  BY <1>1, <1>2, <1>5
<1>7. ASSUME NEW i \in 0 .. (n - 1), i \in P  PROVE i + 1 \in P
  <2>1. i + 1 \in 1 .. n /\ i + 1 \in 0 .. n /\ (i + 1) - 1 = i  BY <1>1
  <2>2. h[i + 1] = visit(h[i], b[i + 1])  BY <1>5, <2>1
  <2> QED BY <1>1, <1>7, <2>1, <2>2, VisitSays
<1> HIDE DEF P
<1>8. 0 .. n \subseteq P  BY <1>1, <1>6, <1>7, Induction
<1>9. IsScan(h, b, n)  BY <1>5, <1>8 DEF IsScan, P
<1> QED BY <1>4, <1>9 DEF b, n

\* What the first i tokens of a body say.
Called(b, i) == \E c \in 1 .. i : b[c] = "call"
Bound(b, i) == \E d \in 1 .. i : Binds(b[d])
Divided(b, i) == \E d \in 1 .. i : b[d] = "let_div" /\ \A k \in (d + 1) .. i : b[k] # "let"
Late(b, i) == \E w \in 1 .. i : b[w] = "write" /\ Called(b, w - 1)
Rounded(b, i) == \E m \in 1 .. i : b[m] = "mul" /\ Divided(b, m - 1)
Uses(b, i) == {u \in 1 .. i : b[u] = "use" /\ Bound(b, u - 1)}

LEMMA OneMoreToken ==
    ASSUME NEW b, NEW i \in Nat
    PROVE  /\ Called(b, i + 1) = (Called(b, i) \/ b[i + 1] = "call")
           /\ Bound(b, i + 1) = (Bound(b, i) \/ Binds(b[i + 1]))
           /\ Divided(b, i + 1) = (b[i + 1] = "let_div" \/ (Divided(b, i) /\ b[i + 1] # "let"))
           /\ Late(b, i + 1) = (Late(b, i) \/ (b[i + 1] = "write" /\ Called(b, i)))
           /\ Rounded(b, i + 1) = (Rounded(b, i) \/ (b[i + 1] = "mul" /\ Divided(b, i)))
           /\ Uses(b, i + 1) = IF b[i + 1] = "use" /\ Bound(b, i) THEN Uses(b, i) \cup {i + 1} ELSE Uses(b, i)
PROOF
<1>1. 1 .. (i + 1) = (1 .. i) \cup {i + 1} /\ (i + 1) - 1 = i /\ i + 1 \notin 1 .. i  OBVIOUS
<1>2. Called(b, i + 1) = (Called(b, i) \/ b[i + 1] = "call")  BY <1>1 DEF Called
<1>3. Bound(b, i + 1) = (Bound(b, i) \/ Binds(b[i + 1]))  BY <1>1 DEF Bound
<1>4. Divided(b, i + 1) = (b[i + 1] = "let_div" \/ (Divided(b, i) /\ b[i + 1] # "let"))
  <2>1. ((i + 1) + 1) .. (i + 1) = {}  OBVIOUS
  <2>2. \A d \in 1 .. i : (d + 1) .. (i + 1) = ((d + 1) .. i) \cup {i + 1}  OBVIOUS
  <2>3. Divided(b, i + 1) => (b[i + 1] = "let_div" \/ (Divided(b, i) /\ b[i + 1] # "let"))
        BY <1>1, <2>1, <2>2 DEF Divided
  <2>4. b[i + 1] = "let_div" => Divided(b, i + 1)  BY <1>1, <2>1 DEF Divided
  <2>5. Divided(b, i) /\ b[i + 1] # "let" => Divided(b, i + 1)  BY <1>1, <2>2 DEF Divided
  <2> QED BY <2>3, <2>4, <2>5 DEF Divided
<1>5. Late(b, i + 1) = (Late(b, i) \/ (b[i + 1] = "write" /\ Called(b, i)))  BY <1>1 DEF Late
<1>6. Rounded(b, i + 1) = (Rounded(b, i) \/ (b[i + 1] = "mul" /\ Divided(b, i)))  BY <1>1 DEF Rounded
<1>7. Uses(b, i + 1) = IF b[i + 1] = "use" /\ Bound(b, i) THEN Uses(b, i) \cup {i + 1} ELSE Uses(b, i)
      BY <1>1 DEF Uses
<1> QED BY <1>2, <1>3, <1>4, <1>5, <1>6, <1>7

LEMMA NoToken ==
    ASSUME NEW b
    PROVE  ~Called(b, 0) /\ ~Bound(b, 0) /\ ~Divided(b, 0) /\ ~Late(b, 0) /\ ~Rounded(b, 0) /\ Uses(b, 0) = {}
PROOF
<1>1. 1 .. 0 = {}  OBVIOUS
<1> QED BY <1>1 DEF Called, Bound, Divided, Late, Rounded, Uses

\* The scan of a prefix holds what the prefix says.
Holds(s, b, i) ==
    /\ s.calls > 0 <=> Called(b, i)
    /\ s.bound <=> Bound(b, i)
    /\ s.divided <=> Divided(b, i)
    /\ s.cei <=> Late(b, i)
    /\ s.divMul <=> Rounded(b, i)
    /\ IsFiniteSet(Uses(b, i)) /\ s.usage = Cardinality(Uses(b, i))

LEMMA ScanMeans ==
    ASSUME NEW b \in Seq(Tokens), NEW h, IsScan(h, b, Len(b))
    PROVE  Holds(h[Len(b)], b, Len(b))
PROOF
<1> DEFINE n == Len(b)
           P == {i \in 0 .. n : Holds(h[i], b, i)}
<1>1. n \in Nat /\ \A i \in 1 .. n : b[i] \in Tokens  OBVIOUS
<1> HIDE DEF n
<1>2. /\ h[0] = FnScan /\ \A i \in 0 .. n : h[i] \in Scans
      /\ \A i \in 1 .. n : h[i] = visit(h[i - 1], b[i])
      BY DEF IsScan, n
<1>3. 0 \in P
  <2>1. FnScan.calls = 0 /\ ~FnScan.bound /\ ~FnScan.divided /\ ~FnScan.cei /\ ~FnScan.divMul /\ FnScan.usage = 0
        BY DEF FnScan
  <2>2. ~(FnScan.calls > 0)  BY <2>1
  <2>3. IsFiniteSet({}) /\ Cardinality({}) = 0  BY FS_EmptySet
  <2>4. Holds(FnScan, b, 0)  BY <2>1, <2>2, <2>3, NoToken, Zenon DEF Holds
  <2> QED BY <1>1, <1>2, <2>4
<1>4. ASSUME NEW i \in 0 .. (n - 1), i \in P  PROVE i + 1 \in P
  <2>1. i + 1 \in 1 .. n /\ i + 1 \in 0 .. n /\ (i + 1) - 1 = i /\ i \in Nat /\ i \in 0 .. n  BY <1>1
  <2> DEFINE s == h[i]
             t == b[i + 1]
             v == h[i + 1]
  <2>2. s \in Scans /\ t \in Tokens /\ v = visit(s, t) /\ Holds(s, b, i)  BY <1>1, <1>2, <1>4, <2>1
  <2>3. /\ v.calls = IF t = "call" THEN s.calls + 1 ELSE s.calls
        /\ v.bound = (s.bound \/ Binds(t))
        /\ v.divided = (t = "let_div" \/ (s.divided /\ t # "let"))
        /\ v.divMul = (s.divMul \/ (t = "mul" /\ s.divided))
        /\ v.cei = (s.cei \/ (t = "write" /\ s.calls > 0))
        /\ v.usage = IF t = "use" /\ s.bound THEN s.usage + 1 ELSE s.usage
    <3> HIDE DEF s, t, v
    <3> QED BY <2>2, VisitSays
  <2>4. /\ Called(b, i + 1) = (Called(b, i) \/ t = "call")
        /\ Bound(b, i + 1) = (Bound(b, i) \/ Binds(t))
        /\ Divided(b, i + 1) = (t = "let_div" \/ (Divided(b, i) /\ t # "let"))
        /\ Late(b, i + 1) = (Late(b, i) \/ (t = "write" /\ Called(b, i)))
        /\ Rounded(b, i + 1) = (Rounded(b, i) \/ (t = "mul" /\ Divided(b, i)))
        /\ Uses(b, i + 1) = IF t = "use" /\ Bound(b, i) THEN Uses(b, i) \cup {i + 1} ELSE Uses(b, i)
        BY <2>1, OneMoreToken
  <2> HIDE DEF s, t, v
  <2>5. s.calls \in Nat  BY <2>2 DEF Scans
  <2>6. v.calls > 0 <=> Called(b, i + 1)
    <3>1. s.calls > 0 <=> Called(b, i)  BY <2>2 DEF Holds
    <3>2. CASE t = "call"
      <4>1. v.calls = s.calls + 1 /\ Called(b, i + 1)  BY <2>3, <2>4, <3>2
      <4> QED BY <2>5, <4>1
    <3>3. CASE t # "call"
      <4>1. v.calls = s.calls /\ Called(b, i + 1) = Called(b, i)  BY <2>3, <2>4, <3>3 DEF Called
      <4> QED BY <3>1, <4>1
    <3> QED BY <3>2, <3>3
  <2>7. v.bound <=> Bound(b, i + 1)  BY <2>2, <2>3, <2>4 DEF Holds
  <2>8. v.divided <=> Divided(b, i + 1)  BY <2>2, <2>3, <2>4 DEF Holds
  <2>9. v.cei <=> Late(b, i + 1)  BY <2>2, <2>3, <2>4 DEF Holds
  <2>10. v.divMul <=> Rounded(b, i + 1)  BY <2>2, <2>3, <2>4 DEF Holds
  <2>11. IsFiniteSet(Uses(b, i + 1)) /\ v.usage = Cardinality(Uses(b, i + 1))
    <3>1. IsFiniteSet(Uses(b, i)) /\ s.usage = Cardinality(Uses(b, i)) /\ (s.bound <=> Bound(b, i))
          BY <2>2 DEF Holds
    <3>2. i + 1 \notin Uses(b, i)  BY <2>1 DEF Uses
    <3>3. CASE t = "use" /\ Bound(b, i)
      <4>1. Uses(b, i + 1) = Uses(b, i) \cup {i + 1} /\ v.usage = s.usage + 1  BY <2>3, <2>4, <3>1, <3>3
      <4>2. /\ IsFiniteSet(Uses(b, i) \cup {i + 1})
            /\ Cardinality(Uses(b, i) \cup {i + 1}) = Cardinality(Uses(b, i)) + 1
            BY <3>1, <3>2, FS_AddElement
      <4> QED BY <3>1, <4>1, <4>2
    <3>4. CASE ~(t = "use" /\ Bound(b, i))
      <4>1. Uses(b, i + 1) = Uses(b, i) /\ v.usage = s.usage  BY <2>3, <2>4, <3>1, <3>4
      <4> QED BY <3>1, <4>1
    <3> QED BY <3>3, <3>4
  <2>12. Holds(v, b, i + 1)  BY <2>6, <2>7, <2>8, <2>9, <2>10, <2>11 DEF Holds
  <2> QED BY <2>1, <2>12 DEF v
<1> HIDE DEF P
<1>5. n \in P
  <2>1. 0 .. n \subseteq P  BY <1>1, <1>3, <1>4, Induction
  <2> QED BY <1>1, <2>1
<1> QED BY <1>5 DEF P, n

\* The scan of a function means what the rules say of it.
LEMMA ScanFollowsSource == AuditInv => ScanIsSourceOrder
PROOF
<1> SUFFICES ASSUME AuditInv, NEW i \in DOMAIN tree, NEW f \in tree[i].fns
             PROVE  LET s == fn_scan(f)
                        At(t) == {n \in DOMAIN f.body : f.body[n] = t}
                        bound == At("let") \cup At("let_div")
                    IN /\ s.cei <=> \E c \in At("call"), w \in At("write") : c < w
                       /\ s.divMul <=> \E m \in At("mul"), d \in At("let_div") :
                                          d < m /\ \A n \in At("let") : ~(d < n /\ n < m)
                       /\ s.usage = Cardinality({u \in At("use") : \E b \in bound : b < u})
    BY DEF ScanIsSourceOrder
<1> DEFINE b == f.body
           At(t) == {n \in DOMAIN b : b[n] = t}
           bound == At("let") \cup At("let_div")
<1>1. b \in Seq(Tokens)  BY TreesAssumption DEF AuditInv, AuditType
<1>2. PICK h : IsScan(h, b, Len(b)) /\ fn_scan(f) = h[Len(b)]  BY <1>1, ScanRuns
<1> HIDE DEF b
<1>3. PICK n \in Nat : n = Len(b) /\ DOMAIN b = 1 .. n  BY <1>1
<1>4. Holds(fn_scan(f), b, n)  BY <1>1, <1>2, <1>3, ScanMeans
<1>5. Late(b, n) <=> \E c \in At("call"), w \in At("write") : c < w
      BY <1>3 DEF Late, Called
<1>6. Rounded(b, n) <=> \E m \in At("mul"), d \in At("let_div") : d < m /\ \A k \in At("let") : ~(d < k /\ k < m)
  <2>1. ASSUME NEW m \in 1 .. n, NEW d \in 1 .. (m - 1)
        PROVE  (\A k \in (d + 1) .. (m - 1) : b[k] # "let") <=> \A k \in At("let") : ~(d < k /\ k < m)
        BY <1>3
  <2>2. ASSUME NEW m \in 1 .. n
        PROVE  Divided(b, m - 1) <=> \E d \in At("let_div") : d < m /\ \A k \in At("let") : ~(d < k /\ k < m)
    <3>1. \A d \in At("let_div") : d < m <=> d \in 1 .. (m - 1)  BY <1>3
    <3>2. \A d \in 1 .. (m - 1) : d \in DOMAIN b  BY <1>3
    <3> QED BY <2>1, <3>1, <3>2 DEF Divided
  <2> QED BY <1>3, <2>2 DEF Rounded
<1>7. Uses(b, n) = {u \in At("use") : \E d \in bound : d < u}
      BY <1>3 DEF Uses, Bound, Binds
<1> QED BY <1>4, <1>5, <1>6, <1>7 DEF Holds, b

\* What a file is told follows from its source.
THEOREM FindingsOfTheSource == AuditSpec => []FindingsAreOfTheSource
PROOF
<1>1. AuditInv => FindingsAreOfTheSource  BY ScanFollowsSource, SameFindings DEF FindingsAreOfTheSource
<1> QED BY <1>1, AuditStarts, AuditStepKeeps, PTL DEF AuditSpec

-----------------------------------------------------------------------------
(* The release: a PASS is earned, exit 0 hides nothing, and old callers keep working. *)

Statuses == {"Pass", "Review", "Fail", "Error", "Skipped"}
Sections == {"upgrade", "verify", "health", "fuzz"}

\* What a command in progress has found is so, and was so when it looked.
AssuranceType ==
    ra \in [pc : {"idle", "artifact"} \cup Sections, req : ReleaseRequests \cup {NoVal}, status : Seq(Statuses)]

AssuranceBegun ==
    ra.pc # "idle" =>
        /\ ra.req \in ReleaseRequests /\ live \in ran
        /\ ra.req.max_growth # NoVal => ra.req.previous # NoFile

SectionsHold ==
    LET r == ra.req
    IN /\ ra.pc = "upgrade" => Len(ra.status) = 2
       /\ ra.pc = "verify" => Len(ra.status) = 3
       /\ ra.pc = "health" => Len(ra.status) = 4
       /\ ra.pc = "fuzz" => Len(ra.status) = 5
       /\ ra.pc \in Sections =>
            /\ ra.status[1] = (IF parse_metadata_error(r.wasm) THEN "Fail" ELSE "Pass")
            /\ ra.status[2] = run_release_security(r.audit)
       /\ ra.pc \in Sections \ {"upgrade"} =>
            /\ ra.status[1] = "Pass" /\ r.previous # NoFile => ra.status[3] = UpgradeStatus(r.previous)
            /\ ra.status[3] = "Pass" /\ r.previous = NoFile => \E f \in ran : upgrade_safety(f, r.wasm)
       /\ ra.pc \in {"health", "fuzz"} => (ra.status[4] = "Pass" => r.wasm \in ran)

AssuranceInv == AssuranceType /\ AssuranceBegun /\ SectionsHold

\* A quotient that is no more than a limit: what was divided is less than the next multiple.
LEMMA QuotientBound ==
    ASSUME NEW a \in Nat, NEW b \in Nat \ {0}, NEW g \in Int, a \div b <= g
    PROVE  a < b * (g + 1)
PROOF
<1>1. a = b * (a \div b) + (a % b) /\ a % b < b /\ a \div b \in Int /\ a % b \in Int  OBVIOUS
<1> DEFINE q == a \div b
<1>2. b * q + b = b * (q + 1)  BY <1>1
<1> HIDE DEF q
<1>3. q \in Int /\ q <= g  BY <1>1 DEF q
<1>4. b * (q + 1) <= b * (g + 1)  BY <1>3
<1> QED BY <1>1, <1>2, <1>4 DEF q

\* A growth within the limit, to the rounding of the report.
LEMMA GrowthBound ==
    ASSUME NEW old \in Nat, NEW new \in Nat, NEW g \in Int,
           size_delta_pct(old, new) # NoVal, size_delta_pct(old, new) <= g
    PROVE  /\ old = 0 => new = 0
           /\ 2000 * (new - old) < (2 * g + 1) * old \/ new <= old
PROOF
<1>1. CASE old = 0  BY <1>1, RequestsAssumption DEF size_delta_pct
<1>2. CASE old # 0 /\ new > old
  <2> DEFINE n == new - old
             a == 2000 * n + old
             b == 2 * old
  <2>1. a \in Nat /\ b \in Nat \ {0} /\ a \div b <= g  BY <1>2 DEF size_delta_pct
  <2> HIDE DEF a, b
  <2>2. a < b * (g + 1)  BY <2>1, QuotientBound
  <2>3. 2000 * n + old < 2 * old * (g + 1)  BY <2>2 DEF a, b
  <2>4. 2 * old * (g + 1) = (2 * g + 1) * old + old  OBVIOUS
  <2> QED BY <1>2, <2>3, <2>4
<1> QED BY <1>1, <1>2

LEMMA DeltaType ==
    ASSUME NEW old \in Nat, NEW new \in Nat  PROVE size_delta_pct(old, new) \in Int \cup {NoVal}
PROOF
<1>1. old # 0 => \A n \in Nat : (2000 * n + old) \div (2 * old) \in Int  OBVIOUS
<1> QED BY <1>1 DEF size_delta_pct

VerdictInv == AssuranceInv /\ ReleaseVerdictHolds

LEMMA ReleaseInitial == ReleaseInit => VerdictInv
  BY DEF ReleaseInit, VerdictInv, AssuranceInv, AssuranceType, AssuranceBegun, SectionsHold, NoAssurance, Sections,
     Statuses, ReleaseVerdictHolds, PassIsEarned, ExitZeroHidesNothing

\* Nothing that was found is forgotten by a step outside the command.
LEMMA VerdictStays ==
    ASSUME VerdictInv, UNCHANGED <<ra, report>>, ran \subseteq ran', ra.pc # "idle" => live' \in ran'
    PROVE  VerdictInv'
PROOF
<1>1. AssuranceInv'
  <2>1. SectionsHold'  BY DEF VerdictInv, AssuranceInv, SectionsHold, UpgradeStatus
  <2> QED BY <2>1 DEF VerdictInv, AssuranceInv, AssuranceType, AssuranceBegun
<1>2. ReleaseVerdictHolds'  BY DEF VerdictInv, ReleaseVerdictHolds, PassIsEarned, ExitZeroHidesNothing
<1> QED BY <1>1, <1>2 DEF VerdictInv

LEMMA DiffKeeps ==
    ASSUME VerdictInv, Diff  PROVE VerdictInv'
PROOF
<1>1. PICK r \in ReleaseRequests, safety \in BOOLEAN :
          /\ r.previous # NoFile
          /\ report' = [status |-> "diff", req |-> r, sections |-> <<>>,
                        exit |-> diff_exit(r.previous, r.wasm, safety, r.max_size, r.max_growth)]
      BY DEF Diff
<1>2. report'.status = "diff" /\ report'.req = r /\ report'.exit = diff_exit(r.previous, r.wasm, safety, r.max_size, r.max_growth)
      BY <1>1
<1>3. PassIsEarned'  BY <1>2 DEF PassIsEarned
<1>4. ASSUME diff_exit(r.previous, r.wasm, safety, r.max_size, r.max_growth) = 0
      PROVE  /\ r.max_size # NoVal => r.wasm.size <= r.max_size
             /\ r.max_growth # NoVal =>
                  /\ r.previous.size = 0 => r.wasm.size = 0
                  /\ 2000 * (r.wasm.size - r.previous.size) < (2 * r.max_growth + 1) * r.previous.size
                       \/ r.wasm.size <= r.previous.size
  <2>1. CASE r.max_size = NoVal /\ r.max_growth = NoVal  BY <2>1
  <2>2. CASE ~evaluate_size_policy(r.previous.size, r.wasm.size, r.max_size, r.max_growth)
    <3>1. r.wasm.size \in Nat /\ r.previous.size \in Nat /\ r.max_size \in Nat \cup {NoVal} /\ r.max_growth \in Int \cup {NoVal}
          BY <1>1, RequestsAssumption
    <3>2. r.max_size # NoVal => r.wasm.size <= r.max_size  BY <2>2, <3>1 DEF evaluate_size_policy
    <3>3. ASSUME r.max_growth # NoVal
          PROVE  /\ r.previous.size = 0 => r.wasm.size = 0
                 /\ 2000 * (r.wasm.size - r.previous.size) < (2 * r.max_growth + 1) * r.previous.size
                      \/ r.wasm.size <= r.previous.size
      <4>1. r.max_growth \in Int  BY <3>1, <3>3
      <4>2. r.previous.size # NoVal  BY <3>1, RequestsAssumption
      <4>3. size_delta_pct(r.previous.size, r.wasm.size) # NoVal /\ ~(size_delta_pct(r.previous.size, r.wasm.size) > r.max_growth)
            BY <2>2, <3>3, <4>2 DEF evaluate_size_policy
      <4>4. size_delta_pct(r.previous.size, r.wasm.size) \in Int \cup {NoVal}  BY <3>1, DeltaType
      <4> QED BY <3>1, <4>1, <4>3, <4>4, GrowthBound
    <3> QED BY <3>2, <3>3
  <2> QED BY <1>4, <2>1, <2>2 DEF diff_exit
<1>5. ExitZeroHidesNothing'  BY <1>1, <1>2, <1>4 DEF ExitZeroHidesNothing
<1>6. AssuranceInv'
  <2>1. UNCHANGED <<ra, live, ran>>  BY DEF Diff
  <2> QED BY <2>1 DEF VerdictInv, AssuranceInv, AssuranceType, AssuranceBegun, SectionsHold, UpgradeStatus
<1> QED BY <1>3, <1>5, <1>6 DEF VerdictInv, ReleaseVerdictHolds

\* The command begins: what it is asked has passed the checks of its limits.
LEMMA AssuranceBegins ==
    ASSUME VerdictInv, ReleaseAssurance  PROVE VerdictInv'
PROOF
<1>1. PICK r \in ReleaseRequests :
         IF ~validate_size_threshold(r.max_size, r.max_growth) \/ (r.max_growth # NoVal /\ r.previous = NoFile)
         THEN report' = [status |-> "error", exit |-> 1, req |-> r, sections |-> <<>>] /\ UNCHANGED ra
         ELSE ra' = [pc |-> "artifact", req |-> r, status |-> <<>>] /\ UNCHANGED report
      BY DEF ReleaseAssurance
<1>2. report = NoVal /\ ra.pc = "idle" /\ ran' = {live} /\ live' = live  BY DEF ReleaseAssurance
<1>3. CASE report' = [status |-> "error", exit |-> 1, req |-> r, sections |-> <<>>] /\ UNCHANGED ra
      BY <1>2, <1>3 DEF VerdictInv, AssuranceInv, AssuranceType, AssuranceBegun, SectionsHold, Sections,
         ReleaseVerdictHolds, PassIsEarned, ExitZeroHidesNothing
<1>4. CASE /\ ra' = [pc |-> "artifact", req |-> r, status |-> <<>>] /\ UNCHANGED report
           /\ r.max_growth # NoVal => r.previous # NoFile
      BY <1>2, <1>4 DEF VerdictInv, AssuranceInv, AssuranceType, AssuranceBegun, SectionsHold, Sections, Statuses,
         ReleaseVerdictHolds, PassIsEarned, ExitZeroHidesNothing
<1> QED BY <1>1, <1>3, <1>4

\* A step of the command that says nothing yet.
LEMMA NoReportYet ==
    ASSUME VerdictInv, AssuranceInv', UNCHANGED <<report, ran>>  PROVE VerdictInv'
  BY DEF VerdictInv, ReleaseVerdictHolds, PassIsEarned, ExitZeroHidesNothing

LEMMA ArtifactKeeps ==
    ASSUME VerdictInv, ArtifactAndSecurity  PROVE VerdictInv'
PROOF
<1> DEFINE r == ra.req
           a == IF parse_metadata_error(r.wasm) THEN "Fail" ELSE "Pass"
           b == run_release_security(r.audit)
<1>1. ra.pc = "artifact" /\ ra' = [ra EXCEPT !.pc = "upgrade", !.status = <<a, b>>] /\ UNCHANGED <<report, ran, live>>
      BY DEF ArtifactAndSecurity, Stays
<1>2. r \in ReleaseRequests  BY <1>1 DEF VerdictInv, AssuranceInv, AssuranceBegun
<1>3. b \in Statuses /\ a \in Statuses  BY <1>2, RequestsAssumption DEF run_release_security, audit_status, Statuses
<1> HIDE DEF a, b
<1>4. <<a, b>> \in Seq(Statuses) /\ Len(<<a, b>>) = 2 /\ <<a, b>>[1] = a /\ <<a, b>>[2] = b  BY <1>3
<1>5. ra'.pc = "upgrade" /\ ra'.req = r /\ ra'.status = <<a, b>> /\ AssuranceType'
      BY <1>1, <1>4 DEF VerdictInv, AssuranceInv, AssuranceType, Sections
<1>6. AssuranceBegun'  BY <1>1, <1>5 DEF VerdictInv, AssuranceInv, AssuranceBegun
<1>7. SectionsHold'  BY <1>4, <1>5 DEF SectionsHold, Sections, a, b
<1> QED BY <1>1, <1>5, <1>6, <1>7, NoReportYet DEF AssuranceInv

LEMMA Appended ==
    ASSUME NEW st \in Seq(Statuses), NEW s \in Statuses
    PROVE  /\ Append(st, s) \in Seq(Statuses) /\ Len(Append(st, s)) = Len(st) + 1 /\ Append(st, s)[Len(st) + 1] = s
           /\ \A i \in 1 .. Len(st) : Append(st, s)[i] = st[i]
  BY AppendProperties

\* A section is added after those there were.
LEMMA SectionAdds ==
    ASSUME AssuranceInv, NEW section \in Sections, NEW s \in Statuses, Section(section, s), UNCHANGED <<ran, live>>, ra.pc \in Sections
    PROVE  /\ AssuranceType' /\ AssuranceBegun' /\ ra'.pc = section /\ ra'.req = ra.req /\ ra.status \in Seq(Statuses)
           /\ Len(ra'.status) = Len(ra.status) + 1 /\ ra'.status[Len(ra.status) + 1] = s
           /\ \A i \in 1 .. Len(ra.status) : ra'.status[i] = ra.status[i]
PROOF
<1>1. ra.status \in Seq(Statuses)  BY DEF AssuranceInv, AssuranceType
<1>2. ra' = [ra EXCEPT !.pc = section, !.status = Append(ra.status, s)]  BY DEF Section
<1>3. Append(ra.status, s) \in Seq(Statuses) /\ Len(Append(ra.status, s)) = Len(ra.status) + 1
      /\ Append(ra.status, s)[Len(ra.status) + 1] = s
      /\ \A i \in 1 .. Len(ra.status) : Append(ra.status, s)[i] = ra.status[i]
      BY <1>1, AppendProperties
<1>4. ra'.pc = section /\ ra'.req = ra.req /\ ra'.status = Append(ra.status, s)  BY <1>2 DEF AssuranceInv, AssuranceType
<1>5. AssuranceType'  BY <1>2, <1>3 DEF AssuranceInv, AssuranceType
<1>6. AssuranceBegun'  BY <1>4 DEF AssuranceInv, AssuranceBegun, Sections
<1> QED BY <1>1, <1>3, <1>4, <1>5, <1>6

LEMMA UpgradeSectionKeeps ==
    ASSUME VerdictInv, run_release_upgrade_safety  PROVE VerdictInv'
PROOF
<1> DEFINE r == ra.req
<1>1. ra.pc = "upgrade" /\ UNCHANGED <<ran, live>>  BY DEF run_release_upgrade_safety, Stays
<1>2. PICK s \in Statuses :
          /\ Section("verify", s)
          /\ Valid /\ r.previous # NoFile => s = UpgradeStatus(r.previous)
          /\ s = "Pass" /\ r.previous = NoFile => s = UpgradeStatus(live)
  <2>1. \A f : UpgradeStatus(f) \in Statuses  BY DEF UpgradeStatus, Statuses
  <2>2. "Skipped" \in Statuses /\ "Error" \in Statuses /\ "Fail" \in Statuses  BY DEF Statuses
  <2> QED BY <2>1, <2>2 DEF run_release_upgrade_safety
<1>3. AssuranceInv /\ live \in ran /\ Len(ra.status) = 2
      BY <1>1 DEF VerdictInv, AssuranceInv, AssuranceBegun, SectionsHold
<1>4. /\ AssuranceType' /\ AssuranceBegun' /\ ra'.pc = "verify" /\ ra'.req = r /\ Len(ra'.status) = 3 /\ ra'.status[3] = s
      /\ ra'.status[1] = ra.status[1] /\ ra'.status[2] = ra.status[2]
      BY <1>1, <1>2, <1>3, SectionAdds DEF Sections
<1>5. s = "Pass" /\ r.previous = NoFile => upgrade_safety(live, r.wasm)  BY <1>2 DEF UpgradeStatus
<1>6. SectionsHold'
  <2>1. UpgradeStatus(r.previous) = UpgradeStatus(r.previous)'  BY <1>4 DEF UpgradeStatus
  <2> QED BY <1>1, <1>2, <1>3, <1>4, <1>5, <2>1 DEF AssuranceInv, SectionsHold, Sections, Valid
<1>7. UNCHANGED report  BY <1>2 DEF Section
<1> QED BY <1>1, <1>4, <1>6, <1>7, NoReportYet DEF AssuranceInv

LEMMA VerificationKeeps ==
    ASSUME VerdictInv, Verification  PROVE VerdictInv'
PROOF
<1> DEFINE r == ra.req
<1>1. ra.pc = "verify" /\ UNCHANGED <<ran, live>>  BY DEF Verification, Stays
<1>2. PICK s \in Statuses : Section("health", s) /\ (s = "Pass" => live = r.wasm)
      BY DEF Verification, Statuses
<1>3. AssuranceInv /\ live \in ran /\ Len(ra.status) = 3
      BY <1>1 DEF VerdictInv, AssuranceInv, AssuranceBegun, SectionsHold
<1>4. /\ AssuranceType' /\ AssuranceBegun' /\ ra'.pc = "health" /\ ra'.req = r /\ Len(ra'.status) = 4 /\ ra'.status[4] = s
      /\ ra'.status[1] = ra.status[1] /\ ra'.status[2] = ra.status[2] /\ ra'.status[3] = ra.status[3]
      BY <1>1, <1>2, <1>3, SectionAdds DEF Sections
<1>5. SectionsHold'
  <2>1. UpgradeStatus(r.previous) = UpgradeStatus(r.previous)'  BY <1>4 DEF UpgradeStatus
  <2> QED BY <1>1, <1>2, <1>3, <1>4, <2>1 DEF AssuranceInv, SectionsHold, Sections
<1>6. UNCHANGED report  BY <1>2 DEF Section
<1> QED BY <1>1, <1>4, <1>5, <1>6, NoReportYet DEF AssuranceInv

LEMMA HealthKeeps ==
    ASSUME VerdictInv, HealthSection  PROVE VerdictInv'
PROOF
<1> DEFINE r == ra.req
<1>1. ra.pc = "health" /\ UNCHANGED <<ran, live>>  BY DEF HealthSection, Stays
<1>2. PICK s \in Statuses : Section("fuzz", s)  BY DEF HealthSection, Statuses
<1>3. AssuranceInv /\ live \in ran /\ Len(ra.status) = 4
      BY <1>1 DEF VerdictInv, AssuranceInv, AssuranceBegun, SectionsHold
<1>4. /\ AssuranceType' /\ AssuranceBegun' /\ ra'.pc = "fuzz" /\ ra'.req = r /\ Len(ra'.status) = 5
      /\ \A i \in 1 .. 4 : ra'.status[i] = ra.status[i]
      BY <1>1, <1>2, <1>3, SectionAdds DEF Sections
<1>5. SectionsHold'
  <2>1. UpgradeStatus(r.previous) = UpgradeStatus(r.previous)'  BY <1>4 DEF UpgradeStatus
  <2> QED BY <1>1, <1>3, <1>4, <2>1 DEF AssuranceInv, SectionsHold, Sections
<1>6. UNCHANGED report  BY <1>2 DEF Section
<1> QED BY <1>1, <1>4, <1>5, <1>6, NoReportYet DEF AssuranceInv

\* The recorded campaign, if there is one, is the sixth section.
WithEvidence(st, fuzz) == IF fuzz = NoVal THEN st ELSE Append(st, fuzz)

LEMMA EvidenceAdds ==
    ASSUME NEW st \in Seq(Statuses), Len(st) = 5, NEW fuzz \in Statuses \cup {NoVal}
    PROVE  LET q == WithEvidence(st, fuzz)
           IN /\ q \in Seq(Statuses) /\ Len(q) >= 5 /\ \A i \in 1 .. 5 : q[i] = st[i]
              /\ fuzz # NoVal => Len(q) = 6 /\ q[6] = fuzz
PROOF
<1>1. CASE fuzz = NoVal
  <2>1. WithEvidence(st, fuzz) = st  BY <1>1 DEF WithEvidence
  <2>2. st \in Seq(Statuses) /\ Len(st) >= 5 /\ \A i \in 1 .. 5 : st[i] = st[i]  OBVIOUS
  <2> QED BY <1>1, <2>1, <2>2, Zenon
<1>2. CASE fuzz # NoVal
  <2>0. fuzz \in Statuses  BY <1>2
  <2>1. WithEvidence(st, fuzz) = Append(st, fuzz)  BY <1>2 DEF WithEvidence
  <2>2. /\ Append(st, fuzz) \in Seq(Statuses) /\ Len(Append(st, fuzz)) = Len(st) + 1
        /\ Append(st, fuzz)[Len(st) + 1] = fuzz
        /\ \A i \in 1 .. Len(st) : Append(st, fuzz)[i] = st[i]
        BY <2>0, Appended, Zenon
  <2>3. 5 + 1 = 6  OBVIOUS
  <2>4. /\ Append(st, fuzz) \in Seq(Statuses) /\ Len(Append(st, fuzz)) = 6 /\ Append(st, fuzz)[6] = fuzz
        /\ \A i \in 1 .. 5 : Append(st, fuzz)[i] = st[i]
        BY <2>2, <2>3, Zenon
  <2>5. Len(Append(st, fuzz)) >= 5  BY <2>4
  <2> QED BY <2>1, <2>4, <2>5, Zenon
<1> QED BY <1>1, <1>2

\* The verdict: every section that stays is in the report, and a size above a limit
\* makes the first of them fail.
LEMMA AggregateKeeps ==
    ASSUME VerdictInv, Aggregate  PROVE VerdictInv'
PROOF
<1> DEFINE r == ra.req
           fuzz == read_fuzz_evidence(r.evidence)
           sections == WithEvidence(ra.status, fuzz)
           final == IF size_policy_violated(r) THEN [sections EXCEPT ![1] = "Fail"] ELSE sections
           status == aggregate_release_status(ToSet(final))
<1>1. /\ ra.pc = "fuzz" /\ ra' = NoAssurance /\ UNCHANGED <<ran, live>>
      /\ report' = IF r.evidence = "unreadable"
                   THEN [status |-> "error", exit |-> 1, req |-> r, sections |-> <<>>]
                   ELSE [status |-> status, exit |-> IF status = "FAIL" THEN 1 ELSE 0, req |-> r, sections |-> final]
      BY DEF Aggregate, Stays, WithEvidence
<1>2. AssuranceInv'
      BY <1>1 DEF AssuranceInv, AssuranceType, AssuranceBegun, SectionsHold, NoAssurance, Sections
<1>3. /\ r \in ReleaseRequests /\ (r.max_growth # NoVal => r.previous # NoFile)
      /\ ra.status \in Seq(Statuses) /\ Len(ra.status) = 5
      BY <1>1 DEF VerdictInv, AssuranceInv, AssuranceType, AssuranceBegun, SectionsHold
<1>4. r.audit \in {"not_given", "missing", "no_sources", "unreadable", "unparsable", "critical", "warning", "clean"}
      /\ r.evidence \in {"not_given", "unreadable", "incomplete", "findings", "clean"}
      BY <1>3, RequestsAssumption
<1>5. /\ fuzz \in Statuses \cup {NoVal} /\ (fuzz = NoVal <=> r.evidence = "not_given")
      /\ r.evidence = "incomplete" => fuzz = "Error"
      /\ r.evidence = "findings" => fuzz = "Fail"
  <2> QED BY <1>4, RequestsAssumption DEF read_fuzz_evidence, Statuses
<1> HIDE DEF fuzz
<1>6. /\ sections \in Seq(Statuses) /\ Len(sections) >= 5 /\ \A i \in 1 .. 5 : sections[i] = ra.status[i]
      /\ fuzz # NoVal => Len(sections) = 6 /\ sections[6] = fuzz
  <2>1. ra.status \in Seq(Statuses) /\ Len(ra.status) = 5 /\ fuzz \in Statuses \cup {NoVal}  BY <1>3, <1>5
  <2> QED BY <2>1, EvidenceAdds, Zenon
<1> HIDE DEF sections
<1>7. /\ final \in Seq(Statuses) /\ Len(final) = Len(sections)
      /\ \A i \in 2 .. Len(sections) : final[i] = sections[i]
      /\ final[1] = IF size_policy_violated(r) THEN "Fail" ELSE sections[1]
      BY <1>6 DEF Statuses
<1> HIDE DEF final
<1>8. ToSet(final) = {final[i] : i \in 1 .. Len(final)}  BY <1>7 DEF ToSet
<1>9. /\ status # "FAIL" => \A i \in 1 .. Len(final) : final[i] \notin {"Fail", "Error"}
      /\ status = "PASS" => \A i \in 1 .. Len(final) : final[i] = "Pass"
  <2>1. \A i \in 1 .. Len(final) : final[i] \in Statuses /\ final[i] \in ToSet(final)  BY <1>7, <1>8
  <2>2. status # "FAIL" => ToSet(final) \cap {"Fail", "Error"} = {}  BY DEF aggregate_release_status
  <2>3. status = "PASS" => ToSet(final) \cap {"Review", "Skipped"} = {}  BY DEF aggregate_release_status
  <2>4. status = "PASS" => status # "FAIL"  OBVIOUS
  <2> HIDE DEF status
  <2> QED BY <2>1, <2>2, <2>3, <2>4 DEF Statuses
<1> HIDE DEF status
<1>10. SectionsHold  BY DEF VerdictInv, AssuranceInv
<1>11. PassIsEarned'
  <2> SUFFICES ASSUME status = "PASS"
               PROVE  /\ r.wasm \in ran /\ r.audit = "clean" /\ r.evidence \in {"not_given", "clean", "unreadable"}
                      /\ r.previous # NoFile => upgrade_safety(r.previous, r.wasm)
                      /\ r.previous = NoFile => \E f \in ran : upgrade_safety(f, r.wasm)
      BY <1>1 DEF PassIsEarned
  <2>1. \A i \in 1 .. 5 : ra.status[i] = "Pass"  BY <1>6, <1>7, <1>9
  <2>2. r.evidence \in {"not_given", "clean", "unreadable"}  BY <1>4, <1>5, <1>6, <1>7, <1>9
  <2>3. run_release_security(r.audit) = "Pass"  BY <1>1, <1>10, <2>1 DEF SectionsHold, Sections
  <2>4. r.audit = "clean"  BY <1>4, <2>3 DEF run_release_security, audit_status
  <2>5. r.wasm \in ran  BY <1>1, <1>10, <2>1 DEF SectionsHold
  <2>6. r.previous # NoFile => upgrade_safety(r.previous, r.wasm)
        BY <1>1, <1>10, <2>1 DEF SectionsHold, Sections, UpgradeStatus
  <2>7. r.previous = NoFile => \E f \in ran : upgrade_safety(f, r.wasm)
        BY <1>1, <1>10, <2>1 DEF SectionsHold, Sections
  <2> QED BY <2>2, <2>4, <2>5, <2>6, <2>7
<1>12. ExitZeroHidesNothing'
  <2> SUFFICES ASSUME status # "FAIL", r.evidence # "unreadable"
               PROVE  /\ r.audit \notin {"critical", "unreadable", "unparsable", "missing", "no_sources"}
                      /\ r.evidence \notin {"findings", "incomplete", "unreadable"}
                      /\ r.previous # NoFile => ~diff_wasm_error(r.previous, r.wasm) /\ upgrade_safety(r.previous, r.wasm)
                      /\ r.max_size # NoVal => r.wasm.size <= r.max_size
                      /\ r.max_growth # NoVal =>
                           /\ r.previous.size = 0 => r.wasm.size = 0
                           /\ 2000 * (r.wasm.size - r.previous.size) < (2 * r.max_growth + 1) * r.previous.size
                                \/ r.wasm.size <= r.previous.size
      BY <1>1 DEF ExitZeroHidesNothing
  <2>1. ~size_policy_violated(r) /\ \A i \in 1 .. 5 : ra.status[i] \notin {"Fail", "Error"}  BY <1>6, <1>7, <1>9
  <2>2. r.evidence \notin {"findings", "incomplete", "unreadable"}
    <3>1. fuzz # NoVal => fuzz \notin {"Fail", "Error"}  BY <1>6, <1>7, <1>9
    <3> QED BY <1>5, <3>1
  <2>3. run_release_security(r.audit) \notin {"Fail", "Error"}  BY <1>1, <1>10, <2>1 DEF SectionsHold, Sections
  <2>4. r.audit \notin {"critical", "unreadable", "unparsable", "missing", "no_sources"}
        BY <1>4, <2>3 DEF run_release_security, audit_status
  <2>5. ~parse_metadata_error(r.wasm) /\ ra.status[1] = "Pass"
        BY <1>1, <1>10, <2>1 DEF SectionsHold, Sections
  <2>6. r.previous # NoFile => ~diff_wasm_error(r.previous, r.wasm) /\ upgrade_safety(r.previous, r.wasm)
        BY <1>1, <1>10, <2>1, <2>5 DEF SectionsHold, Sections, UpgradeStatus
  <2>7. r.wasm.size \in Nat /\ (r.previous # NoFile => r.previous.size \in Nat) /\ r.max_size \in Nat \cup {NoVal}
        /\ r.max_growth \in Int \cup {NoVal} /\ NoVal \notin Int
        BY <1>3, RequestsAssumption
  <2>8. r.max_size # NoVal => r.wasm.size <= r.max_size
        BY <2>1, <2>5, <2>7 DEF size_policy_violated, evaluate_size_policy
  <2>9. ASSUME r.max_growth # NoVal
        PROVE  /\ r.previous.size = 0 => r.wasm.size = 0
               /\ 2000 * (r.wasm.size - r.previous.size) < (2 * r.max_growth + 1) * r.previous.size
                    \/ r.wasm.size <= r.previous.size
    <3>1. r.previous.size \in Nat /\ r.max_growth \in Int /\ r.previous # NoFile  BY <1>3, <2>7, <2>9
    <3>2. ~evaluate_size_policy(r.previous.size, r.wasm.size, r.max_size, r.max_growth)
          BY <2>1, <2>5, <2>9, <3>1 DEF size_policy_violated
    <3>3. size_delta_pct(r.previous.size, r.wasm.size) # NoVal /\ ~(size_delta_pct(r.previous.size, r.wasm.size) > r.max_growth)
          BY <2>7, <2>9, <3>1, <3>2 DEF evaluate_size_policy
    <3>4. size_delta_pct(r.previous.size, r.wasm.size) \in Int \cup {NoVal}  BY <2>7, <3>1, DeltaType
    <3>5. size_delta_pct(r.previous.size, r.wasm.size) <= r.max_growth  BY <2>7, <3>1, <3>3, <3>4
    <3> QED BY <2>7, <3>1, <3>3, <3>5, GrowthBound
  <2> QED BY <2>2, <2>4, <2>6, <2>8, <2>9
<1> QED BY <1>2, <1>11, <1>12 DEF VerdictInv, ReleaseVerdictHolds

LEMMA ReleaseStepKeeps ==
    ASSUME VerdictInv, [ReleaseNext]_releaseVars  PROVE VerdictInv'
PROOF
<1>1. CASE UNCHANGED releaseVars
  <2>1. UNCHANGED <<ra, report, ran, live>>  BY <1>1 DEF releaseVars
  <2> QED BY <2>1, VerdictStays DEF VerdictInv, AssuranceInv, AssuranceBegun
<1>2. CASE Diff  BY <1>2, DiffKeeps
<1>3. CASE run_generate_client \/ run_upgrade_safety
      BY <1>3, VerdictStays DEF run_generate_client, run_upgrade_safety
<1>4. CASE UpgradeMeanwhile  BY <1>4, VerdictStays DEF UpgradeMeanwhile
<1>5. CASE ReleaseAssurance  BY <1>5, AssuranceBegins
<1>6. CASE ArtifactAndSecurity  BY <1>6, ArtifactKeeps
<1>7. CASE run_release_upgrade_safety  BY <1>7, UpgradeSectionKeeps
<1>8. CASE Verification  BY <1>8, VerificationKeeps
<1>9. CASE HealthSection  BY <1>9, HealthKeeps
<1>10. CASE Aggregate  BY <1>10, AggregateKeeps
<1> QED BY <1>1, <1>2, <1>3, <1>4, <1>5, <1>6, <1>7, <1>8, <1>9, <1>10 DEF ReleaseNext

(* However often the contract is upgraded while release-assurance reads it, a PASS is
   earned by every section and exit code 0 hides no blocking fact (run_release_assurance). *)
THEOREM ReleaseVerdict == ReleaseSpec => []ReleaseVerdictHolds
PROOF
<1>1. VerdictInv /\ [ReleaseNext]_releaseVars => VerdictInv'  BY ReleaseStepKeeps
<1>2. VerdictInv => ReleaseVerdictHolds  BY DEF VerdictInv
<1> QED BY <1>1, <1>2, ReleaseInitial, PTL DEF ReleaseSpec

\* A set of positions that is not empty has a last one.
LEMMA LastPosition ==
    ASSUME NEW n \in Nat, NEW S \in SUBSET (1 .. n), S # {}
    PROVE  Max(S) \in S
PROOF
<1> DEFINE HasLast(T) == T # {} => \E x \in T : \A y \in T : x >= y
           P == {k \in 0 .. n : \A T \in SUBSET (1 .. k) : HasLast(T)}
<1>1. 0 \in P
  <2>1. ASSUME NEW T \in SUBSET (1 .. 0)  PROVE HasLast(T)
    <3>1. T = {}  BY <2>1
    <3> QED BY <3>1
  <2> HIDE DEF HasLast
  <2> QED BY <2>1
<1>2. ASSUME NEW k \in 0 .. (n - 1), k \in P  PROVE k + 1 \in P
  <2> SUFFICES ASSUME NEW T \in SUBSET (1 .. (k + 1))  PROVE HasLast(T)  OBVIOUS
  <2>1. CASE k + 1 \in T  BY <2>1
  <2>2. CASE k + 1 \notin T
    <3>1. T \in SUBSET (1 .. k)  BY <2>2
    <3> HIDE DEF HasLast
    <3> QED BY <1>2, <3>1
  <2> QED BY <2>1, <2>2
<1> HIDE DEF P
<1>3. n \in P  BY <1>1, <1>2, Induction
<1> USE DEF P
<1>4. \E x \in S : \A y \in S : x >= y  BY <1>3
<1> QED BY <1>4 DEF Max

\* The references of two types are the same when they are rendered the same.
LEMMA SameReferences ==
    ASSUME NEW a \in Seq(STRING), NEW b \in Seq(STRING), member_types_eq(MapTypes(a), MapTypes(b))
    PROVE  MapTypes(a) = MapTypes(b)
PROOF
<1>1. \A t : map_type_def(t).name = t  BY DEF map_type_def
<1>2. /\ DOMAIN MapTypes(a) = 1 .. Len(a) /\ DOMAIN MapTypes(b) = 1 .. Len(b)
      /\ \A i \in 1 .. Len(a) : MapTypes(a)[i] = map_type_def(a[i])
      /\ \A i \in 1 .. Len(b) : MapTypes(b)[i] = map_type_def(b[i])
      BY DEF MapTypes
<1>3. Len(MapTypes(a)) = Len(a) /\ Len(MapTypes(b)) = Len(b)  BY DEF MapTypes
<1>4. Len(a) = Len(b)  BY <1>3 DEF member_types_eq
<1>5. \A i \in 1 .. Len(a) : MapTypes(a)[i].name = MapTypes(b)[i].name  BY <1>2 DEF member_types_eq, type_ref_eq
<1>6. \A i \in 1 .. Len(a) : a[i] = b[i]  BY <1>1, <1>2, <1>4, <1>5
<1> QED BY <1>2, <1>4, <1>6 DEF MapTypes

\* Two types that are called equal are the same.
LEMMA SameDefinitions ==
    ASSUME NEW d, NEW e, d.def \in Seq(MemberDefs), e.def \in Seq(MemberDefs), type_definition_eq(map_udt(d), map_udt(e))
    PROVE  map_udt(d) = map_udt(e)
PROOF
<1> DEFINE a == [i \in DOMAIN d.def |-> [d.def[i] EXCEPT !.types = MapTypes(@)]]
           b == [i \in DOMAIN e.def |-> [e.def[i] EXCEPT !.types = MapTypes(@)]]
<1>1. map_udt(d) = [kind |-> d.kind, members |-> a] /\ map_udt(e) = [kind |-> e.kind, members |-> b]  BY DEF map_udt
<1>2. map_udt(d).kind = d.kind /\ map_udt(d).members = a /\ map_udt(e).kind = e.kind /\ map_udt(e).members = b  BY <1>1
<1>3. Len(a) = Len(d.def) /\ Len(b) = Len(e.def) /\ DOMAIN a = 1 .. Len(d.def) /\ DOMAIN b = 1 .. Len(e.def)  OBVIOUS
<1>4. \A i \in 1 .. Len(d.def) : d.def[i] \in MemberDefs /\ a[i] = [d.def[i] EXCEPT !.types = MapTypes(d.def[i].types)]
      OBVIOUS
<1>5. \A i \in 1 .. Len(e.def) : e.def[i] \in MemberDefs /\ b[i] = [e.def[i] EXCEPT !.types = MapTypes(e.def[i].types)]
      OBVIOUS
<1>6. ASSUME NEW m \in MemberDefs
      PROVE  [m EXCEPT !.types = MapTypes(m.types)] = [name |-> m.name, types |-> MapTypes(m.types), value |-> m.value]
  <2>1. m = [name |-> m.name, types |-> m.types, value |-> m.value]  BY DEF MemberDefs
  <2>2. ASSUME NEW n, NEW t, NEW v, NEW x
        PROVE  [[name |-> n, types |-> t, value |-> v] EXCEPT !.types = x] = [name |-> n, types |-> x, value |-> v]
        OBVIOUS
  <2>3. [[name |-> m.name, types |-> m.types, value |-> m.value] EXCEPT !.types = MapTypes(m.types)]
           = [name |-> m.name, types |-> MapTypes(m.types), value |-> m.value]
        BY <2>2
  <2> QED BY <2>1, <2>3, Zenon
<1> HIDE DEF a, b
<1>7. d.kind = e.kind /\ Len(d.def) = Len(e.def)  BY <1>2, <1>3 DEF type_definition_eq
<1>8. ASSUME NEW i \in 1 .. Len(d.def)  PROVE a[i] = b[i]
  <2>1. /\ a[i].name = b[i].name /\ a[i].value = b[i].value /\ member_types_eq(a[i].types, b[i].types)
        BY <1>2, <1>3 DEF type_definition_eq
  <2>2. PICK m \in MemberDefs : m = d.def[i]  BY <1>4
  <2>3. PICK n \in MemberDefs : n = e.def[i]  BY <1>5, <1>7
  <2>4. a[i] = [name |-> m.name, types |-> MapTypes(m.types), value |-> m.value]  BY <1>4, <1>6, <2>2
  <2>5. b[i] = [name |-> n.name, types |-> MapTypes(n.types), value |-> n.value]  BY <1>5, <1>6, <1>7, <2>3
  <2>6. m.name = n.name /\ m.value = n.value /\ member_types_eq(MapTypes(m.types), MapTypes(n.types))
        BY <2>1, <2>4, <2>5
  <2>7. m.types \in Seq(STRING) /\ n.types \in Seq(STRING)  BY DEF MemberDefs
  <2>8. MapTypes(m.types) = MapTypes(n.types)  BY <2>6, <2>7, SameReferences
  <2> QED BY <2>4, <2>5, <2>6, <2>8
<1>9. a = b
  <2>1. a = [i \in 1 .. Len(d.def) |-> a[i]] /\ b = [i \in 1 .. Len(e.def) |-> b[i]]  BY <1>3 DEF a, b
  <2> QED BY <1>7, <1>8, <2>1
<1> QED BY <1>1, <1>7, <1>9

\* Two events whose signatures are called equal are the same.
LEMMA SameEvents ==
    ASSUME NEW d, NEW e, d.def \in EventDefs, e.def \in EventDefs, event_signature_eq(map_event(d), map_event(e))
    PROVE  map_event(d) = map_event(e)
PROOF
<1> DEFINE p == d.def.params
           q == e.def.params
           Whole(x, ps) == [prefix |-> x.prefix, format |-> x.format, params |-> MapParams(ps)]
<1>1. p \in Seq(EventParams) /\ q \in Seq(EventParams)  BY DEF EventDefs
<1>2. map_event(d) = Whole(d.def, p) /\ map_event(e) = Whole(e.def, q)
  <2>1. ASSUME NEW x \in EventDefs
        PROVE  [x EXCEPT !.params = MapParams(x.params)] = Whole(x, x.params)
    <3>1. x = [prefix |-> x.prefix, format |-> x.format, params |-> x.params]  BY DEF EventDefs
    <3>2. ASSUME NEW a, NEW b, NEW c, NEW m
          PROVE  [[prefix |-> a, format |-> b, params |-> c] EXCEPT !.params = m]
                   = [prefix |-> a, format |-> b, params |-> m]
          OBVIOUS
    <3>3. [[prefix |-> x.prefix, format |-> x.format, params |-> x.params] EXCEPT !.params = MapParams(x.params)]
            = Whole(x, x.params)
          BY <3>2
    <3> QED BY <3>1, <3>3, Zenon
  <2> QED BY <2>1 DEF map_event
<1>3. ASSUME NEW x \in EventParams
      PROVE  [x EXCEPT !.type = map_type_def(x.type)]
               = [name |-> x.name, location |-> x.location, type |-> map_type_def(x.type)]
  <2>1. x = [name |-> x.name, location |-> x.location, type |-> x.type]  BY DEF EventParams
  <2>2. ASSUME NEW a, NEW b, NEW c, NEW m
        PROVE  [[name |-> a, location |-> b, type |-> c] EXCEPT !.type = m] = [name |-> a, location |-> b, type |-> m]
        OBVIOUS
  <2>3. [[name |-> x.name, location |-> x.location, type |-> x.type] EXCEPT !.type = map_type_def(x.type)]
          = [name |-> x.name, location |-> x.location, type |-> map_type_def(x.type)]
        BY <2>2
  <2> QED BY <2>1, <2>3, Zenon
<1>4. \A t : map_type_def(t).name = t  BY DEF map_type_def
<1>5. /\ MapParams(p) = [i \in 1 .. Len(p) |-> [p[i] EXCEPT !.type = map_type_def(p[i].type)]]
      /\ MapParams(q) = [i \in 1 .. Len(q) |-> [q[i] EXCEPT !.type = map_type_def(q[i].type)]]
      /\ Len(MapParams(p)) = Len(p) /\ Len(MapParams(q)) = Len(q)
      BY <1>1 DEF MapParams
<1>6. DOMAIN MapParams(p) = 1 .. Len(p)
  <2>1. DOMAIN MapParams(p) = DOMAIN p  BY Zenon DEF MapParams
  <2>2. DOMAIN p = 1 .. Len(p)  BY <1>1
  <2> QED BY <2>1, <2>2, Zenon
<1>7. /\ d.def.prefix = e.def.prefix /\ d.def.format = e.def.format /\ Len(p) = Len(q)
      /\ \A i \in 1 .. Len(p) :
           /\ MapParams(p)[i].name = MapParams(q)[i].name /\ MapParams(p)[i].location = MapParams(q)[i].location
           /\ MapParams(p)[i].type.name = MapParams(q)[i].type.name
  <2>1. /\ map_event(d).prefix = d.def.prefix /\ map_event(d).format = d.def.format
        /\ map_event(d).params = MapParams(p)
        /\ map_event(e).prefix = e.def.prefix /\ map_event(e).format = e.def.format
        /\ map_event(e).params = MapParams(q)
        BY <1>2
  <2> DEFINE a == map_event(d)
             b == map_event(e)
  <2>2. event_signature_eq(a, b)  OBVIOUS
  <2> HIDE DEF p, q, a, b
  <2>3. /\ a.prefix = b.prefix /\ a.format = b.format /\ Len(a.params) = Len(b.params)
        /\ \A i \in DOMAIN a.params :
             /\ a.params[i].name = b.params[i].name /\ a.params[i].location = b.params[i].location
             /\ a.params[i].type.name = b.params[i].type.name
        BY <2>2, Zenon DEF event_signature_eq, type_ref_eq
  <2>4. /\ a.prefix = d.def.prefix /\ a.format = d.def.format /\ a.params = MapParams(p)
        /\ b.prefix = e.def.prefix /\ b.format = e.def.format /\ b.params = MapParams(q)
        BY <2>1 DEF a, b
  <2>5. \A i \in 1 .. Len(p) :
           /\ MapParams(p)[i].name = MapParams(q)[i].name /\ MapParams(p)[i].location = MapParams(q)[i].location
           /\ MapParams(p)[i].type.name = MapParams(q)[i].type.name
        BY <1>6, <2>3, <2>4, Zenon
  <2>6. Len(p) = Len(q)  BY <1>5, <2>3, <2>4
  <2> QED BY <2>3, <2>4, <2>5, <2>6
<1>8. ASSUME NEW i \in 1 .. Len(p)
      PROVE  [p[i] EXCEPT !.type = map_type_def(p[i].type)] = [q[i] EXCEPT !.type = map_type_def(q[i].type)]
  <2> HIDE DEF p, q
  <2>1. p[i] \in EventParams /\ q[i] \in EventParams  BY <1>1, <1>7
  <2>2. /\ MapParams(p)[i] = [name |-> p[i].name, location |-> p[i].location, type |-> map_type_def(p[i].type)]
        /\ MapParams(q)[i] = [name |-> q[i].name, location |-> q[i].location, type |-> map_type_def(q[i].type)]
        BY <1>3, <1>5, <1>7, <2>1
  <2>3. /\ p[i].name = q[i].name /\ p[i].location = q[i].location
        /\ map_type_def(p[i].type).name = map_type_def(q[i].type).name
        BY <1>7, <2>2
  <2>4. p[i].type = q[i].type  BY <1>4, <2>3
  <2> QED BY <1>3, <2>1, <2>3, <2>4
<1>9. MapParams(p) = MapParams(q)
  <2> HIDE DEF p, q
  <2> QED BY <1>5, <1>7, <1>8
<1> QED BY <1>2, <1>7, <1>9

\* What by_name keeps of a file is one of its entries.
LEMMA ByNameIsEntry ==
    ASSUME NEW f \in Files, NEW kinds, NEW n \in DOMAIN by_name(SpecEntries(f), kinds)
    PROVE  \E i \in DOMAIN SpecEntries(f) :
             by_name(SpecEntries(f), kinds)[n] = SpecEntries(f)[i] /\ SpecEntries(f)[i].kind \in kinds
PROOF
<1> DEFINE es == SpecEntries(f)
           mine == {i \in DOMAIN es : es[i].kind \in kinds}
           S == {i \in mine : es[i].name = n}
<1>1. Len(es) \in Nat /\ DOMAIN es = 1 .. Len(es)  BY FilesAssumption
<1> HIDE DEF es
<1>2. by_name(es, kinds) = [m \in {es[i].name : i \in mine} |-> es[Max({i \in mine : es[i].name = m})]]
      BY DEF by_name
<1>3. n \in {es[i].name : i \in mine}  BY <1>2 DEF es
<1>4. by_name(es, kinds)[n] = es[Max(S)]  BY <1>2, <1>3
<1>5. S # {} /\ S \in SUBSET (1 .. Len(es))  BY <1>1, <1>3
<1> HIDE DEF S
<1>6. Max(S) \in S  BY <1>1, <1>5, LastPosition
<1>7. Max(S) \in DOMAIN es /\ es[Max(S)].kind \in kinds  BY <1>6 DEF S
<1> QED BY <1>4, <1>7 DEF es

\* A caller that knew one interface can live with the other.
Kept(old, new) ==
    /\ \A n \in DOMAIN old.functions : n \in DOMAIN new.functions /\ new.functions[n] = old.functions[n]
    /\ \A n \in DOMAIN old.events : n \in DOMAIN new.events /\ new.events[n] = old.events[n]
    /\ \A n \in DOMAIN old.types : n \in DOMAIN new.types /\ new.types[n] = old.types[n]

\* "Compatible" is that.
LEMMA CompatibleKeeps ==
    ASSUME NEW f \in Files, NEW g \in Files, upgrade_safety(f, g)
    PROVE  Kept(parse_contract_spec(f), parse_contract_spec(g))
PROOF
<1> DEFINE old == parse_contract_spec(f)
           new == parse_contract_spec(g)
           d == diff_specs(old, new)
<1>1. breaking_changes(d) = {}  BY DEF upgrade_safety
<1>2. /\ DOMAIN old.functions \ DOMAIN new.functions = {} /\ DOMAIN old.events \ DOMAIN new.events = {}
      /\ DOMAIN old.types \ DOMAIN new.types = {}
      /\ Changed(old.functions, new.functions, function_eq) = {}
      /\ Changed(old.events, new.events, event_signature_eq) = {}
      /\ Changed(old.types, new.types, type_definition_eq) = {}
  <2> HIDE DEF old, new
  <2> QED BY <1>1 DEF breaking_changes, diff_specs, diff_set
<1>3. \A n \in DOMAIN old.functions \cap DOMAIN new.functions : function_eq(old.functions[n], new.functions[n])
  <2> HIDE DEF old, new
  <2> QED BY <1>2 DEF Changed
<1>4. \A n \in DOMAIN old.types \cap DOMAIN new.types : type_definition_eq(old.types[n], new.types[n])
  <2> HIDE DEF old, new
  <2> QED BY <1>2 DEF Changed
<1>5. \A n \in DOMAIN old.events \cap DOMAIN new.events : event_signature_eq(old.events[n], new.events[n])
  <2> HIDE DEF old, new
  <2> QED BY <1>2 DEF Changed
<1>6. ASSUME NEW h \in Files, NEW n \in DOMAIN parse_contract_spec(h).functions
      PROVE  \E e : parse_contract_spec(h).functions[n] = map_function(e)
      BY DEF parse_contract_spec
<1>7. ASSUME NEW h \in Files, NEW n \in DOMAIN parse_contract_spec(h).types
      PROVE  \E e : e.def \in Seq(MemberDefs) /\ parse_contract_spec(h).types[n] = map_udt(e)
  <2> DEFINE types == by_name(SpecEntries(h), TypeKinds)
  <2>1. n \in DOMAIN types /\ parse_contract_spec(h).types[n] = map_udt(types[n])  BY <1>7 DEF parse_contract_spec
  <2>2. types[n].def \in Seq(MemberDefs)  BY <2>1, ByNameIsEntry, FilesAssumption
  <2> HIDE DEF types
  <2> QED BY <2>1, <2>2
<1>8. ASSUME NEW h \in Files, NEW n \in DOMAIN parse_contract_spec(h).events
      PROVE  \E e : e.def \in EventDefs /\ parse_contract_spec(h).events[n] = map_event(e)
  <2> DEFINE events == by_name(SpecEntries(h), {"event"})
  <2>1. n \in DOMAIN events /\ parse_contract_spec(h).events[n] = map_event(events[n])
        BY <1>8 DEF parse_contract_spec
  <2>2. events[n].def \in EventDefs  BY <2>1, ByNameIsEntry, FilesAssumption
  <2> HIDE DEF events
  <2> QED BY <2>1, <2>2
<1>9. ASSUME NEW a, NEW b, function_eq(map_function(a), map_function(b))  PROVE map_function(a) = map_function(b)
      BY <1>9 DEF function_eq, map_function
<1> HIDE DEF old, new
<1>10. ASSUME NEW n \in DOMAIN old.functions  PROVE n \in DOMAIN new.functions /\ new.functions[n] = old.functions[n]
  <2>1. n \in DOMAIN new.functions  BY <1>2
  <2>2. PICK a : old.functions[n] = map_function(a)  BY <1>6 DEF old
  <2>3. PICK b : new.functions[n] = map_function(b)  BY <1>6, <2>1 DEF new
  <2>4. function_eq(map_function(a), map_function(b))  BY <1>3, <2>1, <2>2, <2>3
  <2> QED BY <1>9, <2>1, <2>2, <2>3, <2>4
<1>11. ASSUME NEW n \in DOMAIN old.types  PROVE n \in DOMAIN new.types /\ new.types[n] = old.types[n]
  <2>1. n \in DOMAIN new.types  BY <1>2
  <2>2. PICK a : a.def \in Seq(MemberDefs) /\ old.types[n] = map_udt(a)  BY <1>7 DEF old
  <2>3. PICK b : b.def \in Seq(MemberDefs) /\ new.types[n] = map_udt(b)  BY <1>7, <2>1 DEF new
  <2>4. type_definition_eq(map_udt(a), map_udt(b))  BY <1>4, <2>1, <2>2, <2>3
  <2> QED BY <2>1, <2>2, <2>3, <2>4, SameDefinitions
<1>12. ASSUME NEW n \in DOMAIN old.events  PROVE n \in DOMAIN new.events /\ new.events[n] = old.events[n]
  <2>1. n \in DOMAIN new.events  BY <1>2
  <2>2. PICK a : a.def \in EventDefs /\ old.events[n] = map_event(a)  BY <1>8 DEF old
  <2>3. PICK b : b.def \in EventDefs /\ new.events[n] = map_event(b)  BY <1>8, <2>1 DEF new
  <2>4. event_signature_eq(map_event(a), map_event(b))  BY <1>5, <2>1, <2>2, <2>3
  <2> QED BY <2>1, <2>2, <2>3, <2>4, SameEvents
<1> QED BY <1>10, <1>11, <1>12 DEF Kept, old, new

LEMMA KeptIsTransitive ==
    ASSUME NEW a, NEW b, NEW c, Kept(a, b), Kept(b, c)  PROVE Kept(a, c)
  BY DEF Kept

\* Over any stack of upgrades that were called compatible.
CallersInv ==
    /\ moves \in Nat
    /\ moves = 0 /\ first # NotDeployed =>
         first \in Files /\ live \in Files /\ Kept(parse_contract_spec(first), parse_contract_spec(live))

LEMMA CallersInvWorks == CallersInv => OldCallersWork
PROOF
<1> SUFFICES ASSUME CallersInv, first # NotDeployed, moves = 0
             PROVE  LET old == parse_contract_spec(first)
                        new == parse_contract_spec(live)
                    IN /\ \A n \in DOMAIN old.functions :
                            /\ n \in DOMAIN new.functions /\ new.functions[n] = old.functions[n]
                            /\ SameTypes(old, new, RefsOfFn(old.functions[n]))
                       /\ \A n \in DOMAIN old.events :
                            /\ n \in DOMAIN new.events /\ new.events[n] = old.events[n]
                            /\ SameTypes(old, new, RefsOfEvent(old.events[n]))
    BY DEF OldCallersWork
<1>1. Kept(parse_contract_spec(first), parse_contract_spec(live))  BY DEF CallersInv
<1>2. ASSUME NEW old, NEW new, Kept(old, new), NEW refs  PROVE SameTypes(old, new, refs)
      BY <1>2 DEF Kept, SameTypes
<1> QED BY <1>1, <1>2 DEF Kept

(* UpgradeVerdict::from_diff composes: after any number of upgrades that it called
   compatible, a caller of the first version finds the functions and events it knew,
   with their signatures and types. *)
THEOREM OldCallersKeepWorking == ReleaseSpec => []OldCallersWork
PROOF
<1>1. ReleaseInit => CallersInv  BY DEF ReleaseInit, CallersInv, Kept
<1>2. CallersInv /\ [ReleaseNext]_releaseVars => CallersInv'
  <2> SUFFICES ASSUME CallersInv, [ReleaseNext]_releaseVars  PROVE CallersInv'  OBVIOUS
  <2>1. CASE UNCHANGED <<live, first, moves>>  BY <2>1 DEF CallersInv
  <2>2. CASE UpgradeMeanwhile  BY <2>2 DEF UpgradeMeanwhile, CallersInv
  <2>3. CASE run_upgrade_safety
    <3>1. UNCHANGED <<first, moves>>  BY <2>3 DEF run_upgrade_safety
    <3>2. PICK f \in Files : upgrade_safety(live, f) /\ live' = f  BY <2>3 DEF run_upgrade_safety
    <3>3. ASSUME moves = 0, first # NotDeployed  PROVE Kept(parse_contract_spec(first), parse_contract_spec(f))
      <4>1. live \in Files /\ Kept(parse_contract_spec(first), parse_contract_spec(live))  BY <3>3 DEF CallersInv
      <4>2. Kept(parse_contract_spec(live), parse_contract_spec(f))  BY <3>2, <4>1, CompatibleKeeps
      <4> QED BY <4>1, <4>2, KeptIsTransitive
    <3> QED BY <3>1, <3>2, <3>3 DEF CallersInv
  <2> QED BY <2>1, <2>2, <2>3 DEF ReleaseNext, releaseVars, Diff, run_generate_client, ReleaseAssurance,
             ArtifactAndSecurity, run_release_upgrade_safety, Verification, HealthSection, Aggregate, Stays
<1> QED BY <1>1, <1>2, CallersInvWorks, PTL DEF ReleaseSpec

=============================================================================
