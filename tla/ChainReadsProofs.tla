------------------------- MODULE ChainReadsProofs --------------------------
(***************************************************************************)
(* Proofs, for every contract, every pace of the ledgers and every number  *)
(* of requests, that reports and diffs tell what was on the chain, that a  *)
(* plan carried out rescues what it names, and that an answer put together *)
(* from several requests rests on what was read of the contract.           *)
(***************************************************************************)
EXTENDS StorageReads, ContractReads, FiniteSetTheorems, SequenceTheorems, TLAPS

-----------------------------------------------------------------------------
\* Sequences, sets and least elements.

IsSequence(s) == s \in Seq(ToSet(s))

(* A sequence keeps what it has when an element is appended (past, trail and
   the reports the user keeps). *)
LEMMA AppendKeeps ==
    ASSUME NEW s, IsSequence(s), NEW x
    PROVE  /\ IsSequence(Append(s, x))
           /\ Len(s) \in Nat /\ Len(Append(s, x)) = Len(s) + 1
           /\ DOMAIN s = 1..Len(s) /\ DOMAIN Append(s, x) = 1..(Len(s) + 1)
           /\ Append(s, x)[Len(s) + 1] = x
           /\ \A i \in 1..Len(s) : Append(s, x)[i] = s[i]
PROOF
<1>0. s \in Seq(ToSet(s))  BY DEF IsSequence
<1> DEFINE T == ToSet(s) \cup {x}
           t == Append(s, x)
<1>1. s \in Seq(T)  BY <1>0, SeqMonotonic, Zenon
<1>2. x \in T  OBVIOUS
<1> HIDE DEF T
<1>3. /\ t \in Seq(T) /\ Len(s) \in Nat /\ Len(t) = Len(s) + 1
      /\ DOMAIN s = 1..Len(s) /\ DOMAIN t = 1..(Len(s) + 1)
      /\ t[Len(s) + 1] = x
      /\ \A i \in 1..Len(s) : t[i] = s[i]
      BY <1>1, <1>2
<1> HIDE DEF t
<1>4. t \in [1..Len(t) -> ToSet(t)] /\ Len(t) \in Nat  BY <1>3 DEF ToSet
<1>5. t \in Seq(ToSet(t))  BY <1>4, SeqDef, Zenon
<1> USE DEF t
<1> QED BY <1>3, <1>5 DEF IsSequence

(* A set of naturals that is not empty has a least element. *)
LEMMA LeastElement ==
    ASSUME NEW S, S \subseteq Nat, S # {}
    PROVE  Min(S) \in S /\ \A x \in S : Min(S) <= x
PROOF
<1>1. PICK R : IsWellFoundedOn(R, Nat) /\ \A x, y \in Nat : x < y => <<x, y>> \in R
  <2> DEFINE less == OpToRel(<, Nat)
  <2>1. IsWellFoundedOn(less, Nat)  BY NatLessThanWellFounded
  <2>2. \A x, y \in Nat : x < y => <<x, y>> \in less  BY Zenon DEF OpToRel
  <2> HIDE DEF less
  <2> QED BY <2>1, <2>2, Zenon
<1>2. IsWellFoundedOn(R, Nat)  BY <1>1
<1>3. PICK m \in S : \A y \in S : ~(<<y, m>> \in R)  BY <1>2, WFMin, Zenon
<1>4. ASSUME NEW y \in S  PROVE m <= y
  <2>1. m \in Nat /\ y \in Nat  OBVIOUS
  <2>2. ~(y < m)  BY <1>1, <1>3, <2>1, Zenon
  <2> QED BY <2>1, <2>2
<1> QED BY <1>4 DEF Min

(* SetToSeq lists every element of a finite set, and nothing else. *)
LEMMA SetToSeqLists ==
    ASSUME NEW S, IsFiniteSet(S)
    PROVE  SetToSeq(S) \in Seq(S) /\ ToSet(SetToSeq(S)) = S
PROOF
<1> DEFINE n == Cardinality(S)
           f == SetToSeq(S)
<1>1. n \in Nat /\ ExistsBijection(1..n, S)  BY FS_CardinalityType
<1>2. PICK g : g \in Bijection(1..n, S)  BY <1>1 DEF ExistsBijection
<1>3. g \in [1..n -> S] /\ IsInjective(g)  BY <1>2 DEF Bijection, Injection
<1>4. f \in [1..n -> S] /\ IsInjective(f)  BY <1>3, Zenon DEF SetToSeq
<1> HIDE DEF f
<1>5. f \in Injection(1..n, S)  BY <1>4, Zenon DEF Injection
<1>6. IsFiniteSet(1..n) /\ Cardinality(1..n) = n  BY <1>1, FS_Interval
<1>7. f \in Surjection(1..n, S)  BY <1>5, <1>6, FS_Injection
<1>8. f \in Seq(S)  BY <1>1, <1>4
<1>9. ToSet(f) = S  BY <1>4, <1>7 DEF ToSet, Surjection
<1> USE DEF f
<1> QED BY <1>8, <1>9

(* collect_extend_keys has the instance and every key the user named. *)
LEMMA CollectsEveryKey ==
    ASSUME NEW extra, extra \in Seq(Keys)
    PROVE  /\ collect_extend_keys(extra) \in Seq(Keys)
           /\ \A k \in ToSet(extra) : Contains(collect_extend_keys(extra), k)
PROOF
<1> DEFINE named == <<Instance>> \o extra
           fresh == {i \in 1..Len(named) : \A j \in 1..(i - 1) : named[j] # named[i]}
           upto(i) == {j \in fresh : j <= i}
           rank(i) == Cardinality(upto(i))
           pick(n) == CHOOSE i \in fresh : rank(i) = n
           c == collect_extend_keys(extra)
<1>1. /\ named \in Seq(Keys) /\ Len(named) \in Nat
      /\ \A k \in ToSet(extra) : \E i \in 1..Len(named) : named[i] = k
  <2>1. <<Instance>> \in Seq(Keys) /\ Len(<<Instance>>) = 1  BY StorageAssumption
  <2>2. /\ named \in Seq(Keys) /\ Len(named) = 1 + Len(extra)
        /\ Len(extra) \in Nat /\ DOMAIN extra = 1..Len(extra)
        /\ \A i \in 1..(1 + Len(extra)) : named[i] = IF i <= 1 THEN <<Instance>>[i] ELSE extra[i - 1]
        BY <2>1, ConcatProperties, LenProperties
  <2> HIDE DEF named
  <2>3. ASSUME NEW j \in 1..Len(extra)  PROVE \E i \in 1..Len(named) : named[i] = extra[j]
    <3>1. j + 1 \in 1..Len(named) /\ named[j + 1] = extra[j]  BY <2>2
    <3> QED BY <3>1
  <2> QED BY <2>2, <2>3 DEF ToSet
<1> HIDE DEF named
<1>2. fresh \subseteq 1..Len(named) /\ IsFiniteSet(fresh)
  <2>1. fresh \in SUBSET (1..Len(named)) /\ IsFiniteSet(1..Len(named))  BY <1>1, FS_Interval
  <2> HIDE DEF fresh
  <2> QED BY <2>1, FS_Subset
<1>3. Cardinality(fresh) \in Nat  BY <1>2, FS_CardinalityType
<1>4. \A k \in ToSet(extra) : \E i \in fresh : named[i] = k
  <2> TAKE k \in ToSet(extra)
  <2> DEFINE places == {i \in 1..Len(named) : named[i] = k}
             first == Min(places)
  <2>1. places # {} /\ places \subseteq Nat  BY <1>1
  <2>2. first \in places /\ \A i \in places : first <= i  BY <2>1, LeastElement
  <2> HIDE DEF first
  <2>3. first \in fresh /\ named[first] = k  BY <1>1, <2>2
  <2> QED BY <2>3
<1>5. ASSUME NEW i \in fresh
      PROVE  rank(i) \in 1..Cardinality(fresh)
  <2>1. upto(i) \in SUBSET fresh /\ i \in upto(i)  BY <1>2
  <2> HIDE DEF upto, fresh
  <2>2. IsFiniteSet(upto(i)) /\ rank(i) <= Cardinality(fresh)  BY <1>2, <2>1, FS_Subset
  <2>3. rank(i) \in Nat /\ rank(i) # 0  BY <2>1, <2>2, FS_CardinalityType, FS_EmptySet
  <2> QED BY <1>3, <2>2, <2>3
<1>6. ASSUME NEW i \in fresh, NEW j \in fresh, i < j
      PROVE  rank(i) < rank(j)
  <2>1. upto(j) \in SUBSET fresh /\ upto(i) \in SUBSET upto(j) /\ j \in upto(j) /\ j \notin upto(i)
        BY <1>2, <1>6
  <2> HIDE DEF upto, fresh
  <2>2. IsFiniteSet(upto(j)) /\ IsFiniteSet(upto(i))  BY <1>2, <2>1, FS_Subset
  <2>3. rank(i) \in Nat /\ rank(j) \in Nat  BY <2>2, FS_CardinalityType
  <2>4. rank(i) <= rank(j) /\ rank(i) # rank(j)  BY <2>1, <2>2, FS_Subset
  <2> QED BY <2>3, <2>4
<1>7. ASSUME NEW i \in fresh
      PROVE  pick(rank(i)) = i
  <2> DEFINE q == pick(rank(i))
  <2>1. q \in fresh /\ rank(q) = rank(i)  OBVIOUS
  <2> HIDE DEF q
  <2>2. i \in Nat /\ q \in Nat  BY <1>1, <1>2, <2>1
  <2>3. rank(i) \in Nat /\ rank(q) \in Nat
    <3> HIDE DEF rank, fresh
    <3> QED BY <1>3, <1>5, <2>1
  <2>4. ~(q < i) /\ ~(i < q)
    <3> HIDE DEF rank, fresh
    <3> QED BY <1>6, <2>1, <2>2, <2>3
  <2>5. q = i  BY <2>2, <2>4
  <2> QED BY <2>5 DEF q
<1>8. c = [n \in 1..Cardinality(fresh) |-> named[pick(n)]]  BY DEF collect_extend_keys, named
<1>9. \A n \in 1..Cardinality(fresh) : pick(n) \in fresh
  <2> DEFINE r == [i \in fresh |-> rank(i)]
             N == 1..Cardinality(fresh)
  <2>1. IsFiniteSet(N) /\ Cardinality(N) = Cardinality(fresh)  BY <1>3, FS_Interval
  <2>2. r \in [fresh -> N]
    <3> HIDE DEF fresh, rank
    <3> QED BY <1>5
  <2>3. ASSUME NEW i \in fresh, NEW j \in fresh, r[i] = r[j]  PROVE i = j
    <3>1. rank(i) = rank(j)  BY <2>3
    <3>2. pick(rank(i)) = i /\ pick(rank(j)) = j  BY <1>7
    <3> HIDE DEF pick, rank
    <3> QED BY <3>1, <3>2
  <2> HIDE DEF fresh, N, r
  <2>4. r \in Injection(fresh, N)  BY <2>2, <2>3 DEF Injection, IsInjective
  <2>5. r \in Surjection(fresh, N)  BY <2>1, <2>4, FS_Injection
  <2>6. ASSUME NEW n \in N  PROVE \E i \in fresh : r[i] = n  BY <2>5 DEF Surjection
  <2> USE DEF r
  <2>7. ASSUME NEW n \in N  PROVE \E i \in fresh : rank(i) = n
    <3> HIDE DEF rank
    <3> QED BY <2>6
  <2> HIDE DEF rank, r
  <2>8. ASSUME NEW n \in N  PROVE pick(n) \in fresh  BY <2>7, Zenon
  <2> USE DEF N
  <2> HIDE DEF pick
  <2> QED BY <2>8
<1> HIDE DEF rank, fresh, pick, c
<1>10. ASSUME NEW n \in 1..Cardinality(fresh)
       PROVE  c[n] \in Keys /\ c[n] = named[pick(n)]
  <2>1. c[n] = named[pick(n)]  BY <1>8
  <2>2. pick(n) \in 1..Len(named)  BY <1>2, <1>9
  <2>3. named[pick(n)] \in Keys  BY <1>1, <2>2, ElementOfSeq
  <2> QED BY <2>1, <2>3
<1>11. c \in [1..Cardinality(fresh) -> Keys]  BY <1>8, <1>10
<1>12. c \in Seq(Keys) /\ Len(c) = Cardinality(fresh)  BY <1>3, <1>11
<1>13. ASSUME NEW k \in ToSet(extra)  PROVE Contains(c, k)
  <2>1. PICK i \in fresh : named[i] = k  BY <1>4
  <2>2. rank(i) \in 1..Len(c) /\ c[rank(i)] = k  BY <1>5, <1>7, <1>10, <1>12, <2>1
  <2> QED BY <2>2 DEF Contains
<1> QED BY <1>12, <1>13 DEF c

-----------------------------------------------------------------------------
\* Storage commands.

\* What is kept of each closed ledger, the last of which the chain is at.
Chronicle ==
    /\ ledger \in Nat \ {0}
    /\ IsSequence(past) /\ Len(past) = ledger /\ past[ledger] = entries
    /\ \A l \in 1..ledger : past[l] \in [Keys -> [value : Values, until : Nat]]

\* The batches a command has so far are of the ledger it goes by.
BatchesAreOfOneLedger ==
    /\ DOMAIN cmd = DOMAIN Idle0
    /\ cmd.pc \in {"fetch", "report"} => cmd.op \in {"analyze", "check"}
    /\ cmd.op = "analyze" => Len(saved) < 2
    /\ cmd.op \in {"analyze", "check"} =>
         /\ cmd.pc \in {"fetch", "report"} /\ cmd.todo \in Seq(Keys)
         /\ cmd.at \in 0..ledger
         /\ cmd.at = 0 => cmd.pc = "fetch" /\ cmd.got = {}
         /\ \A g \in cmd.got : \E k \in Keys : g = <<k, past[cmd.at][k].value, past[cmd.at][k].until>>

\* The entries of the reports the user keeps were on the chain.
TakenAt(e, at) == \E k \in Keys : e = ttl_entry(k, past[at][k].value, past[at][k].until, at)

KeptReports ==
    /\ IsSequence(saved) /\ Len(saved) <= 2
    /\ \A i \in 1..Len(saved) :
         /\ saved[i].latest_ledger \in 1..ledger
         /\ \A e \in saved[i].entries : TakenAt(e, saved[i].latest_ledger)

DiffIsOfReports ==
    (outcome.op = "diff" /\ outcome.ok) =>
        /\ Len(saved) = 2
        /\ outcome.keys = diff_snapshots(saved[1], saved[2])
        /\ outcome.value = derive_extend_plan(outcome.keys).keys
        /\ outcome.at = derive_extend_plan(outcome.keys).ledgers

\* An extension that carries out a plan asks for every expiring key of it, and for
\* the default horizon at least.
PlanIsCarried ==
    cmd.op = "extend" =>
        /\ cmd.ledgers \in Nat
        /\ \A e \in cmd.plan : e.status = "ExpiringSoon" =>
             e.key \in Keys /\ Contains(cmd.want, e.key) /\ cmd.ledgers >= DEFAULT_SUGGESTED_LEDGERS

ExtensionIsClosed == outcome.op = "extend" => outcome.at < ledger /\ outcome.at \in Nat

StorageInv ==
    /\ Chronicle /\ BatchesAreOfOneLedger /\ KeptReports
    /\ DiffIsOfReports /\ PlanIsCarried /\ ExtensionIsClosed /\ PlanRescues

\* Ledgers are only added to what is kept of the chain.
ChainGrows ==
    /\ ledger' \in Nat /\ ledger' >= ledger
    /\ \A l \in 1..ledger : past'[l] = past[l]

(* A ledger that closes on well-formed entries (Tick, SubmitExtend,
   SubmitRestore). *)
LEMMA ClosingIsKept ==
    ASSUME Chronicle, NEW now, now \in [Keys -> [value : Values, until : Nat]], CloseLedger(now)
    PROVE  /\ Chronicle' /\ ChainGrows
           /\ ledger' = ledger + 1 /\ past'[ledger] = entries /\ entries' = now
PROOF
<1>1. /\ ledger \in Nat \ {0} /\ IsSequence(past) /\ Len(past) = ledger /\ past[ledger] = entries
      /\ \A l \in 1..ledger : past[l] \in [Keys -> [value : Values, until : Nat]]
      BY DEF Chronicle
<1>2. ledger' = ledger + 1 /\ entries' = now /\ past' = Append(past, now)  BY DEF CloseLedger
<1>3. /\ IsSequence(past') /\ Len(past') = ledger' /\ past'[ledger'] = now
      /\ \A l \in 1..ledger : past'[l] = past[l]
      BY <1>1, <1>2, AppendKeeps
<1>4. \A l \in 1..ledger' : past'[l] \in [Keys -> [value : Values, until : Nat]]
  <2>1. \A l \in 1..ledger' : l = ledger' \/ l \in 1..ledger  BY <1>1, <1>2
  <2> QED BY <1>1, <1>3, <2>1
<1>5. Chronicle'  BY <1>1, <1>2, <1>3, <1>4 DEF Chronicle
<1>6. ChainGrows  BY <1>1, <1>2, <1>3 DEF ChainGrows
<1> QED BY <1>1, <1>2, <1>3, <1>5, <1>6

(* Requests and files leave the chain alone. *)
LEMMA ChainStays ==
    ASSUME Chronicle, UNCHANGED <<ledger, entries, past>>
    PROVE  Chronicle' /\ ChainGrows
BY DEF Chronicle, ChainGrows

(* What was on the chain at a ledger was so for good. *)
LEMMA ReportsStay ==
    ASSUME KeptReports, ChainGrows, Chronicle, saved' = saved
    PROVE  KeptReports'
PROOF
<1>1. \A l \in 1..ledger : l \in 1..ledger' /\ past'[l] = past[l]  BY DEF ChainGrows, Chronicle
<1> QED BY <1>1 DEF KeptReports, TakenAt

LEMMA BatchesStay ==
    ASSUME BatchesAreOfOneLedger, ChainGrows, Chronicle, cmd' = cmd, saved' = saved
    PROVE  BatchesAreOfOneLedger'
PROOF
<1>1. \A l \in 1..ledger : l \in 1..ledger' /\ past'[l] = past[l]  BY DEF ChainGrows, Chronicle
<1>2. \A l \in 0..ledger : l \in 0..ledger'  BY DEF ChainGrows, Chronicle
<1>3. \A l \in 0..ledger : l # 0 => l \in 1..ledger  BY DEF Chronicle
<1> QED BY <1>1, <1>2, <1>3 DEF BatchesAreOfOneLedger

(* No command runs after the last answer. *)
LEMMA IdleIsFine ==
    ASSUME cmd' = Idle0
    PROVE  BatchesAreOfOneLedger' /\ PlanIsCarried'
BY DEF Idle0, BatchesAreOfOneLedger, PlanIsCarried

(* Only storage-diff and storage extend answer with a plan (Finish). *)
LEMMA OtherAnswers ==
    ASSUME NEW op, op \notin {"diff", "extend"}, NEW ok, NEW keys, NEW value, Finish(op, ok, keys, value)
    PROVE  /\ BatchesAreOfOneLedger' /\ PlanIsCarried'
           /\ DiffIsOfReports' /\ ExtensionIsClosed' /\ PlanRescues'
PROOF
<1>1. outcome'.op = op /\ cmd' = Idle0  BY DEF Finish
<1>2. BatchesAreOfOneLedger' /\ PlanIsCarried'  BY <1>1, IdleIsFine
<1> QED BY <1>1, <1>2 DEF DiffIsOfReports, ExtensionIsClosed, PlanRescues

(* Ledgers that close do not change the last answer. *)
LEMMA AnswerStays ==
    ASSUME StorageInv, outcome' = outcome, saved' = saved,
           UNCHANGED <<ledger, entries, past>> \/ ledger' = ledger + 1
    PROVE  DiffIsOfReports' /\ ExtensionIsClosed' /\ PlanRescues'
PROOF
<1>0. ledger \in Nat \ {0}  BY DEF StorageInv, Chronicle
<1>1. DiffIsOfReports'  BY DEF StorageInv, DiffIsOfReports
<1>2. CASE UNCHANGED <<ledger, entries, past>>
      BY <1>1, <1>2 DEF StorageInv, ExtensionIsClosed, PlanRescues
<1>3. CASE ledger' = ledger + 1
      BY <1>0, <1>1, <1>3 DEF StorageInv, ExtensionIsClosed, PlanRescues
<1> QED BY <1>2, <1>3

(* Before the first command. *)
LEMMA StorageInitInv ==
    ASSUME StorageInit
    PROVE  StorageInv
PROOF
<1>1. PICK f \in Lifetimes : entries = [k \in Keys |-> [value |-> CHOOSE v \in Values : TRUE, until |-> f[k]]]
      BY DEF StorageInit
<1>2. f \in [Keys -> Nat] /\ (CHOOSE v \in Values : TRUE) \in Values  BY StorageAssumption
<1>3. entries \in [Keys -> [value : Values, until : Nat]]  BY <1>1, <1>2
<1>4. Chronicle
  <2>1. ledger = 1 /\ past = <<entries>>  BY DEF StorageInit
  <2>2. Len(past) = 1 /\ past[1] = entries /\ past \in Seq(ToSet(past))  BY <2>1 DEF ToSet
  <2> QED BY <1>3, <2>1, <2>2 DEF Chronicle, IsSequence
<1>5. cmd = Idle0 /\ outcome.op = "none"  BY DEF StorageInit, NoOutcome
<1>6. KeptReports  BY DEF StorageInit, KeptReports, IsSequence
<1> QED BY <1>4, <1>5, <1>6 DEF StorageInv, BatchesAreOfOneLedger, PlanIsCarried, Idle0,
                               DiffIsOfReports, ExtensionIsClosed, PlanRescues

(* A ledger closes between two requests. *)
LEMMA TickKeeps ==
    ASSUME StorageInv, Tick
    PROVE  StorageInv'
PROOF
<1>1. Chronicle /\ entries \in [Keys -> [value : Values, until : Nat]]
      BY DEF StorageInv, Chronicle
<1>2. PICK now \in [Keys -> [value : Values, until : Nat]] : CloseLedger(now)
  <2>1. CASE CloseLedger(entries)  BY <1>1, <2>1
  <2>2. ASSUME NEW k \in Keys, NEW v \in Values, CloseLedger([entries EXCEPT ![k].value = v])
        PROVE  [entries EXCEPT ![k].value = v] \in [Keys -> [value : Values, until : Nat]]
        BY <1>1
  <2> QED BY <2>1, <2>2 DEF Tick
<1>3. Chronicle' /\ ChainGrows /\ ledger' = ledger + 1  BY <1>1, <1>2, ClosingIsKept
<1>4. cmd' = cmd /\ saved' = saved /\ outcome' = outcome  BY DEF Tick
<1>5. DiffIsOfReports' /\ ExtensionIsClosed' /\ PlanRescues'  BY <1>3, <1>4, AnswerStays
<1>6. BatchesAreOfOneLedger' /\ KeptReports'
      BY <1>3, <1>4, ReportsStay, BatchesStay DEF StorageInv
<1>7. PlanIsCarried'  BY <1>4 DEF StorageInv, PlanIsCarried
<1> QED BY <1>3, <1>5, <1>6, <1>7 DEF StorageInv

(* A command that has made no request yet. *)
LEMMA ExtraKeysAreKeys ==
    ASSUME NEW extra \in {<<>>, SetToSeq(Keys)}
    PROVE  collect_extend_keys(extra) \in Seq(Keys)
PROOF
<1>1. IsFiniteSet(Keys)  BY StorageAssumption
<1>2. SetToSeq(Keys) \in Seq(Keys)  BY <1>1, SetToSeqLists
<1>3. <<>> \in Seq(Keys)  OBVIOUS
<1>4. extra \in Seq(Keys)  BY <1>2, <1>3
<1> QED BY <1>4, CollectsEveryKey

LEMMA FirstBatchIsToCome ==
    ASSUME Chronicle, NEW op \in {"analyze", "check"}, op = "analyze" => Len(saved') < 2, ledger' = ledger,
           DOMAIN cmd' = DOMAIN Idle0, cmd'.op = op, cmd'.pc = "fetch", cmd'.todo \in Seq(Keys),
           cmd'.at = 0, cmd'.got = {}
    PROVE  BatchesAreOfOneLedger' /\ PlanIsCarried'
PROOF
<1>1. 0 \in 0..ledger'  BY DEF Chronicle
<1> QED BY <1>1 DEF BatchesAreOfOneLedger, PlanIsCarried

LEMMA AnalyzeKeeps ==
    ASSUME StorageInv, StorageAnalyze \/ StorageCheck
    PROVE  StorageInv'
PROOF
<1>1. /\ UNCHANGED <<ledger, entries, past>> /\ saved' = saved /\ outcome' = outcome /\ Chronicle
      BY DEF StorageAnalyze, StorageCheck, StorageInv
<1>2. Chronicle' /\ ChainGrows  BY <1>1, ChainStays
<1>3. DiffIsOfReports' /\ ExtensionIsClosed' /\ PlanRescues'  BY <1>1, AnswerStays
<1>4. KeptReports'  BY <1>1, <1>2, ReportsStay DEF StorageInv
<1>5. BatchesAreOfOneLedger' /\ PlanIsCarried'
  <2>1. CASE StorageAnalyze
    <3>1. PICK extra \in {<<>>, SetToSeq(Keys)}, net \in Nets :
            cmd' = [Idle0 EXCEPT !.op = "analyze", !.pc = "fetch", !.net = net,
                                 !.todo = collect_extend_keys(extra), !.want = collect_extend_keys(extra)]
          BY <2>1 DEF StorageAnalyze
    <3>2. Len(saved') < 2  BY <1>1, <2>1 DEF StorageAnalyze
    <3>3. PICK todo \in Seq(Keys) : todo = collect_extend_keys(extra)  BY ExtraKeysAreKeys
    <3>4. cmd' = [Idle0 EXCEPT !.op = "analyze", !.pc = "fetch", !.net = net, !.todo = todo, !.want = todo]
          BY <3>1, <3>3
    <3>5. /\ DOMAIN cmd' = DOMAIN Idle0 /\ cmd'.op = "analyze" /\ cmd'.pc = "fetch"
          /\ cmd'.todo = todo /\ cmd'.at = 0 /\ cmd'.got = {}
          BY <3>4 DEF Idle0
    <3> QED BY <1>1, <3>2, <3>5, FirstBatchIsToCome
  <2>2. CASE StorageCheck
    <3>1. PICK extra \in {<<>>, SetToSeq(Keys)} :
            cmd' = [Idle0 EXCEPT !.op = "check", !.pc = "fetch", !.todo = collect_extend_keys(extra),
                                 !.want = collect_extend_keys(extra)]
          BY <2>2 DEF StorageCheck
    <3>2. PICK todo \in Seq(Keys) : todo = collect_extend_keys(extra)  BY ExtraKeysAreKeys
    <3>3. cmd' = [Idle0 EXCEPT !.op = "check", !.pc = "fetch", !.todo = todo, !.want = todo]
          BY <3>1, <3>2
    <3>4. /\ DOMAIN cmd' = DOMAIN Idle0 /\ cmd'.op = "check" /\ cmd'.pc = "fetch"
          /\ cmd'.todo = todo /\ cmd'.at = 0 /\ cmd'.got = {}
          BY <3>3 DEF Idle0
    <3> QED BY <1>1, <3>4, FirstBatchIsToCome
  <2> QED BY <2>1, <2>2
<1> QED BY <1>2, <1>3, <1>4, <1>5 DEF StorageInv

(* fetch_ledger_entries: the first batch names the ledger, the others are of it. *)
LEMMA BatchKeeps ==
    ASSUME StorageInv, FetchBatch
    PROVE  StorageInv'
PROOF
<1>1. /\ UNCHANGED <<ledger, entries, past>> /\ saved' = saved /\ Chronicle /\ cmd.pc = "fetch"
      BY DEF FetchBatch, StorageInv
<1>2. Chronicle' /\ ChainGrows  BY <1>1, ChainStays
<1>3. KeptReports'  BY <1>1, <1>2, ReportsStay DEF StorageInv
<1>4. CASE Fail
  <2>1. BatchesAreOfOneLedger' /\ PlanIsCarried' /\ DiffIsOfReports' /\ ExtensionIsClosed' /\ PlanRescues'
        BY <1>4, OtherAnswers DEF Fail
  <2> QED BY <1>2, <1>3, <2>1 DEF StorageInv
<1> DEFINE n == IF Len(cmd.todo) < batch_size THEN Len(cmd.todo) ELSE batch_size
           asked == ToSet(SubSeq(cmd.todo, 1, n))
           more == {<<k, entries[k].value, entries[k].until>> : k \in Returned(asked)}
           rest == SubSeq(cmd.todo, n + 1, Len(cmd.todo))
<1>5. CASE ~Fail
  <2>1. /\ ~spans_ledgers(cmd.at) /\ outcome' = outcome
        /\ cmd' = [cmd EXCEPT !.todo = rest, !.at = IF cmd.at = 0 THEN ledger ELSE cmd.at,
                              !.got = cmd.got \cup more,
                              !.pc = IF n = Len(cmd.todo) THEN "report" ELSE "fetch"]
        BY <1>5 DEF FetchBatch
  <2>2. /\ cmd.op \in {"analyze", "check"} /\ cmd.todo \in Seq(Keys) /\ DOMAIN cmd = DOMAIN Idle0
        /\ cmd.at \in 0..ledger /\ (cmd.at = 0 => cmd.got = {})
        /\ \A g \in cmd.got : \E k \in Keys : g = <<k, past[cmd.at][k].value, past[cmd.at][k].until>>
        /\ cmd.op = "analyze" => Len(saved) < 2
        BY <1>1 DEF StorageInv, BatchesAreOfOneLedger
  <2>3. n \in 0..Len(cmd.todo) /\ Len(cmd.todo) \in Nat
        BY <2>2, StorageAssumption DEF batch_size
  <2> HIDE DEF n
  <2>4. rest \in Seq(Keys)
    <3>1. \A i \in (n + 1)..Len(cmd.todo) : cmd.todo[i] \in Keys  BY <2>2, <2>3
    <3>2. n + 1 \in Int /\ Len(cmd.todo) \in Int  BY <2>3
    <3> QED BY <3>1, <3>2, SubSeqProperties, Zenon
  <2>5. asked \subseteq Keys
    <3>1. \A i \in 1..n : cmd.todo[i] \in Keys  BY <2>2, <2>3
    <3>2. SubSeq(cmd.todo, 1, n) \in Seq(Keys)  BY <2>3, <3>1, SubSeqProperties
    <3> QED BY <3>2 DEF ToSet
  <2>6. Returned(asked) \subseteq Keys
    <3> HIDE DEF asked
    <3> QED BY <2>5 DEF Returned
  <2> HIDE DEF asked, rest
  <2>7. ledger \in Nat \ {0} /\ past[ledger] = entries /\ ledger' = ledger /\ past' = past
        BY <1>1 DEF Chronicle
  <2>8. cmd.at = 0 \/ cmd.at = ledger  BY <2>1 DEF spans_ledgers
  <2>9. \A g \in more : \E k \in Keys : g = <<k, past[ledger][k].value, past[ledger][k].until>>
        BY <2>6, <2>7
  <2> HIDE DEF more
  <2>10. /\ cmd'.op = cmd.op /\ cmd'.todo = rest /\ cmd'.at = ledger /\ cmd'.got = cmd.got \cup more
         /\ cmd'.pc \in {"fetch", "report"} /\ DOMAIN cmd' = DOMAIN Idle0
         BY <2>1, <2>2, <2>8 DEF Idle0
  <2>11. \A g \in cmd'.got : \E k \in Keys : g = <<k, past'[cmd'.at][k].value, past'[cmd'.at][k].until>>
         BY <2>2, <2>7, <2>8, <2>9, <2>10
  <2>12. BatchesAreOfOneLedger'
         BY <1>1, <2>2, <2>4, <2>7, <2>10, <2>11 DEF BatchesAreOfOneLedger
  <2>13. PlanIsCarried'  BY <2>2, <2>10 DEF PlanIsCarried
  <2>14. DiffIsOfReports' /\ ExtensionIsClosed' /\ PlanRescues'  BY <1>1, <2>1, AnswerStays
  <2> QED BY <1>2, <1>3, <2>12, <2>13, <2>14 DEF StorageInv
<1> QED BY <1>4, <1>5

(* A report more, with entries of the ledger it names (Report, SaveForeign). *)
LEMMA OneReportMore ==
    ASSUME StorageInv, UNCHANGED <<ledger, entries, past>>, Len(saved) < 2,
           NEW r, saved' = Append(saved, r), r.latest_ledger \in 1..ledger,
           \A e \in r.entries : TakenAt(e, r.latest_ledger)
    PROVE  KeptReports'
PROOF
<1>1. /\ IsSequence(saved) /\ Len(saved) <= 2 /\ Chronicle
      /\ \A i \in 1..Len(saved) :
           /\ saved[i].latest_ledger \in 1..ledger
           /\ \A e \in saved[i].entries : TakenAt(e, saved[i].latest_ledger)
      BY DEF StorageInv, KeptReports
<1>2. /\ IsSequence(saved') /\ Len(saved) \in Nat /\ Len(saved') = Len(saved) + 1
      /\ saved'[Len(saved) + 1] = r /\ \A i \in 1..Len(saved) : saved'[i] = saved[i]
      BY <1>1, AppendKeeps
<1>3. ASSUME NEW i \in 1..Len(saved')
      PROVE  /\ saved'[i].latest_ledger \in 1..ledger
             /\ \A e \in saved'[i].entries : TakenAt(e, saved'[i].latest_ledger)
  <2>1. i = Len(saved) + 1 \/ i \in 1..Len(saved)  BY <1>2
  <2> QED BY <1>1, <1>2, <2>1
<1>4. \A e, at : TakenAt(e, at) => TakenAt(e, at)'  BY DEF TakenAt
<1>5. Len(saved') <= 2  BY <1>2
<1> QED BY <1>2, <1>3, <1>4, <1>5 DEF KeptReports

(* What a report more does to the diff that was shown: none was. *)
LEMMA ReportKeeps ==
    ASSUME StorageInv, Report
    PROVE  StorageInv'
PROOF
<1>1. /\ UNCHANGED <<ledger, entries, past>> /\ Chronicle /\ cmd.pc = "report"
      /\ cmd.op \in {"analyze", "check"} /\ Finish(cmd.op, TRUE, {}, NoValue)
      BY DEF Report, StorageInv, BatchesAreOfOneLedger
<1>2. Chronicle' /\ ChainGrows  BY <1>1, ChainStays
<1>3. BatchesAreOfOneLedger' /\ PlanIsCarried' /\ DiffIsOfReports' /\ ExtensionIsClosed' /\ PlanRescues'
      BY <1>1, OtherAnswers
<1> DEFINE es == {ttl_entry(g[1], g[2], g[3], cmd.at) : g \in cmd.got}
<1>4. CASE cmd.op = "analyze"
  <2>1. saved' = Append(saved, storage_report(cmd.net, cmd.at, es))  BY <1>4 DEF Report
  <2>2. /\ Len(saved) < 2 /\ cmd.at \in 0..ledger /\ cmd.at # 0
        /\ \A g \in cmd.got : \E k \in Keys : g = <<k, past[cmd.at][k].value, past[cmd.at][k].until>>
        BY <1>1, <1>4 DEF StorageInv, BatchesAreOfOneLedger
  <2>3. cmd.at \in 1..ledger  BY <1>1, <2>2 DEF Chronicle
  <2>4. ASSUME NEW e \in es  PROVE TakenAt(e, cmd.at)
    <3>1. PICK g \in cmd.got : e = ttl_entry(g[1], g[2], g[3], cmd.at)  OBVIOUS
    <3>2. PICK k \in Keys : g = <<k, past[cmd.at][k].value, past[cmd.at][k].until>>  BY <2>2
    <3>3. g[1] = k /\ g[2] = past[cmd.at][k].value /\ g[3] = past[cmd.at][k].until  BY <3>2
    <3>4. e = ttl_entry(k, past[cmd.at][k].value, past[cmd.at][k].until, cmd.at)  BY <3>1, <3>3, Zenon
    <3> QED BY <3>4 DEF TakenAt
  <2> HIDE DEF es
  <2> DEFINE r == storage_report(cmd.net, cmd.at, es)
  <2>5. r.latest_ledger = cmd.at /\ r.entries = es  BY DEF storage_report
  <2> HIDE DEF r
  <2>6. KeptReports'  BY <1>1, <2>1, <2>2, <2>3, <2>4, <2>5, OneReportMore DEF r
  <2> QED BY <1>2, <1>3, <2>6 DEF StorageInv
<1>5. CASE cmd.op # "analyze"
  <2>1. saved' = saved  BY <1>5 DEF Report
  <2>2. KeptReports'  BY <1>2, <2>1, ReportsStay DEF StorageInv
  <2> QED BY <1>2, <1>3, <2>2 DEF StorageInv
<1> QED BY <1>4, <1>5

LEMMA ForeignKeeps ==
    ASSUME StorageInv, SaveForeign
    PROVE  StorageInv'
PROOF
<1>1. /\ UNCHANGED <<ledger, entries, past>> /\ cmd' = cmd /\ outcome' = outcome
      /\ Chronicle /\ cmd.op = "idle" /\ Len(saved) = 1
      BY DEF SaveForeign, StorageInv
<1>2. Chronicle' /\ ChainGrows  BY <1>1, ChainStays
<1>3. KeptReports'
  <2>1. PICK legacy \in BOOLEAN :
          saved' = Append(saved, [storage_report(IF legacy THEN NoNet ELSE Other, ledger, {})
                                     EXCEPT !.total = IF legacy THEN 1 ELSE 0])
        BY DEF SaveForeign
  <2> DEFINE count == IF legacy THEN 1 ELSE 0
             report == storage_report(IF legacy THEN NoNet ELSE Other, ledger, {})
  <2>a. /\ report.latest_ledger = ledger /\ report.entries = {}
        /\ {"latest_ledger", "entries"} \subseteq DOMAIN report
        BY DEF storage_report
  <2>b. saved' = Append(saved, [report EXCEPT !.total = count])  BY <2>1
  <2> HIDE DEF count, report
  <2>c. PICK r : r = [report EXCEPT !.total = count]  OBVIOUS
  <2>2. saved' = Append(saved, r) /\ r.latest_ledger = ledger /\ r.entries = {}
    <3>1. saved' = Append(saved, r)  BY <2>b, <2>c
    <3>2. r.latest_ledger = ledger /\ r.entries = {}  BY <2>a, <2>c
    <3> QED BY <3>1, <3>2
  <2>3. ledger \in 1..ledger  BY <1>1 DEF Chronicle
  <2> QED BY <1>1, <2>2, <2>3, OneReportMore
<1>4. ~(outcome.op = "diff" /\ outcome.ok)  BY <1>1 DEF StorageInv, DiffIsOfReports
<1>5. DiffIsOfReports' /\ ExtensionIsClosed' /\ PlanRescues'
      BY <1>1, <1>4 DEF StorageInv, DiffIsOfReports, ExtensionIsClosed, PlanRescues
<1>6. BatchesAreOfOneLedger' /\ PlanIsCarried'
      BY <1>1 DEF StorageInv, BatchesAreOfOneLedger, PlanIsCarried
<1> QED BY <1>2, <1>3, <1>5, <1>6 DEF StorageInv

(* The entry a diff looks up is the one the report has of the key. *)
LEMMA EntryIsTaken ==
    ASSUME KeptReports, NEW i \in 1..Len(saved), NEW k \in KeysOf(saved[i])
    PROVE  LET at == saved[i].latest_ledger
           IN k \in Keys /\ EntryOf(saved[i], k) = ttl_entry(k, past[at][k].value, past[at][k].until, at)
PROOF
<1> DEFINE at == saved[i].latest_ledger
           found == EntryOf(saved[i], k)
<1>1. found \in saved[i].entries /\ found.key = k  BY DEF KeysOf, EntryOf
<1>2. TakenAt(found, at)  BY <1>1 DEF KeptReports
<1> HIDE DEF found, at
<1>3. PICK j \in Keys : found = ttl_entry(j, past[at][j].value, past[at][j].until, at)
      BY <1>2 DEF TakenAt
<1>4. found.key = j  BY <1>3 DEF ttl_entry
<1>5. j = k  BY <1>1, <1>4
<1> QED BY <1>3, <1>5 DEF found, at

(* storage-diff answers about the two reports (StorageDiff). *)
LEMMA DiffKeeps ==
    ASSUME StorageInv, StorageDiff
    PROVE  StorageInv'
PROOF
<1>1. /\ UNCHANGED <<ledger, entries, past>> /\ saved' = saved /\ Chronicle /\ Len(saved) = 2
      BY DEF StorageDiff, StorageInv
<1>2. Chronicle' /\ ChainGrows  BY <1>1, ChainStays
<1>3. KeptReports'  BY <1>1, <1>2, ReportsStay DEF StorageInv
<1>4. CASE Finish("failed", FALSE, {}, NoValue)
  <2>1. BatchesAreOfOneLedger' /\ PlanIsCarried' /\ DiffIsOfReports' /\ ExtensionIsClosed' /\ PlanRescues'
        BY <1>4, OtherAnswers
  <2> QED BY <1>2, <1>3, <2>1 DEF StorageInv
<1>5. CASE ~Finish("failed", FALSE, {}, NoValue)
  <2> DEFINE d == diff_snapshots(saved[1], saved[2])
             p == derive_extend_plan(d)
  <2>1. /\ cmd' = cmd
        /\ outcome' = [op |-> "diff", ok |-> TRUE, at |-> p.ledgers, keys |-> d, value |-> p.keys]
        BY <1>5 DEF StorageDiff
  <2> HIDE DEF d, p
  <2>2. outcome'.op = "diff" /\ outcome'.keys = d /\ outcome'.value = p.keys /\ outcome'.at = p.ledgers
        BY <2>1
  <2>3. d = diff_snapshots(saved'[1], saved'[2]) /\ p = derive_extend_plan(outcome'.keys)
        BY <1>1, <2>2 DEF d, p
  <2>4. DiffIsOfReports'  BY <1>1, <2>2, <2>3 DEF DiffIsOfReports
  <2>5. ExtensionIsClosed' /\ PlanRescues'  BY <2>2 DEF ExtensionIsClosed, PlanRescues
  <2>6. BatchesAreOfOneLedger' /\ PlanIsCarried'
        BY <1>1, <1>2, <2>1, BatchesStay DEF StorageInv, PlanIsCarried
  <2> QED BY <1>2, <1>3, <2>4, <2>5, <2>6 DEF StorageInv
<1> QED BY <1>4, <1>5

(* What a plan suggests is never below the default (derive_extend_plan). *)
LEMMA PlansReachTheDefault ==
    ASSUME StorageInv, outcome.op = "diff", outcome.ok
    PROVE  /\ outcome.at \in Nat
           /\ \A e \in outcome.keys : e.status = "ExpiringSoon" =>
                e.key \in Keys /\ e.key \in outcome.value /\ outcome.at >= DEFAULT_SUGGESTED_LEDGERS
           /\ outcome.value \subseteq Keys
PROOF
<1> DEFINE d == outcome.keys
           left == {e.new_ttl : e \in {x \in actionable(d) : x.status = "ExpiringSoon"}}
           old == saved[1]
           new == saved[2]
<1>1. /\ Len(saved) = 2 /\ d = diff_snapshots(old, new) /\ KeptReports
      /\ outcome.value = {e.key : e \in actionable(d)}
      /\ outcome.at = IF left = {} THEN DEFAULT_SUGGESTED_LEDGERS
                      ELSE satAdd(Min(left), DEFAULT_SUGGESTED_LEDGERS)
      BY DEF StorageInv, DiffIsOfReports, derive_extend_plan
<1>2. /\ DEFAULT_SUGGESTED_LEDGERS \in Nat /\ U32Max \in Nat /\ DEFAULT_SUGGESTED_LEDGERS <= U32Max
      BY StorageAssumption
<1>3. 1 \in 1..Len(saved) /\ 2 \in 1..Len(saved)  BY <1>1
<1>4. ASSUME NEW e \in d
      PROVE  /\ e.key \in Keys
             /\ e.status = "ExpiringSoon" => e.new_ttl \in Nat
  <2>1. PICK k \in KeysOf(old) \cup KeysOf(new) :
          e = [key |-> k, status |-> diff_status(old, new, k),
               new_ttl |-> IF k \in KeysOf(new) THEN EntryOf(new, k).ttl ELSE 0]
        BY <1>1 DEF diff_snapshots
  <2>2. e.key = k /\ e.status = diff_status(old, new, k)
        /\ e.new_ttl = IF k \in KeysOf(new) THEN EntryOf(new, k).ttl ELSE 0
        BY <2>1
  <2>3. k \in Keys  BY <1>1, <1>3, EntryIsTaken
  <2>4. CASE k \in KeysOf(new)
    <3> DEFINE at == new.latest_ledger
    <3>1. EntryOf(new, k) = ttl_entry(k, past[at][k].value, past[at][k].until, at)
          BY <1>1, <1>3, <2>4, EntryIsTaken
    <3>2. at \in 1..ledger  BY <1>1, <1>3 DEF KeptReports
    <3>3. past[at][k].until \in Nat /\ at \in Nat
          BY <2>3, <3>2 DEF StorageInv, Chronicle
    <3>4. EntryOf(new, k).ttl = satSub(past[at][k].until, at)  BY <3>1 DEF ttl_entry
    <3>5. EntryOf(new, k).ttl \in Nat  BY <3>3, <3>4 DEF satSub
    <3> QED BY <2>2, <2>3, <2>4, <3>5
  <2>5. CASE k \notin KeysOf(new)  BY <2>2, <2>3, <2>5
  <2> QED BY <2>4, <2>5
<1>5. left \subseteq Nat  BY <1>4 DEF actionable
<1>6. outcome.at \in Nat /\ outcome.at >= DEFAULT_SUGGESTED_LEDGERS
  <2>1. CASE left = {}  BY <1>1, <1>2, <2>1
  <2>2. CASE left # {}
    <3>1. Min(left) \in Nat  BY <1>5, <2>2, LeastElement
    <3>2. outcome.at = satAdd(Min(left), DEFAULT_SUGGESTED_LEDGERS)  BY <1>1, <2>2
    <3> HIDE DEF left
    <3> QED BY <1>2, <3>1, <3>2 DEF satAdd
  <2> QED BY <2>1, <2>2
<1>7. \A e \in d : e.status = "ExpiringSoon" => e.key \in outcome.value  BY <1>1 DEF actionable
<1>8. outcome.value \subseteq Keys  BY <1>1, <1>4 DEF actionable
<1> QED BY <1>4, <1>6, <1>7, <1>8

(* storage extend, up to the request that submits it. *)
LEMMA ExtendKeeps ==
    ASSUME StorageInv, StorageExtend
    PROVE  StorageInv'
PROOF
<1>1. UNCHANGED <<ledger, entries, past>> /\ saved' = saved /\ Chronicle
      BY DEF StorageExtend, StorageInv
<1>2. Chronicle' /\ ChainGrows  BY <1>1, ChainStays
<1>3. KeptReports'  BY <1>1, <1>2, ReportsStay DEF StorageInv
<1>4. CASE Finish("failed", FALSE, {}, NoValue)
  <2>1. BatchesAreOfOneLedger' /\ PlanIsCarried' /\ DiffIsOfReports' /\ ExtensionIsClosed' /\ PlanRescues'
        BY <1>4, OtherAnswers
  <2> QED BY <1>2, <1>3, <2>1 DEF StorageInv
<1>5. ASSUME NEW n \in {0, 1}, NEW want, outcome' = outcome,
             cmd' = [Idle0 EXCEPT !.op = "extend", !.pc = "simulate", !.ledgers = n, !.want = want]
      PROVE  StorageInv'
  <2>1. /\ cmd'.op = "extend" /\ cmd'.pc = "simulate" /\ cmd'.plan = {} /\ cmd'.ledgers \in Nat
        /\ DOMAIN cmd' = DOMAIN Idle0
        BY <1>5 DEF Idle0
  <2>2. BatchesAreOfOneLedger' /\ PlanIsCarried'  BY <2>1 DEF BatchesAreOfOneLedger, PlanIsCarried
  <2>3. DiffIsOfReports' /\ ExtensionIsClosed' /\ PlanRescues'  BY <1>1, <1>5, AnswerStays
  <2> QED BY <1>2, <1>3, <2>2, <2>3 DEF StorageInv
<1>6. ASSUME outcome.op = "diff", outcome.ok, outcome' = outcome,
             NEW want, want = collect_extend_keys(SetToSeq(outcome.value)),
             cmd' = [Idle0 EXCEPT !.op = "extend", !.pc = "simulate", !.ledgers = outcome.at,
                                  !.want = want, !.plan = outcome.keys]
      PROVE  StorageInv'
  <2>1. /\ cmd'.op = "extend" /\ cmd'.pc = "simulate" /\ cmd'.plan = outcome.keys /\ cmd'.want = want
        /\ cmd'.ledgers = outcome.at /\ DOMAIN cmd' = DOMAIN Idle0
        BY <1>6 DEF Idle0
  <2>2. /\ outcome.at \in Nat /\ outcome.value \subseteq Keys
        /\ \A e \in outcome.keys : e.status = "ExpiringSoon" =>
             e.key \in Keys /\ e.key \in outcome.value /\ outcome.at >= DEFAULT_SUGGESTED_LEDGERS
        BY <1>6, PlansReachTheDefault
  <2>3. \A k \in outcome.value : Contains(want, k)
    <3>1. IsFiniteSet(outcome.value)  BY <2>2, StorageAssumption, FS_Subset
    <3>2. SetToSeq(outcome.value) \in Seq(outcome.value) /\ ToSet(SetToSeq(outcome.value)) = outcome.value
          BY <3>1, SetToSeqLists
    <3>3. SetToSeq(outcome.value) \in Seq(Keys)  BY <2>2, <3>2, SeqMonotonic
    <3> QED BY <1>6, <3>2, <3>3, CollectsEveryKey
  <2>4. BatchesAreOfOneLedger'  BY <2>1 DEF BatchesAreOfOneLedger
  <2>5. PlanIsCarried'  BY <2>1, <2>2, <2>3 DEF PlanIsCarried
  <2>6. DiffIsOfReports' /\ ExtensionIsClosed' /\ PlanRescues'  BY <1>1, <1>6, AnswerStays
  <2> QED BY <1>2, <1>3, <2>4, <2>5, <2>6 DEF StorageInv
<1> QED BY <1>4, <1>5, <1>6 DEF StorageExtend

(* The network extends what lives by what was asked, at least (SubmitExtend). *)
LEMMA ExtensionRescues ==
    ASSUME StorageInv, SubmitExtend
    PROVE  StorageInv'
PROOF
<1>1. saved' = saved /\ Chronicle /\ cmd.op = "extend"  BY DEF SubmitExtend, StorageInv
<1>2. CASE Fail
  <2>1. BatchesAreOfOneLedger' /\ PlanIsCarried' /\ DiffIsOfReports' /\ ExtensionIsClosed' /\ PlanRescues'
        BY <1>2, OtherAnswers DEF Fail
  <2>2. UNCHANGED <<ledger, entries, past>>
        BY <1>2 DEF SubmitExtend, Fail, Finish
  <2>3. Chronicle' /\ ChainGrows  BY <1>1, <2>2, ChainStays
  <2>4. KeptReports'  BY <1>1, <2>3, ReportsStay DEF StorageInv
  <2> QED BY <2>1, <2>3, <2>4 DEF StorageInv
<1>3. CASE ~Fail
  <2> DEFINE now == [k \in Keys |-> IF Contains(cmd.want, k) /\ Live(k)
                       THEN [entries[k] EXCEPT !.until = extended_until(k, cmd.ledgers)]
                       ELSE entries[k]]
  <2>1. CloseLedger(now) /\ Finish("extend", TRUE, cmd.plan, NoValue)  BY <1>3 DEF SubmitExtend
  <2>2. /\ cmd.ledgers \in Nat
        /\ \A e \in cmd.plan : e.status = "ExpiringSoon" =>
             e.key \in Keys /\ Contains(cmd.want, e.key) /\ cmd.ledgers >= DEFAULT_SUGGESTED_LEDGERS
        BY <1>1 DEF StorageInv, PlanIsCarried
  <2>3. ledger \in Nat \ {0} /\ entries \in [Keys -> [value : Values, until : Nat]]
        BY <1>1 DEF Chronicle
  <2>4. \A k \in Keys : /\ extended_until(k, cmd.ledgers) \in Nat
                        /\ extended_until(k, cmd.ledgers) >= ledger + cmd.ledgers
        BY <2>2, <2>3 DEF extended_until
  <2>5. ASSUME NEW k \in Keys
        PROVE  /\ now[k] \in [value : Values, until : Nat]
               /\ Contains(cmd.want, k) /\ Live(k) => now[k].until >= ledger + cmd.ledgers
    <3>1. PICK u \in Nat : u = extended_until(k, cmd.ledgers)  BY <2>4
    <3>2. now[k] = IF Contains(cmd.want, k) /\ Live(k) THEN [entries[k] EXCEPT !.until = u] ELSE entries[k]
          BY <3>1
    <3> HIDE DEF now
    <3>3. entries[k] \in [value : Values, until : Nat]  BY <2>3
    <3>4. [entries[k] EXCEPT !.until = u] \in [value : Values, until : Nat]
          /\ [entries[k] EXCEPT !.until = u].until = u
          BY <3>3
    <3> QED BY <2>4, <3>1, <3>2, <3>3, <3>4
  <2>6. now \in [Keys -> [value : Values, until : Nat]]  BY <2>5
  <2> HIDE DEF now
  <2>7. Chronicle' /\ ChainGrows /\ ledger' = ledger + 1 /\ past'[ledger] = entries /\ entries' = now
        BY <1>1, <2>1, <2>6, ClosingIsKept
  <2>8. cmd' = Idle0 /\ outcome'.op = "extend" /\ outcome'.at = ledger /\ outcome'.keys = cmd.plan
        BY <2>1 DEF Finish
  <2>9. BatchesAreOfOneLedger' /\ PlanIsCarried'  BY <2>8, IdleIsFine
  <2>10. DiffIsOfReports' /\ ExtensionIsClosed'
         BY <2>3, <2>7, <2>8 DEF DiffIsOfReports, ExtensionIsClosed
  <2>11. PlanRescues'
    <3>1. ledger' - 1 = ledger  BY <2>3, <2>7
    <3>2. ASSUME NEW e \in cmd.plan, e.status = "ExpiringSoon", entries[e.key].until >= ledger
          PROVE  now[e.key].until - ledger >= DEFAULT_SUGGESTED_LEDGERS
      <4>1. e.key \in Keys /\ Contains(cmd.want, e.key) /\ cmd.ledgers >= DEFAULT_SUGGESTED_LEDGERS
            BY <2>2, <3>2
      <4>2. Live(e.key)  BY <3>2 DEF Live
      <4>3. now[e.key].until >= ledger + cmd.ledgers /\ now[e.key].until \in Nat
            BY <2>5, <4>1, <4>2
      <4>4. DEFAULT_SUGGESTED_LEDGERS \in Nat  BY StorageAssumption
      <4> QED BY <2>2, <2>3, <4>1, <4>3, <4>4
    <3> QED BY <2>7, <2>8, <3>1, <3>2 DEF PlanRescues
  <2>12. KeptReports'  BY <1>1, <2>7, ReportsStay DEF StorageInv
  <2> QED BY <2>7, <2>9, <2>10, <2>11, <2>12 DEF StorageInv
<1> QED BY <1>2, <1>3

(* The network revives what the restoration names (SubmitRestore). *)
LEMMA RestoreKeeps ==
    ASSUME StorageInv, SubmitRestore
    PROVE  StorageInv'
PROOF
<1>1. saved' = saved /\ Chronicle  BY DEF SubmitRestore, StorageInv
<1>2. CASE Fail
  <2>1. BatchesAreOfOneLedger' /\ PlanIsCarried' /\ DiffIsOfReports' /\ ExtensionIsClosed' /\ PlanRescues'
        BY <1>2, OtherAnswers DEF Fail
  <2>2. UNCHANGED <<ledger, entries, past>>  BY <1>2 DEF SubmitRestore, Fail, Finish
  <2>3. Chronicle' /\ ChainGrows  BY <1>1, <2>2, ChainStays
  <2>4. KeptReports'  BY <1>1, <2>3, ReportsStay DEF StorageInv
  <2> QED BY <2>1, <2>3, <2>4 DEF StorageInv
<1>3. CASE ~Fail
  <2> DEFINE now == [k \in Keys |-> IF k \in cmd.got /\ ~Live(k)
                       THEN [entries[k] EXCEPT !.until = ledger + RestoreTtl] ELSE entries[k]]
  <2>1. CloseLedger(now) /\ Finish("restore", TRUE, cmd.got, NoValue)  BY <1>3 DEF SubmitRestore
  <2>2. /\ ledger \in Nat \ {0} /\ entries \in [Keys -> [value : Values, until : Nat]]
        /\ ledger + RestoreTtl \in Nat
        BY <1>1, StorageAssumption DEF Chronicle
  <2>3. now \in [Keys -> [value : Values, until : Nat]]  BY <2>2
  <2> HIDE DEF now
  <2>4. Chronicle' /\ ChainGrows  BY <1>1, <2>1, <2>3, ClosingIsKept
  <2>5. BatchesAreOfOneLedger' /\ PlanIsCarried' /\ DiffIsOfReports' /\ ExtensionIsClosed' /\ PlanRescues'
        BY <2>1, OtherAnswers
  <2>6. KeptReports'  BY <1>1, <2>4, ReportsStay DEF StorageInv
  <2> QED BY <2>4, <2>5, <2>6 DEF StorageInv
<1> QED BY <1>2, <1>3

(* Requests that neither read entries nor make a plan. *)
LEMMA OtherRequestsKeep ==
    ASSUME StorageInv,
           StorageEstimate \/ SimulateExtend \/ StorageRestore \/ RestorePreamble \/ StorageRead
    PROVE  StorageInv'
PROOF
<1>1. UNCHANGED <<ledger, entries, past>> /\ saved' = saved /\ Chronicle
      BY DEF StorageEstimate, SimulateExtend, StorageRestore, RestorePreamble, StorageRead, StorageInv
<1>2. Chronicle' /\ ChainGrows  BY <1>1, ChainStays
<1>3. KeptReports'  BY <1>1, <1>2, ReportsStay DEF StorageInv
<1>4. ASSUME NEW op, op \notin {"diff", "extend"}, NEW ok, NEW keys, NEW value, Finish(op, ok, keys, value)
      PROVE  StorageInv'
  <2>1. BatchesAreOfOneLedger' /\ PlanIsCarried' /\ DiffIsOfReports' /\ ExtensionIsClosed' /\ PlanRescues'
        BY <1>4, OtherAnswers
  <2> QED BY <1>2, <1>3, <2>1 DEF StorageInv
<1>5. ASSUME BatchesAreOfOneLedger', PlanIsCarried', outcome' = outcome
      PROVE  StorageInv'
  <2>1. DiffIsOfReports' /\ ExtensionIsClosed' /\ PlanRescues'  BY <1>1, <1>5, AnswerStays
  <2> QED BY <1>2, <1>3, <1>5, <2>1 DEF StorageInv
<1>6. CASE StorageEstimate  BY <1>4, <1>6 DEF StorageEstimate
<1>7. CASE SimulateExtend
  <2>1. CASE Fail  BY <1>4, <2>1 DEF Fail
  <2>2. CASE cmd' = [cmd EXCEPT !.pc = "submit"] /\ outcome' = outcome
    <3>1. cmd.op = "extend" /\ DOMAIN cmd = DOMAIN Idle0
          BY <1>7 DEF SimulateExtend, StorageInv, BatchesAreOfOneLedger
    <3>2. /\ cmd'.op = "extend" /\ cmd'.pc = "submit" /\ DOMAIN cmd' = DOMAIN Idle0
          /\ cmd'.plan = cmd.plan /\ cmd'.want = cmd.want /\ cmd'.ledgers = cmd.ledgers
          BY <2>2, <3>1 DEF Idle0
    <3>3. BatchesAreOfOneLedger'  BY <3>2 DEF BatchesAreOfOneLedger
    <3>4. PlanIsCarried'  BY <3>1, <3>2 DEF StorageInv, PlanIsCarried
    <3> QED BY <1>5, <2>2, <3>3, <3>4
  <2> QED BY <1>7, <2>1, <2>2 DEF SimulateExtend
<1>8. CASE StorageRestore
  <2>1. PICK touched, dry :
          cmd' = [Idle0 EXCEPT !.op = "restore", !.pc = "preamble", !.want = touched, !.dry = dry]
        BY <1>8 DEF StorageRestore
  <2>2. cmd'.op = "restore" /\ cmd'.pc = "preamble" /\ DOMAIN cmd' = DOMAIN Idle0
        BY <2>1 DEF Idle0
  <2>3. BatchesAreOfOneLedger' /\ PlanIsCarried'  BY <2>2 DEF BatchesAreOfOneLedger, PlanIsCarried
  <2>4. outcome' = outcome  BY <1>8 DEF StorageRestore
  <2> QED BY <1>5, <2>3, <2>4
<1>9. CASE RestorePreamble
  <2>1. CASE Fail  BY <1>4, <2>1 DEF Fail
  <2>2. CASE Finish("dry_run", TRUE, restore_params_from_simulation, NoValue)  BY <1>4, <2>2
  <2>3. CASE /\ cmd' = [cmd EXCEPT !.pc = "submit", !.got = restore_params_from_simulation]
             /\ outcome' = outcome
    <3>1. cmd.pc = "preamble" /\ DOMAIN cmd = DOMAIN Idle0 /\ cmd.op \notin {"analyze", "check"}
          BY <1>9 DEF RestorePreamble, StorageInv, BatchesAreOfOneLedger
    <3> DEFINE got == restore_params_from_simulation
    <3>2. cmd' = [cmd EXCEPT !.pc = "submit", !.got = got]  BY <2>3
    <3> HIDE DEF got
    <3>3. /\ cmd'.op = cmd.op /\ cmd'.pc = "submit" /\ DOMAIN cmd' = DOMAIN Idle0
          /\ cmd'.plan = cmd.plan /\ cmd'.want = cmd.want /\ cmd'.ledgers = cmd.ledgers
          BY <3>1, <3>2 DEF Idle0
    <3>4. BatchesAreOfOneLedger'  BY <3>1, <3>3 DEF BatchesAreOfOneLedger
    <3>5. PlanIsCarried'  BY <3>3 DEF StorageInv, PlanIsCarried
    <3> QED BY <1>5, <2>3, <3>4, <3>5
  <2> QED BY <1>9, <2>1, <2>2, <2>3 DEF RestorePreamble
<1>10. CASE StorageRead
  <2>1. PICK k \in Keys : read_contract_state(k)  BY <1>10 DEF StorageRead
  <2> QED BY <1>4, <2>1 DEF read_contract_state
<1> QED BY <1>6, <1>7, <1>8, <1>9, <1>10

(* Of every behaviour. *)
THEOREM StorageIsKept == StorageSpec => []StorageInv
PROOF
<1>1. StorageInit => StorageInv  BY StorageInitInv
<1>2. StorageInv /\ [StorageNext]_storageVars => StorageInv'
  <2> SUFFICES ASSUME StorageInv, [StorageNext]_storageVars  PROVE StorageInv'
      OBVIOUS
  <2>1. CASE Tick  BY <2>1, TickKeeps
  <2>2. CASE StorageAnalyze \/ StorageCheck  BY <2>2, AnalyzeKeeps
  <2>3. CASE FetchBatch  BY <2>3, BatchKeeps
  <2>4. CASE Report  BY <2>4, ReportKeeps
  <2>5. CASE SaveForeign  BY <2>5, ForeignKeeps
  <2>6. CASE StorageDiff  BY <2>6, DiffKeeps
  <2>7. CASE StorageExtend  BY <2>7, ExtendKeeps
  <2>8. CASE SubmitExtend  BY <2>8, ExtensionRescues
  <2>9. CASE SubmitRestore  BY <2>9, RestoreKeeps
  <2>10. CASE StorageEstimate \/ SimulateExtend \/ StorageRestore \/ RestorePreamble \/ StorageRead
         BY <2>10, OtherRequestsKeep
  <2>11. CASE UNCHANGED storageVars
    <3>1. UNCHANGED <<ledger, entries, past, cmd, saved, outcome>>  BY <2>11 DEF storageVars
    <3>2. Chronicle' /\ ChainGrows  BY <3>1, ChainStays DEF StorageInv
    <3>3. DiffIsOfReports' /\ ExtensionIsClosed' /\ PlanRescues'  BY <3>1, AnswerStays
    <3>4. KeptReports' /\ BatchesAreOfOneLedger' /\ PlanIsCarried'
          BY <3>1, <3>2, ReportsStay, BatchesStay DEF StorageInv, PlanIsCarried
    <3> QED BY <3>2, <3>3, <3>4 DEF StorageInv
  <2> QED BY <2>1, <2>2, <2>3, <2>4, <2>5, <2>6, <2>7, <2>8, <2>9, <2>10, <2>11 DEF StorageNext
<1> QED BY <1>1, <1>2, PTL DEF StorageSpec

(* A plan carried out, however late, leaves every expiring key that still lived
   with the default horizon (storage-diff --extend-plan, then storage extend). *)
THEOREM PlansRescue == StorageSpec => []PlanRescues
PROOF
<1>1. StorageInv => PlanRescues  BY DEF StorageInv
<1> QED BY <1>1, StorageIsKept, PTL

(* Every value and lifetime of a report is that of the ledger it names, and what
   storage-diff calls unchanged was (inspect_contract_storage_keys,
   diff_snapshots). *)
THEOREM ReportsAreTrue == StorageSpec => []ReportsTellTheChain
PROOF
<1>1. StorageInv => ReportIsOneLedger
  <2> SUFFICES ASSUME StorageInv, NEW i \in DOMAIN saved, NEW e \in saved[i].entries
               PROVE  LET was == past[saved[i].latest_ledger][e.key]
                      IN /\ e.value = extract_contract_data_value(e.key, was.value)
                         /\ e.ttl = satSub(was.until, saved[i].latest_ledger)
      BY DEF ReportIsOneLedger
  <2> DEFINE at == saved[i].latest_ledger
  <2>1. KeptReports /\ DOMAIN saved = 1..Len(saved)
        BY AppendKeeps DEF StorageInv, KeptReports
  <2>2. TakenAt(e, at)  BY <2>1 DEF KeptReports
  <2> HIDE DEF at
  <2>3. PICK k \in Keys : e = ttl_entry(k, past[at][k].value, past[at][k].until, at)
        BY <2>2 DEF TakenAt
  <2>4. /\ e.key = k /\ e.value = extract_contract_data_value(k, past[at][k].value)
        /\ e.ttl = satSub(past[at][k].until, at)
        BY <2>3 DEF ttl_entry
  <2> QED BY <2>4 DEF at
<1>2. StorageInv => DiffTellsChanges
  <2> SUFFICES ASSUME StorageInv, outcome.op = "diff", outcome.ok  PROVE DiffTellsChanges
      BY DEF DiffTellsChanges
  <2> DEFINE old == saved[1]
             new == saved[2]
             then == past[old.latest_ledger]
             now == past[new.latest_ledger]
  <2>a. /\ KeptReports /\ Chronicle /\ Len(saved) = 2 /\ outcome.keys = diff_snapshots(old, new)
        BY DEF StorageInv, DiffIsOfReports
  <2>b. 1 \in 1..Len(saved) /\ 2 \in 1..Len(saved)  BY <2>a
  <2>1. /\ KeptReports /\ Chronicle /\ Len(saved) = 2 /\ outcome.keys = diff_snapshots(old, new)
        /\ 1 \in 1..Len(saved) /\ 2 \in 1..Len(saved)
        BY <2>a, <2>b
  <2>2. old.latest_ledger \in 1..ledger /\ new.latest_ledger \in 1..ledger  BY <2>1 DEF KeptReports
  <2>3. {e.key : e \in outcome.keys} = KeysOf(old) \cup KeysOf(new)
    <3> DEFINE both == KeysOf(old) \cup KeysOf(new)
               line(k) == [key |-> k, status |-> diff_status(old, new, k),
                           new_ttl |-> IF k \in KeysOf(new) THEN EntryOf(new, k).ttl ELSE 0]
    <3>1. outcome.keys = {line(k) : k \in both}  BY <2>1 DEF diff_snapshots
    <3>2. \A k : line(k).key = k  OBVIOUS
    <3> HIDE DEF both, line
    <3>3. {e.key : e \in outcome.keys} = both  BY <3>1, <3>2
    <3> QED BY <3>3 DEF both
  <2>4. ASSUME NEW e \in outcome.keys, e.status = "Unchanged"
        PROVE  /\ now[e.key].until - new.latest_ledger >= EXPIRING_SOON_LEDGERS
               /\ KeyClass[e.key] # "Other" /\ e.key \in KeysOf(old) => then[e.key].value = now[e.key].value
    <3>1. PICK k \in KeysOf(old) \cup KeysOf(new) :
            e = [key |-> k, status |-> diff_status(old, new, k),
                 new_ttl |-> IF k \in KeysOf(new) THEN EntryOf(new, k).ttl ELSE 0]
          BY <2>1 DEF diff_snapshots
    <3>2. e.key = k /\ diff_status(old, new, k) = "Unchanged"  BY <2>4, <3>1
    <3>3. /\ k \in KeysOf(new) /\ ~(EntryOf(new, k).ttl < EXPIRING_SOON_LEDGERS)
          /\ k \in KeysOf(old) /\ NoValue \notin {EntryOf(old, k).value, EntryOf(new, k).value} =>
               EntryOf(old, k).value = EntryOf(new, k).value
          BY <3>2 DEF diff_status
    <3>4. k \in Keys /\ EntryOf(new, k) = ttl_entry(k, now[k].value, now[k].until, new.latest_ledger)
          BY <2>1, <3>3, EntryIsTaken
    <3>5. k \in KeysOf(old) =>
            EntryOf(old, k) = ttl_entry(k, then[k].value, then[k].until, old.latest_ledger)
          BY <2>1, EntryIsTaken
    <3>6. /\ now[k].until \in Nat /\ now[k].value \in Values /\ then[k].value \in Values
          /\ new.latest_ledger \in Nat
          BY <2>1, <2>2, <3>4 DEF Chronicle
    <3> HIDE DEF old, new, now, then
    <3>7. EntryOf(new, k).ttl = satSub(now[k].until, new.latest_ledger)  BY <3>4 DEF ttl_entry
    <3>8. EXPIRING_SOON_LEDGERS \in Nat /\ EXPIRING_SOON_LEDGERS > 0 /\ NoValue \notin Values
          BY StorageAssumption
    <3>9. now[k].until - new.latest_ledger >= EXPIRING_SOON_LEDGERS
          BY <3>3, <3>6, <3>7, <3>8 DEF satSub
    <3>10. ASSUME KeyClass[k] # "Other", k \in KeysOf(old)  PROVE then[k].value = now[k].value
      <4>1. EntryOf(new, k).value = now[k].value /\ EntryOf(old, k).value = then[k].value
            BY <3>4, <3>5, <3>10 DEF ttl_entry, extract_contract_data_value
      <4> QED BY <3>3, <3>6, <3>8, <3>10, <4>1
    <3> QED BY <3>2, <3>9, <3>10
  <2> QED BY <2>3, <2>4 DEF DiffTellsChanges
<1>3. StorageInv => ReportsTellTheChain  BY <1>1, <1>2 DEF ReportsTellTheChain
<1> QED BY <1>3, StorageIsKept, PTL

-----------------------------------------------------------------------------
\* Reading commands.

\* The last ledger is the chain as it is, and events are of ledgers that have closed.
TrailOfTheChain ==
    /\ IsSequence(trail) /\ seq >= 1 /\ trail[seq] = chain
    /\ DOMAIN chain = {"exe", "tag", "code", "cfg", "events"}
    /\ chain.events \subseteq 1..seq

CacheStages == {"cache", "fetch", "put", "fill", "rename"}

\* Which commands make which requests.
StageOfCommand ==
    /\ reader.pc \in {"instance", "tag"} => reader.op \in {"inspect", "verify", "health", "deployment", "metadata"}
    /\ reader.pc = "code" => reader.op \in {"inspect", "verify", "health", "metadata"}
    /\ reader.pc = "storage" => reader.op \in {"inspect", "health"}
    /\ reader.pc \in CacheStages => reader.op = "metadata"
    /\ reader.pc \in {"latest", "events"} => reader.op = "events"
    /\ reader.pc \in {"ledger", "settings"} => reader.op = "capture"
    /\ reader.pc \in {"horizon", "rpc"} => reader.op = "account"
    /\ reader.pc = "tx" => reader.op = "tx"
    /\ reader.pc # "idle" => reader.op # "idle"

\* A default window begins with the first ledger, or EventWindow ledgers back at least.
LooksBack(first) == first \in Nat /\ (first = 1 \/ first <= seq - EventWindow)

\* What a command has learned so far was so since it began.
ReaderHasSeen ==
    /\ DOMAIN reader = DOMAIN Asleep
    /\ StageOfCommand
    /\ reader.op # "idle" => reader.from \in 1..seq
    /\ reader.pc = "tag" => \E l \in reader.from..seq : trail[l].exe.kind = "external"
    /\ reader.pc \in {"code", "storage"} \cup CacheStages => Readable(reader.hash, reader.from, seq)
    /\ reader.pc \in {"latest", "events"} => {reader.lo, reader.hi} \subseteq Nat \cup {Unset}
    /\ reader.pc = "latest" => {reader.lo, reader.hi} = {Unset}
    /\ reader.pc = "events" /\ {reader.lo, reader.hi} = {Unset} => LooksBack(reader.first)

\* A verdict is about ledgers that have closed.
VerdictIsOfThePast ==
    /\ verdict.op \in {"verify", "health", "deployment", "metadata", "events"} =>
         verdict.from \in 1..verdict.to /\ verdict.to \in 1..seq
    /\ verdict.op = "capture" /\ verdict.exit = 0 => verdict.lo \in 1..seq

ReadInv == TrailOfTheChain /\ ReaderHasSeen /\ VerdictIsOfThePast /\ AnswersAreGrounded

(* The chain and its trail when no ledger closes. *)
LEMMA TrailStays ==
    ASSUME TrailOfTheChain, chain' = chain, trail' = trail
    PROVE  TrailOfTheChain' /\ seq' = seq
BY DEF TrailOfTheChain, seq

LEMMA VerdictStays ==
    ASSUME VerdictIsOfThePast, AnswersAreGrounded, trail' = trail, verdict' = verdict
    PROVE  VerdictIsOfThePast' /\ AnswersAreGrounded'
PROOF
<1>1. VerdictIsOfThePast'  BY DEF VerdictIsOfThePast, seq
<1>2. ASSUME NEW h, NEW from, NEW to  PROVE Readable(h, from, to)' <=> Readable(h, from, to)
  <2>1. \A l : Effective(trail'[l]) = Effective(trail[l])  OBVIOUS
  <2>2. Readable(h, from, to)' <=> \/ \E l \in from..to : Effective(trail'[l]) = h
                                  \/ \E l, m \in from..to : l < m /\ trail'[l].exe.kind = "external" /\ trail'[m].tag = h
        BY DEF Readable, Effective
  <2> QED BY <2>1, <2>2 DEF Readable
<1>3. VerifiedMeansDeployed'
  <2>1. VerifiedMeansDeployed  BY DEF AnswersAreGrounded
  <2> QED BY <1>2, <2>1, Zenon DEF VerifiedMeansDeployed
<1>4. MetadataIsOfTheContract'
  <2>1. MetadataIsOfTheContract  BY DEF AnswersAreGrounded
  <2> QED BY <1>2, <2>1, Zenon DEF MetadataIsOfTheContract
<1>5. CaptureIsOneLedger'  BY Zenon DEF AnswersAreGrounded, CaptureIsOneLedger
<1>6. EventsAreTheWindow'
  <2>1. EventsAreTheWindow  BY DEF AnswersAreGrounded
  <2>2. WindowEnd' = WindowEnd /\ WindowStart' = WindowStart  BY DEF WindowEnd, WindowStart
  <2> QED BY <2>1, <2>2, Zenon DEF EventsAreTheWindow
<1> QED BY <1>1, <1>3, <1>4, <1>5, <1>6 DEF AnswersAreGrounded

\* What was shown of the events of the ledgers up to `to`, for a user who asked for
\* lo to hi.
OfTheWindow(got, lo, hi, to) ==
    LET last == IF hi = Unset THEN to ELSE hi
        first == IF lo = Unset THEN last - EventWindow ELSE lo
    IN /\ got \subseteq trail[to].events
       /\ \A l \in got : l <= last /\ ({lo, hi} # {Unset} => l >= first)
       /\ \A l \in trail[to].events \ got :
            first <= l /\ l <= last => Cardinality(got) = PageLimit /\ \A shown \in got : shown < l

(* An answer that is right about the ledgers of the command (Answer). *)
LEMMA AnswerKeeps ==
    ASSUME ReadInv, chain' = chain, trail' = trail, reader.pc # "idle",
           NEW status, NEW exit, NEW hash, NEW got, Answer(status, exit, hash, got),
           (reader.op \in {"verify", "health", "deployment"} /\ reader.local \in Hashes) =>
               /\ exit = 0 => Readable(reader.local, reader.from, seq)
               /\ status \in {"Mismatch", "critical", "DRIFT"} =>
                    hash # reader.local /\ Readable(hash, reader.from, seq),
           (reader.op = "capture" /\ exit = 0) =>
               reader.lo \in 1..seq /\ \A c \in got : trail[reader.lo].cfg[c[1]] = c[2],
           (reader.op = "events" /\ exit = 0) => OfTheWindow(got, reader.lo, reader.hi, seq),
           (reader.op = "metadata" /\ exit = 0) => got = {hash} /\ Readable(hash, reader.from, seq)
    PROVE  ReadInv'
PROOF
<1>1. TrailOfTheChain' /\ seq' = seq  BY TrailStays DEF ReadInv
<1>2. reader' = Asleep
      BY DEF Answer
<1>3. /\ verdict'.op = reader.op /\ verdict'.status = status /\ verdict'.exit = exit
      /\ verdict'.hash = hash /\ verdict'.got = got /\ verdict'.local = reader.local
      /\ verdict'.from = reader.from /\ verdict'.to = seq /\ verdict'.lo = reader.lo /\ verdict'.hi = reader.hi
      BY DEF Answer, Said
<1>4. ReaderHasSeen'
      BY <1>2 DEF ReaderHasSeen, StageOfCommand, CacheStages, Asleep
<1>5. reader.from \in 1..seq /\ seq \in Nat /\ seq >= 1
  <2>1. reader.from \in 1..seq /\ IsSequence(trail) /\ seq >= 1
        BY DEF ReadInv, ReaderHasSeen, StageOfCommand, TrailOfTheChain
  <2> QED BY <2>1, AppendKeeps DEF seq
<1>6. reader.from \in 1..seq /\ seq \in 1..seq  BY <1>5
<1>7. VerdictIsOfThePast'  BY <1>1, <1>3, <1>6 DEF VerdictIsOfThePast
<1>8. VerifiedMeansDeployed'  BY <1>3 DEF VerifiedMeansDeployed, Readable, Effective
<1>9. MetadataIsOfTheContract'  BY <1>3 DEF MetadataIsOfTheContract, Readable, Effective
<1>10. CaptureIsOneLedger'  BY <1>3 DEF CaptureIsOneLedger
<1>11. EventsAreTheWindow'  BY <1>3 DEF EventsAreTheWindow, OfTheWindow, WindowStart, WindowEnd
<1> QED BY <1>1, <1>4, <1>7, <1>8, <1>9, <1>10, <1>11 DEF ReadInv, AnswersAreGrounded

(* An error says nothing of the contract or its network. *)
LEMMA RefuseKeeps ==
    ASSUME ReadInv, chain' = chain, trail' = trail, reader.pc # "idle", Refuse
    PROVE  ReadInv'
BY AnswerKeeps DEF Refuse

(* A command goes on to its next request (Goto). *)
LEMMA GoesOn ==
    ASSUME ReadInv, chain' = chain, trail' = trail, verdict' = verdict, ReaderHasSeen'
    PROVE  ReadInv'
BY TrailStays, VerdictStays DEF ReadInv

LEMMA ReadInitInv ==
    ASSUME ReadInit
    PROVE  ReadInv
PROOF
<1>1. PICK e, h, s : chain = [exe |-> e, tag |-> h, code |-> Hashes, cfg |-> s, events |-> {1}]
      BY DEF ReadInit
<1>2. trail = <<chain>> /\ reader = Asleep /\ verdict = Silent  BY DEF ReadInit
<1>3. seq = 1 /\ trail[1] = chain /\ trail \in Seq(ToSet(trail))  BY <1>2 DEF seq, ToSet
<1>4. DOMAIN chain = {"exe", "tag", "code", "cfg", "events"} /\ chain.events = {1}  BY <1>1
<1>5. TrailOfTheChain
  <2>1. chain.events \subseteq 1..seq  BY <1>3, <1>4
  <2> QED BY <1>3, <1>4, <2>1 DEF TrailOfTheChain, IsSequence
<1>6. ReaderHasSeen  BY <1>2 DEF ReaderHasSeen, StageOfCommand, CacheStages, Asleep
<1>7. verdict.op = "none"  BY <1>2 DEF Silent
<1> QED BY <1>5, <1>6, <1>7 DEF ReadInv, VerdictIsOfThePast, AnswersAreGrounded, VerifiedMeansDeployed,
           MetadataIsOfTheContract, CaptureIsOneLedger, EventsAreTheWindow

\* Readable, of these ledgers.
ReadableIn(t, h, from, to) ==
    \/ \E l \in from..to : Effective(t[l]) = h
    \/ \E l, m \in from..to : l < m /\ t[l].exe.kind = "external" /\ t[m].tag = h

(* What could be read can be read when more ledgers have closed. *)
LEMMA ReadableLater ==
    ASSUME NEW old, NEW new, NEW h, NEW from \in Nat, NEW to \in Nat, NEW until \in Nat, to <= until,
           \A l \in from..to : new[l] = old[l], ReadableIn(old, h, from, to)
    PROVE  ReadableIn(new, h, from, until)
PROOF
<1>1. \A l \in from..to : l \in from..until  OBVIOUS
<1>2. CASE \E l \in from..to : Effective(old[l]) = h
      BY <1>1, <1>2 DEF ReadableIn
<1>3. CASE \E l, m \in from..to : l < m /\ old[l].exe.kind = "external" /\ old[m].tag = h
      BY <1>1, <1>3 DEF ReadableIn
<1> QED BY <1>2, <1>3 DEF ReadableIn

(* A ledger closes: what was seen and said stays so. *)
LEMMA CloseKeeps ==
    ASSUME ReadInv, Close
    PROVE  ReadInv'
PROOF
<1>1. trail' = Append(trail, chain') /\ reader' = reader /\ verdict' = verdict /\ TrailOfTheChain
      BY DEF Close, ReadInv
<1>2. /\ seq \in Nat /\ seq >= 1 /\ trail[seq] = chain /\ chain.events \subseteq 1..seq
      /\ seq' = seq + 1 /\ IsSequence(trail') /\ trail'[seq + 1] = chain'
      /\ \A l \in 1..seq : trail'[l] = trail[l]
  <2>1. IsSequence(trail)  BY <1>1 DEF TrailOfTheChain
  <2>2. /\ IsSequence(trail') /\ Len(trail) \in Nat /\ Len(trail') = Len(trail) + 1
        /\ trail'[Len(trail) + 1] = chain' /\ \A l \in 1..Len(trail) : trail'[l] = trail[l]
        BY <1>1, <2>1, AppendKeeps
  <2> QED BY <1>1, <2>2 DEF TrailOfTheChain, seq
<1>3. DOMAIN chain = {"exe", "tag", "code", "cfg", "events"}  BY <1>1 DEF TrailOfTheChain
<1>4. /\ DOMAIN chain' = DOMAIN chain
      /\ chain'.events = chain.events \/ chain'.events = chain.events \cup {seq + 1}
  <2>1. CASE \E e \in Executables \ {chain.exe} : chain' = [chain EXCEPT !.exe = e]  BY <1>3, <2>1
  <2>2. CASE \E t \in (Hashes \cup {NoHash}) \ {chain.tag} : chain' = [chain EXCEPT !.tag = t]  BY <1>3, <2>2
  <2>3. CASE \E h \in chain.code : chain' = [chain EXCEPT !.code = @ \ {h}]  BY <1>3, <2>3
  <2>4. CASE \E s \in Settings : chain' = [chain EXCEPT !.cfg[s] = 1 - @]  BY <1>3, <2>4
  <2>5. CASE chain' = [chain EXCEPT !.events = @ \cup {seq + 1}]
    <3> DEFINE n == seq + 1
    <3>1. chain' = [chain EXCEPT !.events = @ \cup {n}]  BY <2>5
    <3> HIDE DEF n
    <3>2. DOMAIN chain' = DOMAIN chain /\ chain'.events = chain.events \cup {n}
          BY <1>3, <3>1
    <3> QED BY <3>2 DEF n
  <2> QED BY <2>1, <2>2, <2>3, <2>4, <2>5 DEF Close
<1>5. TrailOfTheChain'
  <2>1. chain'.events \subseteq 1..(seq + 1)  BY <1>2, <1>4
  <2>2. seq' >= 1  BY <1>2
  <2> QED BY <1>2, <1>3, <1>4, <2>1, <2>2 DEF TrailOfTheChain
<1>6. ReaderHasSeen'
  <2>0. reader.op # "idle" => reader.from \in 1..seq /\ reader.from \in 1..seq'
        BY <1>2 DEF ReadInv, ReaderHasSeen
  <2>1. ASSUME reader.pc = "tag"
        PROVE  \E l \in reader.from..seq' : trail'[l].exe.kind = "external"
    <3>1. PICK l \in reader.from..seq : trail[l].exe.kind = "external"
          BY <2>1 DEF ReadInv, ReaderHasSeen
    <3>2. reader.from \in 1..seq  BY <2>0, <2>1 DEF ReadInv, ReaderHasSeen, StageOfCommand
    <3>3. l \in 1..seq /\ l \in reader.from..seq'  BY <1>2, <3>2
    <3> QED BY <1>2, <3>1, <3>3
  <2>2. ASSUME reader.pc \in {"code", "storage"} \cup CacheStages
        PROVE  Readable(reader.hash, reader.from, seq)'
    <3>1. Readable(reader.hash, reader.from, seq)  BY <2>2 DEF ReadInv, ReaderHasSeen
    <3>2. reader.from \in 1..seq
          BY <2>0, <2>2 DEF ReadInv, ReaderHasSeen, StageOfCommand, CacheStages
    <3>3. reader.from \in Nat /\ seq' \in Nat /\ seq <= seq' /\ \A l \in reader.from..seq : trail'[l] = trail[l]
          BY <1>2, <3>2
    <3>4. ReadableIn(trail, reader.hash, reader.from, seq)  BY <3>1 DEF Readable, ReadableIn
    <3>5. ReadableIn(trail', reader.hash, reader.from, seq')  BY <1>2, <3>3, <3>4, ReadableLater
    <3> QED BY <1>1, <3>5 DEF Readable, ReadableIn
  <2>3. ASSUME reader.pc = "events", {reader.lo, reader.hi} = {Unset}
        PROVE  LooksBack(reader.first)'
    <3>1. LooksBack(reader.first)  BY <2>3 DEF ReadInv, ReaderHasSeen
    <3> QED BY <1>1, <1>2, <3>1, ContractAssumption DEF LooksBack
  <2> QED BY <1>1, <2>0, <2>1, <2>2, <2>3 DEF ReadInv, ReaderHasSeen, StageOfCommand
<1>7. VerdictIsOfThePast'
  <2>1. \A l \in 1..seq : l \in 1..seq'  BY <1>2
  <2> QED BY <1>1, <2>1 DEF ReadInv, VerdictIsOfThePast
<1>8. AnswersAreGrounded'
  <2>1. ASSUME verdict.op \in {"verify", "health", "deployment", "metadata", "events"}
        PROVE  /\ verdict.from \in Nat /\ verdict.to \in Nat /\ verdict.to \in 1..seq
               /\ trail'[verdict.to] = trail[verdict.to]
               /\ \A l \in verdict.from..verdict.to : trail'[l] = trail[l]
        BY <1>2, <2>1 DEF ReadInv, VerdictIsOfThePast
  <2>0. ASSUME verdict.op \in {"verify", "health", "deployment", "metadata"},
               NEW h, Readable(h, verdict.from, verdict.to)
        PROVE  ReadableIn(trail', h, verdict.from, verdict.to)
    <3>1. ReadableIn(trail, h, verdict.from, verdict.to)  BY <2>0 DEF Readable, ReadableIn
    <3> QED BY <2>0, <2>1, <3>1, ReadableLater
  <2>2. VerifiedMeansDeployed'
    <3>1. SUFFICES ASSUME verdict.op \in {"verify", "health", "deployment"}, verdict.local \in Hashes
                   PROVE  /\ verdict.exit = 0 => Readable(verdict.local, verdict.from, verdict.to)'
                          /\ verdict.status \in {"Mismatch", "critical", "DRIFT"} =>
                               verdict.hash # verdict.local /\ Readable(verdict.hash, verdict.from, verdict.to)'
          BY <1>1 DEF VerifiedMeansDeployed
    <3>2. VerifiedMeansDeployed  BY DEF ReadInv, AnswersAreGrounded
    <3>3. /\ verdict.exit = 0 => Readable(verdict.local, verdict.from, verdict.to)
          /\ verdict.status \in {"Mismatch", "critical", "DRIFT"} =>
               verdict.hash # verdict.local /\ Readable(verdict.hash, verdict.from, verdict.to)
          BY <3>1, <3>2 DEF VerifiedMeansDeployed
    <3>4. /\ verdict.exit = 0 => ReadableIn(trail', verdict.local, verdict.from, verdict.to)
          /\ verdict.status \in {"Mismatch", "critical", "DRIFT"} =>
               ReadableIn(trail', verdict.hash, verdict.from, verdict.to)
          BY <2>0, <3>1, <3>3
    <3> QED BY <1>1, <3>3, <3>4 DEF Readable, ReadableIn
  <2>3. MetadataIsOfTheContract'
    <3>1. SUFFICES ASSUME verdict.op = "metadata", verdict.exit = 0
                   PROVE  verdict.got = {verdict.hash} /\ Readable(verdict.hash, verdict.from, verdict.to)'
          BY <1>1 DEF MetadataIsOfTheContract
    <3>2. verdict.got = {verdict.hash} /\ Readable(verdict.hash, verdict.from, verdict.to)
          BY <3>1 DEF ReadInv, AnswersAreGrounded, MetadataIsOfTheContract
    <3>3. ReadableIn(trail', verdict.hash, verdict.from, verdict.to)  BY <2>0, <3>1, <3>2
    <3> QED BY <1>1, <3>2, <3>3 DEF Readable, ReadableIn
  <2>4. CaptureIsOneLedger'
        BY <1>1, <1>2 DEF ReadInv, AnswersAreGrounded, VerdictIsOfThePast, CaptureIsOneLedger
  <2>5. EventsAreTheWindow'
        BY <1>1, <2>1 DEF ReadInv, AnswersAreGrounded, EventsAreTheWindow, WindowStart, WindowEnd
  <2> QED BY <2>2, <2>3, <2>4, <2>5 DEF AnswersAreGrounded
<1> QED BY <1>5, <1>6, <1>7, <1>8 DEF ReadInv

(* Commands up to their first request. *)
LEMMA FirstRequest ==
    ASSUME ReadInv, chain' = chain, trail' = trail, verdict' = Silent, DOMAIN reader' = DOMAIN Asleep,
           reader'.from = seq, StageOfCommand',
           reader'.pc \notin {"tag", "code", "storage"} \cup CacheStages,
           reader'.pc \in {"latest", "events"} => {reader'.lo, reader'.hi} \subseteq Nat \cup {Unset},
           reader'.pc = "latest" => {reader'.lo, reader'.hi} = {Unset},
           reader'.pc = "events" => {reader'.lo, reader'.hi} # {Unset}
    PROVE  ReadInv'
PROOF
<1>1. TrailOfTheChain' /\ seq' = seq  BY TrailStays DEF ReadInv
<1>2. seq \in 1..seq
  <2>1. IsSequence(trail) /\ seq >= 1  BY DEF ReadInv, TrailOfTheChain
  <2>2. seq \in Nat  BY <2>1, AppendKeeps DEF seq
  <2> QED BY <2>1, <2>2
<1>3. ReaderHasSeen'  BY <1>1, <1>2 DEF ReaderHasSeen
<1>4. verdict'.op = "none"  BY DEF Silent
<1> QED BY <1>1, <1>3, <1>4 DEF ReadInv, VerdictIsOfThePast, AnswersAreGrounded, VerifiedMeansDeployed,
           MetadataIsOfTheContract, CaptureIsOneLedger, EventsAreTheWindow

LEMMA BeginsKeeps ==
    ASSUME ReadInv, NEW local,
           \/ \E op \in {"inspect", "verify", "health", "deployment"} : Begins(op, "instance", local)
           \/ \E op \in {"verify", "health", "deployment"} : Begins(op, "bad_file", local)
           \/ Begins("capture", "ledger", local) \/ Begins("tx", "tx", local)
           \/ Begins("account", "horizon", local)
    PROVE  ReadInv'
PROOF
<1>1. PICK op, pc : /\ Begins(op, pc, local)
                    /\ \/ op \in {"inspect", "verify", "health", "deployment"} /\ pc \in {"instance", "bad_file"}
                       \/ op = "capture" /\ pc = "ledger"
                       \/ op = "tx" /\ pc = "tx"
                       \/ op = "account" /\ pc = "horizon"
      OBVIOUS
<1>2. /\ reader' = [Asleep EXCEPT !.op = op, !.pc = pc, !.local = local, !.from = seq]
      /\ chain' = chain /\ trail' = trail /\ verdict' = Silent
      BY <1>1 DEF Begins
<1>3. reader'.op = op /\ reader'.pc = pc /\ reader'.from = seq /\ DOMAIN reader' = DOMAIN Asleep
      BY <1>2 DEF Asleep
<1>4. StageOfCommand'  BY <1>1, <1>3 DEF StageOfCommand, CacheStages
<1>5. reader'.pc \notin {"tag", "code", "storage", "latest", "events"} \cup CacheStages
      BY <1>1, <1>3 DEF CacheStages
<1> QED BY <1>2, <1>3, <1>4, <1>5, FirstRequest

LEMMA CommandsKeep ==
    ASSUME ReadInv,
           \/ Inspect \/ Verify \/ Health \/ run_deployment_verify \/ WasmMetadata
           \/ capture_network_config \/ TxInspect \/ Account \/ Events
    PROVE  ReadInv'
PROOF
<1>1. CASE Inspect \/ capture_network_config \/ TxInspect \/ Account
      BY <1>1, BeginsKeeps DEF Inspect, capture_network_config, TxInspect, Account
<1>2. CASE Verify \/ Health \/ run_deployment_verify
  <2>1. PICK op \in {"verify", "health", "deployment"}, local \in LocalFiles : Hashed(op, local)
        BY <1>2 DEF Verify, Health, run_deployment_verify
  <2>2. Begins(op, "bad_file", local) \/ Begins(op, "instance", local)  BY <2>1 DEF Hashed
  <2>3. \/ \E o \in {"verify", "health", "deployment"} : Begins(o, "bad_file", local)
        \/ \E o \in {"inspect", "verify", "health", "deployment"} : Begins(o, "instance", local)
        BY <2>1, <2>2
  <2> QED BY <2>3, BeginsKeeps
<1>3. CASE WasmMetadata
  <2>1. PICK r \in BOOLEAN :
          reader' = [Asleep EXCEPT !.op = "metadata", !.pc = "instance", !.from = seq, !.refresh = r]
        BY <1>3 DEF WasmMetadata
  <2>2. chain' = chain /\ trail' = trail /\ verdict' = Silent  BY <1>3 DEF WasmMetadata
  <2>3. /\ reader'.op = "metadata" /\ reader'.pc = "instance" /\ reader'.from = seq
        /\ DOMAIN reader' = DOMAIN Asleep
        BY <2>1 DEF Asleep
  <2>4. StageOfCommand'  BY <2>3 DEF StageOfCommand, CacheStages
  <2>5. reader'.pc \notin {"tag", "code", "storage", "latest", "events"} \cup CacheStages
        BY <2>3 DEF CacheStages
  <2> QED BY <2>2, <2>3, <2>4, <2>5, FirstRequest
<1>4. CASE Events
  <2>1. PICK start, end \in {Unset} \cup (1..MaxSeq) \cup {MaxU32} :
          reader' = [Asleep EXCEPT !.op = "events", !.from = seq, !.lo = start, !.hi = end,
                     !.pc = CASE start # Unset /\ end # Unset /\ start > end -> "bad_range"
                              [] start = Unset /\ end = Unset -> "latest"
                              [] OTHER -> "events"]
        BY <1>4 DEF Events
  <2>2. chain' = chain /\ trail' = trail /\ verdict' = Silent  BY <1>4 DEF Events
  <2> DEFINE pc == CASE start # Unset /\ end # Unset /\ start > end -> "bad_range"
                     [] start = Unset /\ end = Unset -> "latest"
                     [] OTHER -> "events"
  <2>3. pc \in {"bad_range", "latest", "events"}  OBVIOUS
  <2>4. reader' = [Asleep EXCEPT !.op = "events", !.from = seq, !.lo = start, !.hi = end, !.pc = pc]
        BY <2>1
  <2> HIDE DEF pc
  <2>5. /\ reader'.op = "events" /\ reader'.pc = pc /\ reader'.from = seq /\ reader'.lo = start
        /\ reader'.hi = end /\ DOMAIN reader' = DOMAIN Asleep
        BY <2>4 DEF Asleep
  <2>6. StageOfCommand'  BY <2>3, <2>5 DEF StageOfCommand, CacheStages
  <2>7. reader'.pc \notin {"tag", "code", "storage"} \cup CacheStages  BY <2>3, <2>5 DEF CacheStages
  <2>8. {start, end} \subseteq Nat \cup {Unset}  BY ContractAssumption
  <2>9. /\ pc = "latest" => {start, end} = {Unset}
        /\ pc = "events" => {start, end} # {Unset}
        BY DEF pc
  <2> QED BY <2>2, <2>5, <2>6, <2>7, <2>8, <2>9, FirstRequest
<1> QED BY <1>1, <1>2, <1>3, <1>4

(* The code a hash stands for could be read as the contract's: an instance names
   it, or one names a tag that the owner points at it then or later
   (probe_deployed_executable, resolve_external_executable). *)
LEMMA InstanceHashIsReadable ==
    ASSUME ReadInv, reader.pc = "instance", chain.exe.kind = "wasm"
    PROVE  Readable(chain.exe.hash, reader.from, seq)
PROOF
<1>1. reader.from \in 1..seq /\ IsSequence(trail) /\ trail[seq] = chain
      BY DEF ReadInv, ReaderHasSeen, StageOfCommand, TrailOfTheChain
<1>2. seq \in Nat  BY <1>1, AppendKeeps DEF seq
<1>3. seq \in reader.from..seq  BY <1>1, <1>2
<1>4. Effective(trail[seq]) = chain.exe.hash  BY <1>1 DEF Effective
<1> QED BY <1>3, <1>4 DEF Readable

LEMMA TagHashIsReadable ==
    ASSUME ReadInv, reader.pc = "tag"
    PROVE  Readable(chain.tag, reader.from, seq)
PROOF
<1>1. reader.from \in 1..seq /\ IsSequence(trail) /\ trail[seq] = chain
      BY DEF ReadInv, ReaderHasSeen, StageOfCommand, TrailOfTheChain
<1>2. seq \in Nat /\ seq \in reader.from..seq  BY <1>1, AppendKeeps DEF seq
<1>3. PICK l \in reader.from..seq : trail[l].exe.kind = "external"  BY DEF ReadInv, ReaderHasSeen
<1>4. CASE l = seq
  <2>1. Effective(trail[seq]) = chain.tag  BY <1>1, <1>3, <1>4 DEF Effective
  <2> QED BY <1>2, <2>1 DEF Readable
<1>5. CASE l # seq
  <2>1. l < seq  BY <1>1, <1>2, <1>3, <1>5
  <2> QED BY <1>1, <1>2, <1>3, <2>1 DEF Readable
<1> QED BY <1>4, <1>5

(* What a command does once it knows a hash, or that there is none. *)
LEMMA HashKnownKeeps ==
    ASSUME ReadInv, chain' = chain, trail' = trail, reader.pc \in {"instance", "tag"},
           NEW kind, NEW hash, Readable(hash, reader.from, seq), HashKnown(kind, hash)
    PROVE  ReadInv'
PROOF
<1>0. reader.op \in {"inspect", "verify", "health", "deployment", "metadata"} /\ reader.from \in 1..seq
      /\ DOMAIN reader = DOMAIN Asleep
      BY DEF ReadInv, ReaderHasSeen, StageOfCommand
<1>1. CASE reader.op = "deployment"
  <2> DEFINE v == compare_deployment(TRUE, kind, hash, reader.local)
             exit == IF v = "MATCH" THEN 0 ELSE 1
  <2>1. Answer(v, exit, hash, {})  BY <1>1 DEF HashKnown
  <2>2. v = "MATCH" => hash = reader.local  BY DEF compare_deployment
  <2>3. v \in {"Mismatch", "critical", "DRIFT"} => hash # reader.local  BY DEF compare_deployment
  <2> HIDE DEF v
  <2>4. exit = 0 => hash = reader.local  BY <2>2
  <2> HIDE DEF exit
  <2> QED BY <1>1, <2>1, <2>3, <2>4, AnswerKeeps
<1>2. CASE reader.op # "deployment"
  <2>1. reader' = [reader EXCEPT !.pc = "code", !.hash = hash, !.kind = kind] /\ verdict' = verdict
        BY <1>2 DEF HashKnown
  <2>2. /\ reader'.op = reader.op /\ reader'.pc = "code" /\ reader'.hash = hash
        /\ reader'.from = reader.from /\ DOMAIN reader' = DOMAIN Asleep
        BY <1>0, <2>1 DEF Asleep
  <2>3. StageOfCommand'  BY <1>0, <1>2, <2>2 DEF StageOfCommand, CacheStages
  <2>4. Readable(reader.hash, reader.from, seq)'  BY <2>2 DEF Readable, Effective, seq
  <2>5. reader'.from \in 1..seq'  BY <1>0, <2>2 DEF seq
  <2>6. ReaderHasSeen'  BY <2>2, <2>3, <2>4, <2>5 DEF ReaderHasSeen
  <2> QED BY <2>1, <2>6, GoesOn
<1> QED BY <1>1, <1>2

LEMMA HashUnknownKeeps ==
    ASSUME ReadInv, chain' = chain, trail' = trail, reader.pc \in {"instance", "tag"},
           NEW found, NEW kind, HashUnknown(found, kind)
    PROVE  ReadInv'
PROOF
<1>1. CASE reader.op = "deployment"
  <2> DEFINE v == compare_deployment(found, kind, NoHash, reader.local)
  <2>1. v \in {"NOT_FOUND", "UNKNOWN"}  BY DEF compare_deployment
  <2>2. Answer(v, 1, NoHash, {})  BY <1>1, <2>1 DEF HashUnknown
  <2> HIDE DEF v
  <2> QED BY <1>1, <2>1, <2>2, AnswerKeeps
<1>2. CASE reader.op # "deployment"
  <2>1. Refuse  BY <1>2 DEF HashUnknown
  <2> QED BY <2>1, RefuseKeeps
<1> QED BY <1>1, <1>2

LEMMA ProbeKeeps ==
    ASSUME ReadInv, RefuseInput \/ probe_deployed_executable \/ resolve_external_executable
    PROVE  ReadInv'
PROOF
<1>1. CASE RefuseInput  BY <1>1, RefuseKeeps DEF RefuseInput, Steps
<1>2. CASE probe_deployed_executable
  <2>1. chain' = chain /\ trail' = trail /\ reader.pc = "instance"
        BY <1>2 DEF probe_deployed_executable, Steps
  <2>2. CASE Refuse  BY <2>1, <2>2, RefuseKeeps
  <2>3. CASE HashUnknown(FALSE, "none") \/ HashUnknown(TRUE, chain.exe.kind)
        BY <2>1, <2>3, HashUnknownKeeps
  <2>4. CASE chain.exe.kind = "wasm" /\ HashKnown("wasm", chain.exe.hash)
        BY <2>1, <2>4, InstanceHashIsReadable, HashKnownKeeps
  <2>5. CASE chain.exe.kind = "external" /\ Goto("tag")
    <3>1. reader' = [reader EXCEPT !.pc = "tag"] /\ verdict' = verdict  BY <2>5 DEF Goto
    <3>2. /\ DOMAIN reader = DOMAIN Asleep /\ reader.from \in 1..seq /\ IsSequence(trail) /\ trail[seq] = chain
          /\ reader.op \in {"inspect", "verify", "health", "deployment", "metadata"}
          BY <2>1 DEF ReadInv, ReaderHasSeen, StageOfCommand, TrailOfTheChain
    <3>3. /\ reader'.op = reader.op /\ reader'.pc = "tag" /\ reader'.from = reader.from
          /\ DOMAIN reader' = DOMAIN Asleep
          BY <3>1, <3>2 DEF Asleep
    <3>4. StageOfCommand'  BY <3>2, <3>3 DEF StageOfCommand, CacheStages
    <3>5. seq \in Nat /\ seq' = seq  BY <2>1, <3>2, AppendKeeps DEF seq
    <3>6. \E l \in reader'.from..seq' : trail'[l].exe.kind = "external"
      <4>1. seq \in reader.from..seq  BY <3>2, <3>5
      <4> QED BY <2>1, <2>5, <3>2, <3>3, <3>5, <4>1
    <3>7. ReaderHasSeen'  BY <3>2, <3>3, <3>4, <3>5, <3>6 DEF ReaderHasSeen, CacheStages
    <3> QED BY <2>1, <3>1, <3>7, GoesOn
  <2> QED BY <1>2, <2>2, <2>3, <2>4, <2>5 DEF probe_deployed_executable
<1>3. CASE resolve_external_executable
  <2>1. chain' = chain /\ trail' = trail /\ reader.pc = "tag"
        BY <1>3 DEF resolve_external_executable, Steps
  <2>2. CASE HashUnknown(TRUE, "external")  BY <2>1, <2>2, HashUnknownKeeps
  <2>3. CASE HashKnown("external", chain.tag)  BY <2>1, <2>3, TagHashIsReadable, HashKnownKeeps
  <2> QED BY <1>3, <2>2, <2>3 DEF resolve_external_executable
<1> QED BY <1>1, <1>2, <1>3

(* A command that knows the hash goes on with it. *)
LEMMA HashIsCarried ==
    ASSUME ReadInv, chain' = chain, trail' = trail, NEW pc \in {"storage"} \cup CacheStages, Goto(pc),
           reader.pc \in {"code", "storage"} \cup CacheStages,
           IF pc = "storage" THEN reader.op \in {"inspect", "health"} ELSE reader.op = "metadata"
    PROVE  ReadInv'
PROOF
<1>1. reader' = [reader EXCEPT !.pc = pc] /\ verdict' = verdict  BY DEF Goto
<1>2. /\ DOMAIN reader = DOMAIN Asleep /\ reader.from \in 1..seq /\ Readable(reader.hash, reader.from, seq)
      BY DEF ReadInv, ReaderHasSeen, StageOfCommand, CacheStages
<1>3. /\ reader'.op = reader.op /\ reader'.pc = pc /\ reader'.from = reader.from
      /\ reader'.hash = reader.hash /\ DOMAIN reader' = DOMAIN Asleep
      BY <1>1, <1>2 DEF Asleep
<1>4. StageOfCommand'  BY <1>3 DEF StageOfCommand, CacheStages
<1>5. Readable(reader.hash, reader.from, seq)' /\ seq' = seq  BY <1>2, <1>3 DEF Readable, Effective, seq
<1>6. ReaderHasSeen'  BY <1>2, <1>3, <1>4, <1>5 DEF ReaderHasSeen, CacheStages
<1> QED BY <1>1, <1>6, GoesOn

LEMMA InspectionKeeps ==
    ASSUME ReadInv, inspect_contract \/ contract_health
    PROVE  ReadInv'
PROOF
<1> DEFINE found == verification_outcome(reader.hash, reader.local)
<1>0. /\ chain' = chain /\ trail' = trail /\ reader.pc \in {"code", "storage"}
      /\ Readable(reader.hash, reader.from, seq)
      BY DEF inspect_contract, contract_health, Steps, ReadInv, ReaderHasSeen
<1>1. reader.local \in Hashes => found \in {"Verified", "Mismatch"}
      BY ContractAssumption DEF verification_outcome
<1>2. /\ found = "Verified" => reader.hash = reader.local
      /\ found = "Mismatch" => reader.hash # reader.local
      BY DEF verification_outcome
<1>3. CASE inspect_contract
  <2>0. reader.pc = "code" /\ reader.op \in {"inspect", "verify", "health", "metadata"}
        BY <1>3 DEF inspect_contract, ReadInv, ReaderHasSeen, StageOfCommand
  <2>1. CASE reader.op = "verify"
    <3> DEFINE exit == IF found = "Mismatch" THEN 1 ELSE 0
    <3>1. Answer(found, exit, reader.hash, {})  BY <1>3, <2>1 DEF inspect_contract
    <3> HIDE DEF found
    <3>2. exit = 0 => found # "Mismatch"  OBVIOUS
    <3>3. found = "critical" \/ found = "DRIFT" => ~(reader.local \in Hashes)  BY <1>1
    <3> HIDE DEF exit
    <3> QED BY <1>0, <1>1, <1>2, <2>0, <2>1, <3>1, <3>2, <3>3, AnswerKeeps
  <2>2. CASE reader.op = "metadata"
    <3> DEFINE pc == IF reader.refresh THEN "fetch" ELSE "cache"
    <3>1. Goto(pc)  BY <1>3, <2>2 DEF inspect_contract
    <3>2. pc \in CacheStages /\ pc # "storage"  BY DEF CacheStages
    <3> HIDE DEF pc
    <3> QED BY <1>0, <2>0, <2>2, <3>1, <3>2, HashIsCarried
  <2>3. CASE reader.op \in {"inspect", "health"}
    <3>1. Goto("storage")  BY <1>3, <2>3 DEF inspect_contract
    <3> QED BY <1>0, <2>0, <2>3, <3>1, HashIsCarried
  <2> QED BY <2>0, <2>1, <2>2, <2>3
<1>4. CASE contract_health
  <2>0. reader.pc = "storage"  BY <1>4 DEF contract_health
  <2>1. CASE Refuse  BY <1>0, <2>0, <2>1, RefuseKeeps
  <2>2. CASE reader.op = "inspect" /\ Answer("shown", 0, reader.hash, {})
        BY <1>0, <2>0, <2>2, AnswerKeeps
  <2>3. ASSUME reader.op = "health", NEW expiring \in {0, 1}, NEW total \in {0, 1}, NEW v, NEW exit,
               v = derive_verdict(found, expiring, total), exit = IF v = "critical" THEN 1 ELSE 0,
               Answer(v, exit, reader.hash, {})
        PROVE  ReadInv'
    <3>1. /\ v \in {"critical", "at_risk", "healthy"}
          /\ v = "critical" <=> found = "Mismatch"
          BY <2>3 DEF derive_verdict
    <3> HIDE DEF found
    <3>2. exit = 0 => found # "Mismatch"  BY <2>3, <3>1
    <3>3. v \in {"Mismatch", "critical", "DRIFT"} => found = "Mismatch"  BY <3>1
    <3> QED BY <1>0, <1>1, <1>2, <2>0, <2>3, <3>2, <3>3, AnswerKeeps
  <2> QED BY <1>4, <2>1, <2>2, <2>3 DEF contract_health
<1> QED BY <1>3, <1>4

(* The cache, its second writer and the code of the network (CacheLookup,
   get_wasm_metadata, put). *)
LEMMA MetadataAnswer ==
    ASSUME ReadInv, chain' = chain, trail' = trail, reader.pc \in CacheStages,
           NEW status, Answer(status, 0, reader.hash, {reader.hash})
    PROVE  ReadInv'
PROOF
<1>1. reader.op = "metadata" /\ reader.pc # "idle" /\ Readable(reader.hash, reader.from, seq)
      BY DEF ReadInv, ReaderHasSeen, StageOfCommand, CacheStages
<1> QED BY <1>1, AnswerKeeps

LEMMA CacheKeeps ==
    ASSUME ReadInv, CacheLookup \/ get_wasm_metadata \/ put
    PROVE  ReadInv'
PROOF
<1>0. /\ chain' = chain /\ trail' = trail /\ reader.pc \in CacheStages /\ reader.op = "metadata"
      BY DEF CacheLookup, get_wasm_metadata, put, Steps, CacheStages, ReadInv, ReaderHasSeen, StageOfCommand
<1>1. reader.pc # "idle"  BY <1>0 DEF CacheStages
<1>2. ASSUME NEW pc \in CacheStages, Goto(pc)  PROVE ReadInv'
  <2>1. pc # "storage"  BY DEF CacheStages
  <2> QED BY <1>0, <1>2, <2>1, HashIsCarried
<1>3. CASE CacheLookup
  <2>1. CASE cache_get(reader.hash) = "hit"
    <3>1. json[reader.hash] = reader.hash  BY <2>1 DEF cache_get
    <3>2. Answer("Hit", 0, reader.hash, {reader.hash})  BY <1>3, <2>1, <3>1 DEF CacheLookup
    <3> QED BY <1>0, <3>2, MetadataAnswer
  <2>2. CASE cache_get(reader.hash) # "hit"
    <3>1. Goto("fetch")  BY <1>3, <2>2 DEF CacheLookup
    <3> QED BY <1>2, <3>1 DEF CacheStages
  <2> QED BY <2>1, <2>2
<1>4. CASE get_wasm_metadata
  <2>1. CASE Refuse  BY <1>0, <1>1, <2>1, RefuseKeeps
  <2>2. CASE Goto("put")  BY <1>2, <2>2 DEF CacheStages
  <2> QED BY <1>4, <2>1, <2>2 DEF get_wasm_metadata
<1>5. CASE put
  <2>1. CASE Goto("fill") \/ Goto("rename")  BY <1>2, <2>1 DEF CacheStages
  <2>2. CASE Answer("Miss", 0, reader.hash, {reader.hash})  BY <1>0, <2>2, MetadataAnswer
  <2> QED BY <1>5, <2>1, <2>2 DEF put
<1> QED BY <1>3, <1>4, <1>5

(* wasm cache remove and clear say nothing of the chain. *)
LEMMA CacheFilesKeep ==
    ASSUME ReadInv, OtherPut \/ CacheRemove \/ CacheClear
    PROVE  ReadInv'
PROOF
<1>1. chain' = chain /\ trail' = trail /\ reader' = reader  BY DEF OtherPut, CacheRemove, CacheClear
<1>2. ReaderHasSeen'
      BY <1>1 DEF ReadInv, ReaderHasSeen, StageOfCommand, Readable, Effective, LooksBack, seq
<1>3. CASE OtherPut
  <2>1. verdict' = verdict  BY <1>3 DEF OtherPut
  <2> QED BY <1>1, <1>2, <2>1, GoesOn
<1>4. CASE CacheRemove \/ CacheClear
  <2>1. verdict'.op \in {"remove", "clear"}  BY <1>4 DEF CacheRemove, CacheClear, Said
  <2>2. TrailOfTheChain'  BY <1>1, TrailStays DEF ReadInv
  <2> QED BY <1>2, <2>1, <2>2 DEF ReadInv, VerdictIsOfThePast, AnswersAreGrounded, VerifiedMeansDeployed,
             MetadataIsOfTheContract, CaptureIsOneLedger, EventsAreTheWindow
<1> QED BY <1>3, <1>4

(* sdkt events: the node's end is exclusive, the user's is not
   (resolve_ledger_range, get_contract_events_filtered). *)
LEMMA LatestKeeps ==
    ASSUME ReadInv, LatestLedger
    PROVE  ReadInv'
PROOF
<1>1. /\ chain' = chain /\ trail' = trail /\ verdict' = verdict /\ reader.pc = "latest"
      /\ reader.op = "events" /\ reader.from \in 1..seq /\ DOMAIN reader = DOMAIN Asleep
      /\ {reader.lo, reader.hi} = {Unset} /\ IsSequence(trail)
      BY DEF LatestLedger, Steps, ReadInv, ReaderHasSeen, StageOfCommand, TrailOfTheChain
<1>2. seq \in Nat /\ seq' = seq  BY <1>1, AppendKeeps DEF seq
<1>3. PICK latest \in {seq, EventWindow} :
        reader' = [reader EXCEPT !.pc = "events", !.first = resolve_ledger_range(Unset, Unset, latest)[1]]
      BY DEF LatestLedger
<1> DEFINE first == resolve_ledger_range(Unset, Unset, latest)[1]
<1>4. first = Before(latest)  BY DEF resolve_ledger_range
<1>5. LooksBack(first)  BY <1>2, <1>3, <1>4, ContractAssumption DEF Before, LooksBack
<1>6. reader' = [reader EXCEPT !.pc = "events", !.first = first]  BY <1>3
<1> HIDE DEF first
<1>7. /\ reader'.op = "events" /\ reader'.pc = "events" /\ reader'.lo = reader.lo /\ reader'.hi = reader.hi
      /\ reader'.first = first /\ reader'.from = reader.from /\ DOMAIN reader' = DOMAIN Asleep
      BY <1>1, <1>6 DEF Asleep
<1>8. StageOfCommand'  BY <1>7 DEF StageOfCommand, CacheStages
<1>9. LooksBack(reader.first)'  BY <1>2, <1>5, <1>7 DEF LooksBack
<1>10. ReaderHasSeen'  BY <1>1, <1>2, <1>7, <1>8, <1>9 DEF ReaderHasSeen, CacheStages
<1> QED BY <1>1, <1>10, GoesOn

LEMMA EventsKeep ==
    ASSUME ReadInv, get_contract_events_filtered
    PROVE  ReadInv'
PROOF
<1>1. /\ chain' = chain /\ trail' = trail /\ reader.pc = "events" /\ reader.op = "events"
      /\ {reader.lo, reader.hi} \subseteq Nat \cup {Unset} /\ IsSequence(trail) /\ trail[seq] = chain
      /\ chain.events \subseteq 1..seq /\ ({reader.lo, reader.hi} = {Unset} => LooksBack(reader.first))
      BY DEF get_contract_events_filtered, Steps, ReadInv, ReaderHasSeen, StageOfCommand, TrailOfTheChain
<1>2. seq \in Nat  BY <1>1, AppendKeeps DEF seq
<1> DEFINE start == IF reader.lo = Unset /\ reader.hi = Unset
                    THEN reader.first ELSE resolve_ledger_range(reader.lo, reader.hi, 0)[1]
           sent == request_end(reader.hi)
           found == {l \in chain.events : l >= start /\ (sent = Unset \/ l < sent)}
           last == IF reader.hi = Unset THEN seq ELSE reader.hi
           first == IF reader.lo = Unset THEN last - EventWindow ELSE reader.lo
<1>3. CASE Refuse  BY <1>1, <1>3, RefuseKeeps
<1>4. CASE ~Refuse
  <2>1. PICK page \in Pages(found) : Answer("events", 0, NoHash, page)
        BY <1>4 DEF get_contract_events_filtered
  <2>2. start = IF {reader.lo, reader.hi} = {Unset} THEN reader.first
                ELSE IF reader.lo # Unset THEN reader.lo ELSE Before(reader.hi)
        BY DEF resolve_ledger_range
  <2>3. /\ start \in Nat /\ (start = 1 \/ start <= first)
        /\ {reader.lo, reader.hi} # {Unset} => start >= first
        BY <1>1, <1>2, <2>2, ContractAssumption DEF Before, LooksBack
  <2>4. \A l \in chain.events : (sent = Unset \/ l < sent) <=> l <= last
    <3>1. CASE reader.hi = Unset
      <4>1. sent = Unset /\ last = seq  BY <3>1 DEF request_end
      <4> QED BY <1>1, <1>2, <4>1
    <3>2. CASE reader.hi # Unset
      <4>1. reader.hi \in Nat /\ sent = reader.hi + 1 /\ last = reader.hi  BY <1>1, <3>2 DEF request_end
      <4>2. sent # Unset  BY <4>1, ContractAssumption
      <4> HIDE DEF sent, last
      <4> QED BY <1>1, <1>2, <4>1, <4>2
    <3> QED BY <3>1, <3>2
  <2>5. last \in Nat /\ first \in Int  BY <1>1, <1>2, ContractAssumption
  <2>6. /\ page \subseteq found /\ \A shown \in page, left \in found \ page : shown < left
        /\ page = found \/ Cardinality(page) = PageLimit
        BY <2>1 DEF Pages
  <2> HIDE DEF start, last, first, sent
  <2>7. \A l \in page : l \in chain.events /\ l <= last /\ ({reader.lo, reader.hi} # {Unset} => l >= first)
        BY <1>1, <1>2, <2>3, <2>4, <2>5, <2>6
  <2>8. ASSUME NEW l \in chain.events \ page, first <= l, l <= last
        PROVE  Cardinality(page) = PageLimit /\ \A shown \in page : shown < l
    <3>1. l \in found  BY <1>1, <1>2, <2>3, <2>4, <2>5, <2>8
    <3> QED BY <2>6, <2>8, <3>1
  <2>9. OfTheWindow(page, reader.lo, reader.hi, seq)
    <3> HIDE DEF found
    <3> QED BY <1>1, <2>7, <2>8 DEF OfTheWindow, first, last
  <2> QED BY <1>1, <2>1, <2>9, AnswerKeeps
<1> QED BY <1>3, <1>4

(* capture_network_config refuses settings of a later ledger than the one it
   named. *)
LEMMA CaptureKeeps ==
    ASSUME ReadInv, CaptureLedger \/ CaptureSettings
    PROVE  ReadInv'
PROOF
<1>1. /\ chain' = chain /\ trail' = trail /\ reader.op = "capture" /\ reader.pc \in {"ledger", "settings"}
      /\ reader.from \in 1..seq /\ DOMAIN reader = DOMAIN Asleep
      /\ IsSequence(trail) /\ seq >= 1 /\ trail[seq] = chain
      BY DEF CaptureLedger, CaptureSettings, Steps, ReadInv, ReaderHasSeen, StageOfCommand, TrailOfTheChain
<1>2. seq \in Nat /\ seq' = seq  BY <1>1, AppendKeeps DEF seq
<1>3. CASE Refuse  BY <1>1, <1>3, RefuseKeeps
<1>4. CASE CaptureLedger /\ ~Refuse
  <2>1. reader' = [reader EXCEPT !.pc = "settings", !.lo = seq] /\ verdict' = verdict
        BY <1>4 DEF CaptureLedger
  <2>2. /\ reader'.op = "capture" /\ reader'.pc = "settings" /\ reader'.from = reader.from
        /\ DOMAIN reader' = DOMAIN Asleep
        BY <1>1, <2>1 DEF Asleep
  <2>3. StageOfCommand'  BY <2>2 DEF StageOfCommand, CacheStages
  <2>4. ReaderHasSeen'  BY <1>1, <1>2, <2>2, <2>3 DEF ReaderHasSeen, CacheStages
  <2> QED BY <1>1, <2>1, <2>4, GoesOn
<1>5. CASE CaptureSettings /\ ~Refuse
  <2>1. PICK returned \in SUBSET Settings : Answer("captured", 0, NoHash, decode_into(returned))
        BY <1>5 DEF CaptureSettings
  <2>2. reader.lo = seq  BY <1>5 DEF CaptureSettings, mixed_ledger
  <2>3. reader.lo \in 1..seq  BY <1>1, <1>2, <2>2
  <2>4. \A c \in decode_into(returned) : trail[reader.lo].cfg[c[1]] = c[2]
        BY <1>1, <2>2 DEF decode_into
  <2> QED BY <1>1, <2>1, <2>3, <2>4, AnswerKeeps
<1> QED BY <1>3, <1>4, <1>5

LEMMA AccountAndTxKeep ==
    ASSUME ReadInv, inspect_account \/ inspect_transaction \/ Killed
    PROVE  ReadInv'
PROOF
<1>1. chain' = chain /\ trail' = trail  BY DEF inspect_account, inspect_transaction, Killed, Steps
<1>2. CASE inspect_account
  <2>1. reader.op = "account" /\ reader.pc # "idle" /\ DOMAIN reader = DOMAIN Asleep /\ reader.from \in 1..seq
        BY <1>2 DEF inspect_account, ReadInv, ReaderHasSeen, StageOfCommand
  <2>2. CASE Refuse  BY <1>1, <2>1, <2>2, RefuseKeeps
  <2>3. CASE \E from \in {"horizon", "rpc"} : Answer("account", 0, NoHash, {from})
        BY <1>1, <2>1, <2>3, AnswerKeeps
  <2>4. CASE Goto("rpc")
    <3>1. reader' = [reader EXCEPT !.pc = "rpc"] /\ verdict' = verdict  BY <2>4 DEF Goto
    <3>2. /\ reader'.op = "account" /\ reader'.pc = "rpc" /\ reader'.from = reader.from
          /\ DOMAIN reader' = DOMAIN Asleep
          BY <2>1, <3>1 DEF Asleep
    <3>3. StageOfCommand'  BY <3>2 DEF StageOfCommand, CacheStages
    <3>4. ReaderHasSeen'  BY <1>1, <2>1, <3>2, <3>3 DEF ReaderHasSeen, CacheStages, seq
    <3> QED BY <1>1, <3>1, <3>4, GoesOn
  <2> QED BY <1>2, <2>2, <2>3, <2>4 DEF inspect_account
<1>3. CASE inspect_transaction
  <2>1. reader.op = "tx" /\ reader.pc # "idle"
        BY <1>3 DEF inspect_transaction, ReadInv, ReaderHasSeen, StageOfCommand
  <2>2. CASE Refuse  BY <1>1, <2>1, <2>2, RefuseKeeps
  <2>3. CASE \E status, got : Answer(status, 0, NoHash, got)  BY <1>1, <2>1, <2>3, AnswerKeeps
  <2> QED BY <1>3, <2>2, <2>3 DEF inspect_transaction
<1>4. CASE Killed
  <2>1. reader' = Asleep /\ verdict' = verdict  BY <1>4 DEF Killed
  <2>2. ReaderHasSeen'  BY <2>1 DEF ReaderHasSeen, StageOfCommand, CacheStages, Asleep
  <2> QED BY <1>1, <2>1, <2>2, GoesOn
<1> QED BY <1>2, <1>3, <1>4

(* Answers put together from several requests are about the ledgers of the
   command: what is called deployed, and what metadata is shown of, was read as the
   contract's code, a capture is of the ledger it names, and events are of the
   window and the earliest of it (inspect,
   verify, health, deployment verify, wasm metadata, events and
   capture_network_config). *)
THEOREM ReadsAreOfTheCommand == ReadSpec => []AnswersAreGrounded
PROOF
<1>1. ReadInit => ReadInv  BY ReadInitInv
<1>2. ReadInv /\ [ReadNext]_readVars => ReadInv'
  <2> SUFFICES ASSUME ReadInv, [ReadNext]_readVars  PROVE ReadInv'
      OBVIOUS
  <2>1. CASE Close  BY <2>1, CloseKeeps
  <2>2. CASE \/ Inspect \/ Verify \/ Health \/ run_deployment_verify \/ WasmMetadata
             \/ capture_network_config \/ TxInspect \/ Account \/ Events
        BY <2>2, CommandsKeep
  <2>3. CASE RefuseInput \/ probe_deployed_executable \/ resolve_external_executable  BY <2>3, ProbeKeeps
  <2>4. CASE inspect_contract \/ contract_health  BY <2>4, InspectionKeeps
  <2>5. CASE CacheLookup \/ get_wasm_metadata \/ put  BY <2>5, CacheKeeps
  <2>6. CASE OtherPut \/ CacheRemove \/ CacheClear  BY <2>6, CacheFilesKeep
  <2>7. CASE LatestLedger  BY <2>7, LatestKeeps
  <2>8. CASE get_contract_events_filtered  BY <2>8, EventsKeep
  <2>9. CASE CaptureLedger \/ CaptureSettings  BY <2>9, CaptureKeeps
  <2>10. CASE inspect_account \/ inspect_transaction \/ Killed  BY <2>10, AccountAndTxKeep
  <2>11. CASE UNCHANGED readVars
    <3>1. chain' = chain /\ trail' = trail /\ reader' = reader /\ verdict' = verdict  BY <2>11 DEF readVars
    <3>2. ReaderHasSeen'
          BY <3>1 DEF ReadInv, ReaderHasSeen, StageOfCommand, Readable, Effective, LooksBack, seq
    <3> QED BY <3>1, <3>2, GoesOn
  <2> QED BY <2>1, <2>2, <2>3, <2>4, <2>5, <2>6, <2>7, <2>8, <2>9, <2>10, <2>11 DEF ReadNext
<1>3. ReadInv => AnswersAreGrounded  BY DEF ReadInv
<1> QED BY <1>1, <1>2, <1>3, PTL DEF ReadSpec
=============================================================================
