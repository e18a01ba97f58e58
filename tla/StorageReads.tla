---------------------------- MODULE StorageReads ----------------------------
(***************************************************************************)
(* The storage commands: sdkt storage check, analyze, storage-diff,        *)
(* extend, restore, read and estimate (sdkt-rpc storage.rs; sdkt-storage   *)
(* analyzer.rs, snapshot.rs, estimate.rs). Ledgers close between any two   *)
(* requests of a command. A key is a ledger key; users may write one in    *)
(* more than one form.                                                     *)
(***************************************************************************)
EXTENDS Integers, SequencesExt, FiniteSetsExt

CONSTANTS Keys,            \* ledger keys of the contract
          Instance,        \* its instance singleton
          KeyClass,        \* per key: Instance, Persistent, Temporary, Other
          Values,          \* what an entry may hold
          NoValue, NoNet,  \* nothing captured, no network recorded
          Home, Other,     \* the network of the chain, and another one
          MaxEntries,      \* [storage] max_entries
          MAX_LEDGER_KEYS, \* the node's cap on the keys of a request
          EXPIRING_SOON_LEDGERS,
          DEFAULT_SUGGESTED_LEDGERS,
          RestoreTtl,      \* the lifetime the network gives a restored entry
          U32Max,          \* the largest u32
          Lifetimes,       \* how long the entries live at the start
          Nets,            \* the networks analyze may record
          MaxLedger,       \* bound: ledgers of a behaviour
          MaxCommands      \* bound: commands of a behaviour

ASSUME StorageAssumption ==
    /\ Instance \in Keys /\ KeyClass \in [Keys -> {"Instance", "Persistent", "Temporary", "Other"}]
    /\ NoValue \notin Values /\ NoNet \notin {Home, Other}
    /\ MaxEntries \in Nat /\ MAX_LEDGER_KEYS \in Nat \ {0}
    /\ {EXPIRING_SOON_LEDGERS, DEFAULT_SUGGESTED_LEDGERS, RestoreTtl, U32Max} \subseteq Nat
    /\ EXPIRING_SOON_LEDGERS > 0 /\ DEFAULT_SUGGESTED_LEDGERS <= U32Max
    /\ IsFiniteSet(Keys) /\ Values # {} /\ Lifetimes \subseteq [Keys -> Nat]

VARIABLES ledger,     \* the last closed ledger
          entries,    \* per key: value and liveUntilLedgerSeq, 0 if never written
          past,       \* history: the entries as of each closed ledger
          shows,      \* does this node return archived entries?
          cmd,        \* the command that runs
          saved,      \* the reports the user kept, oldest first
          outcome,    \* what the last command answered
          startedCmds \* commands started

storageVars == <<ledger, entries, past, shows, cmd, saved, outcome, startedCmds>>

satAdd(a, b) == IF a + b > U32Max THEN U32Max ELSE a + b
satSub(a, b) == IF a > b THEN a - b ELSE 0

Idle0 == [op |-> "idle", pc |-> "idle", todo |-> <<>>, want |-> <<>>, got |-> {}, at |-> 0,
          net |-> NoNet, ledgers |-> 0, dry |-> FALSE, plan |-> {}]
NoOutcome == [op |-> "none", ok |-> TRUE, at |-> 0, keys |-> {}, value |-> NoValue]

Live(k) == entries[k].until >= ledger
Archived(k) == entries[k].until # 0 /\ ~Live(k) /\ KeyClass[k] # "Temporary"

-----------------------------------------------------------------------------
\* The chain and its node

StorageInit ==
    /\ ledger = 1
    /\ \E f \in Lifetimes : entries = [k \in Keys |-> [value |-> CHOOSE v \in Values : TRUE, until |-> f[k]]]
    /\ past = <<entries>>
    /\ shows \in BOOLEAN
    /\ cmd = Idle0
    /\ saved = <<>>
    /\ outcome = NoOutcome
    /\ startedCmds = 0

\* A ledger closes, with at most one write to a data entry that lives.
CloseLedger(now) ==
    /\ ledger < MaxLedger
    /\ ledger' = ledger + 1
    /\ entries' = now
    /\ past' = Append(past, now)

Tick ==
    /\ \/ CloseLedger(entries)
       \/ \E k \in Keys, v \in Values :
            Live(k) /\ KeyClass[k] # "Other" /\ v # entries[k].value /\ CloseLedger([entries EXCEPT ![k].value = v])
    /\ UNCHANGED <<shows, cmd, saved, outcome, startedCmds>>

\* What getLedgerEntries returns of a set of keys.
Returned(ks) == {k \in ks : Live(k) \/ (shows /\ Archived(k))}

-----------------------------------------------------------------------------
\* Pure parts

\* extract_contract_data_value: only contract data has a value.
extract_contract_data_value(k, v) == IF KeyClass[k] = "Other" THEN NoValue ELSE v

\* collect_extend_keys: the instance key first, then what the user named, each once.
collect_extend_keys(extra) ==
    LET named == <<Instance>> \o extra
        fresh == {i \in 1..Len(named) : \A j \in 1..(i - 1) : named[j] # named[i]}
        rank(i) == Cardinality({j \in fresh : j <= i})
    IN [n \in 1..Cardinality(fresh) |-> named[CHOOSE i \in fresh : rank(i) = n]]

batch_size == IF MaxEntries = 0 THEN MAX_LEDGER_KEYS
              ELSE IF MaxEntries < MAX_LEDGER_KEYS THEN MaxEntries ELSE MAX_LEDGER_KEYS

calculate_extension_cost(ttl) == ttl * 100

\* get_ttl_info_for_keys: lifetimes count from the ledger of the answer.
ttl_entry(k, v, until, at) ==
    [key |-> k, ttl |-> satSub(until, at), value |-> extract_contract_data_value(k, v),
     expiring |-> satSub(until, at) < EXPIRING_SOON_LEDGERS,
     cost |-> calculate_extension_cost(satSub(until, at))]

\* The summary leaves entries of no class out; there is none without others.
ttl_summary(es) ==
    LET bearing == {e \in es : KeyClass[e.key] # "Other"}
        ttls == {e.ttl : e \in bearing}
    IN IF bearing = {} THEN [min |-> 0, max |-> 0, expiring |-> 0, cost |-> 0]
       ELSE [min |-> Min(ttls), max |-> Max(ttls),
             expiring |-> Cardinality({e \in bearing : e.expiring}),
             cost |-> MapThenSumSet(LAMBDA e : e.cost, bearing)]

\* StorageReport, and StorageSnapshot::from_report of it.
storage_report(net, at, es) == [network |-> net, latest_ledger |-> at, entries |-> es,
                                summary |-> ttl_summary(es), total |-> Cardinality(es)]

EntryOf(snap, k) == CHOOSE e \in snap.entries : e.key = k
KeysOf(snap) == {e.key : e \in snap.entries}

\* Networks are compared when both snapshots name one.
network_mismatch(old, new) == NoNet \notin {old.network, new.network} /\ old.network # new.network

\* A report that counts entries and lists none is of an old version.
from_report_error(report) == report.total > 0 /\ report.entries = {}

diff_error(old, new) == from_report_error(old) \/ from_report_error(new) \/ network_mismatch(old, new)

\* Expiry hides a change of value; values count only if both were captured.
diff_status(old, new, k) ==
    CASE k \notin KeysOf(new) -> "Removed"
      [] k \in KeysOf(new) /\ EntryOf(new, k).ttl < EXPIRING_SOON_LEDGERS -> "ExpiringSoon"
      [] OTHER -> IF k \in KeysOf(old)
                     /\ NoValue \notin {EntryOf(old, k).value, EntryOf(new, k).value}
                     /\ EntryOf(old, k).value # EntryOf(new, k).value
                  THEN "ValueChanged" ELSE "Unchanged"

diff_snapshots(old, new) ==
    {[key |-> k, status |-> diff_status(old, new, k),
      new_ttl |-> IF k \in KeysOf(new) THEN EntryOf(new, k).ttl ELSE 0] : k \in KeysOf(old) \cup KeysOf(new)}

actionable(d) == {e \in d : e.status \in {"Removed", "ExpiringSoon"}}

\* Mutant: the plan suggests the lifetime that is left.
derive_extend_plan_short(d) ==
    LET left == {e.new_ttl : e \in {x \in actionable(d) : x.status = "ExpiringSoon"}}
    IN [keys |-> {e.key : e \in actionable(d)},
        ledgers |-> IF left = {} THEN DEFAULT_SUGGESTED_LEDGERS ELSE Min(left) + 1]

derive_extend_plan(d) ==
    LET left == {e.new_ttl : e \in {x \in actionable(d) : x.status = "ExpiringSoon"}}
    IN [keys |-> {e.key : e \in actionable(d)},
        ledgers |-> IF left = {} THEN DEFAULT_SUGGESTED_LEDGERS
                    ELSE satAdd(Min(left), DEFAULT_SUGGESTED_LEDGERS)]

\* estimate_storage_from_spec knows the instance entry and nothing else.
estimate_storage_from_spec(ledgers) ==
    [instance |-> calculate_extension_cost(ledgers), persistent |-> 0, temporary |-> 0]

-----------------------------------------------------------------------------
\* Commands

Begin ==
    /\ cmd.op = "idle" /\ startedCmds < MaxCommands
    /\ startedCmds' = startedCmds + 1
\* A command that leaves nothing behind, and reads no report, is taken only last and
\* only while none is kept: it does the same in every other state.
BeginLast == Begin /\ startedCmds' = MaxCommands /\ saved = <<>>
Finish(op, ok, keys, value) ==
    /\ cmd' = Idle0
    /\ outcome' = [op |-> op, ok |-> ok, at |-> IF op = "extend" THEN ledger ELSE 0,
                   keys |-> keys, value |-> value]
Fail == Finish("failed", FALSE, {}, NoValue)

\* storage check and storage analyze, up to their first request. Analyze records
\* the network if it could be resolved.
StorageAnalyze ==
    /\ Begin /\ Len(saved) < 2
    /\ \E extra \in {<<>>, SetToSeq(Keys)}, net \in Nets :
         cmd' = [Idle0 EXCEPT !.op = "analyze", !.pc = "fetch", !.net = net,
                              !.todo = collect_extend_keys(extra), !.want = collect_extend_keys(extra)]
    /\ UNCHANGED <<ledger, entries, past, shows, saved, outcome>>

StorageCheck ==
    /\ BeginLast
    /\ \E extra \in {<<>>, SetToSeq(Keys)} :
         cmd' = [Idle0 EXCEPT !.op = "check", !.pc = "fetch", !.todo = collect_extend_keys(extra),
                              !.want = collect_extend_keys(extra)]
    /\ UNCHANGED <<ledger, entries, past, shows, saved, outcome>>

\* Mutant: the batches may come from different ledgers.
spans_ledgers_never(at) == FALSE

spans_ledgers(at) == at # 0 /\ at # ledger

\* fetch_ledger_entries: one request. Batches of different ledgers are an error.
FetchBatch ==
    LET n == IF Len(cmd.todo) < batch_size THEN Len(cmd.todo) ELSE batch_size
        asked == ToSet(SubSeq(cmd.todo, 1, n))
    IN /\ cmd.pc = "fetch"
       /\ \/ Fail               \* the request failed, or its ledger is not the first one's
          \/ /\ ~spans_ledgers(cmd.at)
             /\ cmd' = [cmd EXCEPT !.todo = SubSeq(@, n + 1, Len(@)),
                                   !.at = IF @ = 0 THEN ledger ELSE @,
                                   !.got = @ \cup {<<k, entries[k].value, entries[k].until>> :
                                                      k \in Returned(asked)},
                                   !.pc = IF n = Len(cmd.todo) THEN "report" ELSE "fetch"]
             /\ UNCHANGED outcome
       /\ UNCHANGED <<ledger, entries, past, shows, saved, startedCmds>>

\* inspect_contract_storage_keys makes the report; the user keeps its JSON.
Report ==
    LET es == {ttl_entry(g[1], g[2], g[3], cmd.at) : g \in cmd.got}
    IN /\ cmd.pc = "report"
       /\ saved' = IF cmd.op = "analyze" THEN Append(saved, storage_report(cmd.net, cmd.at, es)) ELSE saved
       /\ Finish(cmd.op, TRUE, {}, NoValue)
       /\ UNCHANGED <<ledger, entries, past, shows, startedCmds>>

\* A report of the same contract on the other network, or one of an old version
\* that has no entries.
SaveForeign ==
    /\ cmd.op = "idle" /\ Len(saved) = 1
    /\ \E legacy \in BOOLEAN :
         saved' = Append(saved, [storage_report(IF legacy THEN NoNet ELSE Other, ledger, {})
                                     EXCEPT !.total = IF legacy THEN 1 ELSE 0])
    /\ UNCHANGED <<ledger, entries, past, shows, cmd, outcome, startedCmds>>

\* storage-diff --extend-plan: the plan it prints is kept in the outcome.
StorageDiff ==
    /\ Begin /\ Len(saved) = 2
    /\ \/ diff_error(saved[1], saved[2]) /\ Finish("failed", FALSE, {}, NoValue)
       \/ /\ ~diff_error(saved[1], saved[2])
          /\ LET d == diff_snapshots(saved[1], saved[2])
                 p == derive_extend_plan(d)
             IN outcome' = [op |-> "diff", ok |-> TRUE, at |-> p.ledgers, keys |-> d, value |-> p.keys]
          /\ UNCHANGED cmd
    /\ UNCHANGED <<ledger, entries, past, shows, saved>>

StorageEstimate ==
    /\ BeginLast
    /\ Finish("estimate", TRUE, {}, estimate_storage_from_spec(DEFAULT_SUGGESTED_LEDGERS).instance)
    /\ UNCHANGED <<ledger, entries, past, shows, saved>>

\* storage extend, of the printed plan or of keys the user thought of.
StorageExtend ==
    /\ Begin
    /\ \/ \E n \in {0, 1}, k \in Keys :
            \/ n = 0 /\ Finish("failed", FALSE, {}, NoValue)
            \/ n > 0 /\ UNCHANGED outcome
                 /\ cmd' = [Idle0 EXCEPT !.op = "extend", !.pc = "simulate", !.ledgers = n,
                                         !.want = collect_extend_keys(<<k>>)]
       \/ /\ outcome.op = "diff" /\ outcome.ok /\ outcome.value # {}
          /\ cmd' = [Idle0 EXCEPT !.op = "extend", !.pc = "simulate", !.ledgers = outcome.at,
                                  !.want = collect_extend_keys(SetToSeq(outcome.value)),
                                  !.plan = outcome.keys]
          /\ UNCHANGED outcome
    /\ UNCHANGED <<ledger, entries, past, shows, saved>>

\* extend_footprint: sequence, simulation and its checks; any of them may fail.
SimulateExtend ==
    /\ cmd.pc = "simulate" /\ cmd.op = "extend"
    /\ \/ Fail
       \/ cmd' = [cmd EXCEPT !.pc = "submit"] /\ UNCHANGED outcome
    /\ UNCHANGED <<ledger, entries, past, shows, saved, startedCmds>>

\* The network extends what lives, relative to the ledger before.
extended_until(k, to) == IF entries[k].until > ledger + to THEN entries[k].until ELSE ledger + to

\* submit_and_wait: the transaction is in a ledger, or it has failed.
SubmitExtend ==
    /\ cmd.pc = "submit" /\ cmd.op = "extend"
    /\ \/ /\ CloseLedger([k \in Keys |-> IF Contains(cmd.want, k) /\ Live(k)
                             THEN [entries[k] EXCEPT !.until = extended_until(k, cmd.ledgers)]
                             ELSE entries[k]])
          /\ Finish("extend", TRUE, cmd.plan, NoValue)
       \/ UNCHANGED <<ledger, entries, past>> /\ Fail
    /\ UNCHANGED <<shows, saved, startedCmds>>

\* storage restore of what an invocation touches.
StorageRestore ==
    /\ Begin
    /\ \E touched \in {<<k>> : k \in Keys}, dry \in BOOLEAN :
         cmd' = [Idle0 EXCEPT !.op = "restore", !.pc = "preamble", !.want = touched, !.dry = dry]
    /\ UNCHANGED <<ledger, entries, past, shows, saved, outcome>>

\* restore_params_from_simulation: no preamble, nothing to restore.
restore_params_from_simulation == {k \in ToSet(cmd.want) : Archived(k)}

RestorePreamble ==
    /\ cmd.pc = "preamble"
    /\ \/ Fail
       \/ /\ restore_params_from_simulation # {}
          /\ \/ cmd.dry /\ Finish("dry_run", TRUE, restore_params_from_simulation, NoValue)
             \/ /\ ~cmd.dry
                /\ cmd' = [cmd EXCEPT !.pc = "submit", !.got = restore_params_from_simulation]
                /\ UNCHANGED outcome
    /\ UNCHANGED <<ledger, entries, past, shows, saved, startedCmds>>

SubmitRestore ==
    /\ cmd.pc = "submit" /\ cmd.op = "restore"
    /\ \/ /\ CloseLedger([k \in Keys |-> IF k \in cmd.got /\ ~Live(k)
                             THEN [entries[k] EXCEPT !.until = ledger + RestoreTtl] ELSE entries[k]])
          /\ Finish("restore", TRUE, cmd.got, NoValue)
       \/ UNCHANGED <<ledger, entries, past>> /\ Fail
    /\ UNCHANGED <<shows, saved, startedCmds>>

\* Node answers carry LedgerEntryData; read_ledger_entry_with_ttl parses LedgerEntry.
NodeShape == "LedgerEntryData"
parses_as_ledger_entry(shape) == shape = "LedgerEntry"

\* read_contract_state of one key: found, parsed, rendered.
read_contract_state(k) ==
    \/ Finish("failed", FALSE, {}, NoValue)               \* the request failed
    \/ k \notin Returned({k}) /\ Finish("failed", FALSE, {k}, NoValue)
    \/ /\ k \in Returned({k})
       /\ IF parses_as_ledger_entry(NodeShape)
          THEN Finish("read", TRUE, {k}, entries[k].value)
          ELSE Finish("unparsed", FALSE, {k}, NoValue)

StorageRead ==
    /\ BeginLast
    /\ \E k \in Keys : read_contract_state(k)
    /\ UNCHANGED <<ledger, entries, past, shows, saved>>

StorageNext ==
    \/ Tick \/ StorageAnalyze \/ StorageCheck \/ FetchBatch \/ Report \/ SaveForeign
    \/ StorageDiff \/ StorageEstimate \/ StorageExtend \/ SimulateExtend \/ SubmitExtend
    \/ StorageRestore \/ RestorePreamble \/ SubmitRestore \/ StorageRead

StorageSpec == StorageInit /\ [][StorageNext]_storageVars

-----------------------------------------------------------------------------
\* Properties

\* fetch_ledger_entries promises one snapshot: whatever ledgers close between the
\* batches, every value and lifetime of a report is that of the ledger it names.
ReportIsOneLedger ==
    \A i \in DOMAIN saved : saved[i].network # Other =>
        \A e \in saved[i].entries :
            LET was == past[saved[i].latest_ledger][e.key]
            IN /\ e.value = extract_contract_data_value(e.key, was.value)
               /\ e.ttl = satSub(was.until, saved[i].latest_ledger)

\* What storage-diff calls unchanged had the same value on the chain at both
\* ledgers and is not about to expire; every key of either report is in it.
DiffTellsChanges ==
    (outcome.op = "diff" /\ outcome.ok /\ saved[2].network # Other) =>
        LET then == past[saved[1].latest_ledger]
            now == past[saved[2].latest_ledger]
        IN /\ {e.key : e \in outcome.keys} = KeysOf(saved[1]) \cup KeysOf(saved[2])
           /\ \A e \in outcome.keys : e.status = "Unchanged" =>
                /\ now[e.key].until - saved[2].latest_ledger >= EXPIRING_SOON_LEDGERS
                /\ KeyClass[e.key] # "Other" /\ e.key \in KeysOf(saved[1])
                     => then[e.key].value = now[e.key].value

\* Reports and the diff of two of them tell what was on the chain, whatever
\* ledgers close between their requests.
ReportsTellTheChain == ReportIsOneLedger /\ DiffTellsChanges

\* A plan carried out, however late, leaves every expiring key that still lived
\* with at least the default horizon.
PlanRescues ==
    (outcome.op = "extend" /\ outcome.ok /\ outcome.at = ledger - 1) =>
        \A e \in outcome.keys : (e.status = "ExpiringSoon" /\ past[ledger - 1][e.key].until >= ledger - 1)
            => entries[e.key].until - (ledger - 1) >= DEFAULT_SUGGESTED_LEDGERS

\* storage read of a live entry of the contract shows it (docs and help of
\* storage read); the comment on extract_contract_data_value says which type the
\* node sends.
LiveEntryIsReadable == outcome.op # "unparsed"
=============================================================================
