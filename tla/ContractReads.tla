--------------------------- MODULE ContractReads ---------------------------
(***************************************************************************)
(* The commands that only read a contract and its network: inspect,        *)
(* verify, health, deployment verify, wasm metadata with its cache,        *)
(* events, account, tx inspect and the capture of network settings         *)
(* (sdkt-rpc inspect.rs, wasm.rs, events.rs, account.rs, transaction.rs,   *)
(* network_capture.rs; sdkt-storage cache.rs; sdkt-cli). A command makes   *)
(* several requests and ledgers close between them. A hash stands for the  *)
(* code it is the hash of.                                                 *)
(***************************************************************************)
EXTENDS Integers, Sequences, FiniteSets

CONSTANTS Hashes, NoHash,     \* hashes of contract code; none
          BadFile,            \* a local file that is not WASM
          Executables,        \* [kind, hash] a contract may get by an upgrade
          Settings,           \* the ids of CAPTURED_CONFIG_SETTING_IDS
          MaxU32,             \* the largest ledger number
          EventWindow,        \* 1000 ledgers
          PageLimit,          \* external: the events a node puts into one answer
          Unset,              \* an option that was not given
          MaxSeq, MaxReads    \* bounds: ledgers and commands of a behaviour

ASSUME ContractAssumption ==
    /\ NoHash \notin Hashes /\ BadFile \notin Hashes
    /\ \A e \in Executables : e.kind \in {"none", "odd", "asset", "wasm", "external"}
    /\ EventWindow \in Nat /\ PageLimit \in Nat \ {0}
    /\ MaxU32 \in Nat /\ MaxSeq \in Nat /\ Unset \notin Int

VARIABLES chain,    \* executable, owner's tag, code on the network, settings, events
          trail,    \* history: the chain as of each ledger
          reader,   \* the command that runs
          json,     \* per hash: the metadata file of the cache
          temp,     \* per hash: its temporary file
          verdict,  \* what the last command said
          reads     \* commands started

readVars == <<chain, trail, reader, json, temp, verdict, reads>>

seq == Len(trail)
Asleep == [op |-> "idle", pc |-> "idle", local |-> NoHash, hash |-> NoHash, kind |-> "none",
           from |-> 0, refresh |-> FALSE, lo |-> 0, hi |-> 0, first |-> 0]
Silent == [op |-> "none", exit |-> 0]
Said(op, status, exit, hash, got) ==
    [op |-> op, status |-> status, exit |-> exit, hash |-> hash, got |-> got,
     local |-> reader.local, from |-> reader.from, to |-> seq, lo |-> reader.lo, hi |-> reader.hi]
Effective(c) == CASE c.exe.kind = "wasm" -> c.exe.hash [] c.exe.kind = "external" -> c.tag [] OTHER -> NoHash

ReadInit ==
    /\ \E e \in Executables, h \in Hashes :
         chain = [exe |-> e, tag |-> h, code |-> Hashes, cfg |-> [s \in Settings |-> 0], events |-> {1}]
    /\ trail = <<chain>>
    /\ reader = Asleep
    /\ json = [h \in Hashes |-> NoHash]
    /\ temp = [h \in Hashes |-> NoHash]
    /\ verdict = Silent
    /\ reads = 0

\* A ledger closes: the contract is upgraded, the owner of the tag moves it or lets
\* it expire, code expires, a setting is voted, or the contract emits an event. Only
\* what happens while a command runs can matter to it.
Close ==
    /\ seq < MaxSeq /\ reader.op # "idle"
    /\ \/ \E e \in Executables \ {chain.exe} :
            {e.kind, chain.exe.kind} \subseteq {"wasm", "external"} /\ chain' = [chain EXCEPT !.exe = e]
       \/ \E t \in (Hashes \cup {NoHash}) \ {chain.tag} : chain' = [chain EXCEPT !.tag = t]
       \/ \E h \in chain.code : chain' = [chain EXCEPT !.code = @ \ {h}]
       \/ \E s \in Settings : chain' = [chain EXCEPT !.cfg[s] = 1 - @]
       \/ chain' = [chain EXCEPT !.events = @ \cup {seq + 1}]
    /\ trail' = Append(trail, chain')
    /\ UNCHANGED <<reader, json, temp, verdict, reads>>

-----------------------------------------------------------------------------
\* Pure parts

\* verification_outcome of a hash of the chain and the local file's.
verification_outcome(hash, local) ==
    IF local = NoHash THEN "OnChainOnly" ELSE IF local = hash THEN "Verified" ELSE "Mismatch"

\* derive_verdict
derive_verdict(outcome, expiring, total) ==
    CASE outcome = "Mismatch" -> "critical"
      [] outcome # "Mismatch" /\ (expiring > 0 \/ total = 0) -> "at_risk"
      [] OTHER -> "healthy"

\* compare_deployment
compare_deployment(found, kind, hash, local) ==
    CASE ~found -> "NOT_FOUND"
      [] found /\ (kind \notin {"wasm", "external"} \/ NoHash \in {hash, local}) -> "UNKNOWN"
      [] OTHER -> IF hash = local THEN "MATCH" ELSE "DRIFT"

Before(n) == IF n > EventWindow THEN n - EventWindow ELSE 1

\* resolve_ledger_range; the result is <<start, end>>.
resolve_ledger_range(start, end, latest) ==
    <<IF start # Unset THEN start ELSE IF end # Unset THEN Before(end) ELSE Before(latest), end>>

\* The node's end is exclusive, the user's is not.
request_end(end) == IF end = Unset THEN Unset ELSE end + 1

\* Mutant: a file cut short is read as empty metadata.
cache_get_lenient(h) == IF json[h] = NoHash THEN "miss" ELSE "hit"

\* WasmCache::get: a file cut short does not parse, which is only a warning.
cache_get(h) == IF json[h] = h THEN "hit" ELSE "miss"

\* The provenance check of capture_network_config.
mixed_ledger(answered) == answered # reader.lo

-----------------------------------------------------------------------------
\* Commands up to their first request

\* A command that does not touch the cache leaves nothing behind: it is taken
\* alone.
Begins(op, pc, local) ==
    /\ reader.op = "idle" /\ reads = 0
    /\ reads' = MaxReads
    /\ reader' = [Asleep EXCEPT !.op = op, !.pc = pc, !.local = local, !.from = seq]
    /\ verdict' = Silent /\ UNCHANGED <<chain, trail, json, temp>>

Inspect == Begins("inspect", "instance", NoHash)

\* The local file is read and hashed before any request.
LocalFiles == Hashes \cup {NoHash, BadFile}
Hashed(op, local) == Begins(op, IF local = BadFile THEN "bad_file" ELSE "instance", local)
Verify == \E local \in LocalFiles : Hashed("verify", local)
Health == \E local \in LocalFiles : Hashed("health", local)
run_deployment_verify == \E local \in LocalFiles : Hashed("deployment", local)

WasmMetadata ==
    /\ reader.op = "idle" /\ reads < MaxReads
    /\ reads' = reads + 1
    /\ \E r \in BOOLEAN :
         reader' = [Asleep EXCEPT !.op = "metadata", !.pc = "instance", !.from = seq, !.refresh = r]
    /\ verdict' = Silent /\ UNCHANGED <<chain, trail, json, temp>>

capture_network_config == Begins("capture", "ledger", NoHash)
TxInspect == Begins("tx", "tx", NoHash)
Account == Begins("account", "horizon", NoHash)

\* events: an inverted range is refused before any request.
Events ==
    /\ reader.op = "idle" /\ reads = 0
    /\ reads' = MaxReads
    /\ \E start, end \in {Unset} \cup (1..MaxSeq) \cup {MaxU32} :
         reader' = [Asleep EXCEPT !.op = "events", !.from = seq, !.lo = start, !.hi = end,
                    !.pc = CASE start # Unset /\ end # Unset /\ start > end -> "bad_range"
                             [] start = Unset /\ end = Unset -> "latest"
                             [] OTHER -> "events"]
    /\ verdict' = Silent /\ UNCHANGED <<chain, trail, json, temp>>

-----------------------------------------------------------------------------
\* Requests

Answer(status, exit, hash, got) ==
    /\ verdict' = Said(reader.op, status, exit, hash, got)
    /\ reader' = Asleep
Goto(pc) == reader' = [reader EXCEPT !.pc = pc] /\ UNCHANGED verdict
Refuse == Answer("error", 1, NoHash, {})
Steps == UNCHANGED <<chain, trail, json, temp, reads>>

RefuseInput == reader.pc \in {"bad_file", "bad_range"} /\ Refuse /\ Steps

\* The hash is known: deployment verify is done, the others go for the code.
HashKnown(kind, hash) ==
    IF reader.op = "deployment"
    THEN LET v == compare_deployment(TRUE, kind, hash, reader.local)
         IN Answer(v, IF v = "MATCH" THEN 0 ELSE 1, hash, {})
    ELSE reader' = [reader EXCEPT !.pc = "code", !.hash = hash, !.kind = kind] /\ UNCHANGED verdict

\* There is none: deployment verify says so, the others fail.
HashUnknown(found, kind) ==
    IF reader.op = "deployment"
    THEN LET v == compare_deployment(found, kind, NoHash, reader.local)
         IN Answer(v, IF v = "MATCH" THEN 0 ELSE 1, NoHash, {})
    ELSE Refuse

\* probe_deployed_executable and inspect_contract: the instance entry.
probe_deployed_executable ==
    /\ reader.pc = "instance"
    /\ \/ Refuse
       \/ chain.exe.kind = "none" /\ HashUnknown(FALSE, "none")
       \/ chain.exe.kind \in {"odd", "asset"} /\ HashUnknown(TRUE, chain.exe.kind)
       \/ chain.exe.kind = "wasm" /\ HashKnown("wasm", chain.exe.hash)
       \/ chain.exe.kind = "external" /\ Goto("tag")
    /\ Steps

\* resolve_external_executable: the owner's tag entry, read later. Any failure of
\* it leaves the reference unresolved.
resolve_external_executable ==
    /\ reader.pc = "tag"
    /\ \/ HashUnknown(TRUE, "external")
       \/ chain.tag # NoHash /\ HashKnown("external", chain.tag)
    /\ Steps

\* get_wasm_bytecode in inspect_contract is best effort, so it decides nothing but
\* whether size and ABI are shown.
inspect_contract ==
    /\ reader.pc = "code"
    /\ CASE reader.op = "verify" ->
              LET v == verification_outcome(reader.hash, reader.local)
              IN Answer(v, IF v = "Mismatch" THEN 1 ELSE 0, reader.hash, {})
         [] reader.op = "metadata" -> Goto(IF reader.refresh THEN "fetch" ELSE "cache")
         [] OTHER -> Goto("storage")
    /\ Steps

\* The storage posture: health needs it, inspect shows it if it comes.
contract_health ==
    /\ reader.pc = "storage"
    /\ \/ reader.op = "health" /\ Refuse
       \/ reader.op = "inspect" /\ Answer("shown", 0, reader.hash, {})
       \/ /\ reader.op = "health"
          /\ \E expiring, total \in {0, 1} :
               LET v == derive_verdict(verification_outcome(reader.hash, reader.local), expiring, total)
               IN Answer(v, IF v = "critical" THEN 1 ELSE 0, reader.hash, {})
    /\ Steps

CacheLookup ==
    /\ reader.pc = "cache"
    /\ IF cache_get(reader.hash) = "hit" THEN Answer("Hit", 0, reader.hash, {json[reader.hash]}) ELSE Goto("fetch")
    /\ Steps

\* get_wasm_metadata: the code may be gone from the network by now.
get_wasm_metadata ==
    /\ reader.pc = "fetch"
    /\ \/ Refuse
       \/ reader.hash \in chain.code /\ Goto("put")
    /\ Steps

\* WasmCache::put: write the temporary file, rename it; every failure is a warning.
\* Another sdkt may put the same code through the same names at the same time.
Cut == BadFile
Truncate(h) == temp' = [temp EXCEPT ![h] = Cut] /\ UNCHANGED json
Fill(h) == temp[h] # NoHash /\ temp' = [temp EXCEPT ![h] = h] /\ UNCHANGED json
Rename(h) == temp[h] # NoHash /\ json' = [json EXCEPT ![h] = temp[h]] /\ temp' = [temp EXCEPT ![h] = NoHash]

put ==
    /\ \/ reader.pc = "put" /\ Truncate(reader.hash) /\ Goto("fill")
       \/ reader.pc = "fill" /\ Fill(reader.hash) /\ Goto("rename")
       \/ reader.pc = "rename" /\ Rename(reader.hash) /\ Answer("Miss", 0, reader.hash, {reader.hash})
       \/ /\ reader.pc \in {"put", "fill", "rename"}
          /\ Answer("Miss", 0, reader.hash, {reader.hash}) /\ UNCHANGED <<json, temp>>
    /\ UNCHANGED <<chain, trail, reads>>

OtherPut ==
    /\ reader.pc \in {"cache", "fetch", "put", "fill", "rename"}
    /\ Truncate(reader.hash) \/ Fill(reader.hash) \/ Rename(reader.hash)
    /\ UNCHANGED <<chain, trail, reader, verdict, reads>>

\* wasm cache remove and clear; remove of what is not there is an error.
CacheRemove ==
    /\ reader.op = "idle" /\ reads < MaxReads
    /\ reads' = reads + 1
    /\ \E h \in Hashes :
         /\ json' = [json EXCEPT ![h] = NoHash]
         /\ verdict' = Said("remove", IF json[h] = NoHash THEN "error" ELSE "removed",
                            IF json[h] = NoHash THEN 1 ELSE 0, h, {})
    /\ UNCHANGED <<chain, trail, reader, temp>>

CacheClear ==
    /\ reader.op = "idle" /\ reads < MaxReads
    /\ reads' = reads + 1
    /\ json' = [h \in Hashes |-> NoHash] /\ temp' = json'
    /\ verdict' = Said("clear", "cleared", 0, NoHash, {})
    /\ UNCHANGED <<chain, trail, reader>>

\* getLatestLedger of events without a range; if it fails, ledger 1000 is assumed.
LatestLedger ==
    /\ reader.pc = "latest"
    /\ \E latest \in {seq, EventWindow} :
         reader' = [reader EXCEPT !.pc = "events", !.first = resolve_ledger_range(Unset, Unset, latest)[1]]
    /\ UNCHANGED verdict /\ Steps

\* External: the node answers with the earliest events of the range, as many as one
\* page holds; the rest is behind the cursor.
Pages(found) ==
    {p \in SUBSET found : /\ \A shown \in p, left \in found \ p : shown < left
                          /\ p = found \/ Cardinality(p) = PageLimit
                          /\ Cardinality(p) <= PageLimit}

\* getEvents, one request without a limit whose cursor is dropped: end + 1 overflows
\* at the last ledger, a start the node has not reached is its error.
get_contract_events_filtered ==
    LET start == IF reader.lo = Unset /\ reader.hi = Unset
                 THEN reader.first ELSE resolve_ledger_range(reader.lo, reader.hi, 0)[1]
        sent == request_end(reader.hi)
        found == {l \in chain.events : l >= start /\ (sent = Unset \/ l < sent)}
    IN /\ reader.pc = "events"
       /\ \/ Refuse
          \/ /\ start <= seq /\ reader.hi # MaxU32
             /\ \E page \in Pages(found) : Answer("events", 0, NoHash, page)
       /\ Steps

\* capture_network_config: the ledger first, then the settings.
CaptureLedger ==
    /\ reader.pc = "ledger"
    /\ \/ Refuse
       \/ reader' = [reader EXCEPT !.pc = "settings", !.lo = seq] /\ UNCHANGED verdict
    /\ Steps

\* decode_into takes what the node returned; what it did not stays unavailable.
decode_into(returned) == {<<s, chain.cfg[s]>> : s \in returned}

CaptureSettings ==
    /\ reader.pc = "settings"
    /\ \/ Refuse
       \/ /\ ~mixed_ledger(seq)
          /\ \E returned \in SUBSET Settings : Answer("captured", 0, NoHash, decode_into(returned))
    /\ Steps

\* inspect_account: Horizon first, the RPC node if that fails in any way.
inspect_account ==
    /\ \/ reader.pc = "horizon" /\ (Answer("account", 0, NoHash, {"horizon"}) \/ Goto("rpc"))
       \/ reader.pc = "rpc" /\ (Answer("account", 0, NoHash, {"rpc"}) \/ Refuse)
    /\ Steps

\* inspect_transaction: fee and operation count only of a settled transaction.
inspect_transaction ==
    /\ reader.pc = "tx"
    /\ \/ Refuse
       \/ \E status \in {"SUCCESS", "FAILED", "NOT_FOUND"}, decodes \in BOOLEAN :
            Answer(status, 0, NoHash, IF status # "NOT_FOUND" /\ decodes THEN {"fee", "operations"} ELSE {})
    /\ Steps

\* The process is killed.
Killed == reader.op # "idle" /\ reader' = Asleep /\ UNCHANGED <<chain, trail, json, temp, verdict, reads>>

ReadNext ==
    \/ Close \/ Inspect \/ Verify \/ Health \/ run_deployment_verify \/ WasmMetadata
    \/ capture_network_config \/ TxInspect \/ Account \/ Events \/ RefuseInput
    \/ probe_deployed_executable \/ resolve_external_executable \/ inspect_contract
    \/ contract_health \/ CacheLookup \/ get_wasm_metadata \/ put \/ OtherPut
    \/ CacheRemove \/ CacheClear \/ LatestLedger \/ get_contract_events_filtered
    \/ CaptureLedger \/ CaptureSettings \/ inspect_account \/ inspect_transaction \/ Killed

ReadSpec == ReadInit /\ [][ReadNext]_readVars

-----------------------------------------------------------------------------
\* Properties

\* What these ledgers let a command read as the contract's code: what it ran at one
\* of them, or the tag of a later ledger than one at which the contract named it.
Readable(h, from, to) ==
    \/ \E l \in from..to : Effective(trail[l]) = h
    \/ \E l, m \in from..to : l < m /\ trail[l].exe.kind = "external" /\ trail[m].tag = h

\* verify, health and deployment verify: a file called the deployed one is code that
\* could be read as the contract's while the command ran, and a file called another
\* than the deployed one was compared with such code and differs from it. (For an
\* external executable the tag is read later than the instance that names it.)
VerifiedMeansDeployed ==
    (verdict.op \in {"verify", "health", "deployment"} /\ verdict.local \in Hashes) =>
        /\ verdict.exit = 0 => Readable(verdict.local, verdict.from, verdict.to)
        /\ verdict.status \in {"Mismatch", "critical", "DRIFT"} =>
             verdict.hash # verdict.local /\ Readable(verdict.hash, verdict.from, verdict.to)

\* No run checks this: a file that is called verified is the code the contract ran
\* at some ledger of the command. With an upgrade between the reads of the instance
\* and of the tag it need not be (executable_tag_key, resolve_external_executable).
VerifiedIsNeverTorn ==
    (verdict.op \in {"verify", "health", "deployment"} /\ verdict.local \in Hashes /\ verdict.exit = 0) =>
        \E l \in verdict.from..verdict.to : Effective(trail[l]) = verdict.local

\* capture_network_config calls a mixed-ledger answer incoherent: every setting it
\* captures is the one in force at the ledger the capture names.
CaptureIsOneLedger ==
    (verdict.op = "capture" /\ verdict.exit = 0) =>
        \A c \in verdict.got : trail[verdict.lo].cfg[c[1]] = c[2]

\* The first ledger the user may count on: the one asked for, or EventWindow ledgers
\* before the last one, which is the one asked for or the newest.
WindowEnd == IF verdict.hi = Unset THEN verdict.to ELSE verdict.hi
WindowStart == IF verdict.lo = Unset THEN WindowEnd - EventWindow ELSE verdict.lo

\* sdkt events shows events that happened, none after the window and, if a bound was
\* given, none before it; an event of the window, of its last ledger too, is left out
\* only when a whole page of earlier ones is shown.
EventsAreTheWindow ==
    (verdict.op = "events" /\ verdict.exit = 0) =>
        /\ verdict.got \subseteq trail[verdict.to].events
        /\ \A l \in verdict.got :
             l <= WindowEnd /\ ({verdict.lo, verdict.hi} # {Unset} => l >= WindowStart)
        /\ \A l \in trail[verdict.to].events \ verdict.got :
             WindowStart <= l /\ l <= WindowEnd =>
                 Cardinality(verdict.got) = PageLimit /\ \A shown \in verdict.got : shown < l

\* No run checks this: sdkt events shows every event of the window. It asks once and
\* drops the cursor, so the events after the first page are missing without a word
\* (get_contract_events_filtered).
EventsAreAll ==
    (verdict.op = "events" /\ verdict.exit = 0) =>
        \A l \in trail[verdict.to].events : WindowStart <= l /\ l <= WindowEnd => l \in verdict.got

\* The metadata shown, from the cache or not, is of code that could be read as the
\* contract's during the command, even when another process writes the cache or was
\* killed in it.
MetadataIsOfTheContract ==
    (verdict.op = "metadata" /\ verdict.exit = 0) =>
        verdict.got = {verdict.hash} /\ Readable(verdict.hash, verdict.from, verdict.to)

\* What is said of a contract rests on code that was read of it while the command
\* ran, a capture is of the ledger it names, and events are the earliest of the
\* window that was asked for.
AnswersAreGrounded == VerifiedMeansDeployed /\ MetadataIsOfTheContract /\ CaptureIsOneLedger /\ EventsAreTheWindow
=============================================================================
