------------------------------ MODULE Release ------------------------------
(***************************************************************************)
(* What sdkt says of a new version of a contract: the ABI parsed from a    *)
(* WASM file, the diff of two ABIs and its verdict (sdkt-wasm spec.rs,     *)
(* spec_diff.rs), generated clients (client_gen.rs), sdkt diff, verify     *)
(* --upgrade-safety and release-assurance (sdkt-cli). A WASM file is its   *)
(* size and its sections; a section is its name and its entries in order.  *)
(***************************************************************************)
EXTENDS Integers, SequencesExt, FiniteSetsExt

CONSTANTS Files,        \* WASM files there are: [sections, size, wellFormed]
          ReleaseRequests, \* what release-assurance may be asked
          CompoundArgs, \* the arguments of each compound type there is
          NotDeployed,  \* no contract at the address
          NoFile,       \* an option not given
          NoVal,        \* no value, limit or section
          MaxMoves      \* bound: upgrades while a command runs

VARIABLES live,     \* the file the contract was deployed from
          first,    \* history: the first file, which callers were built against
          ra,       \* the release-assurance that runs
          report,   \* its report
          client,   \* the last generated client
          ran,      \* history: the files the contract ran during the command
          moves     \* upgrades while a command runs

releaseVars == <<live, first, ra, report, client, ran, moves>>

-----------------------------------------------------------------------------
\* Parsing: sdkt-wasm lib.rs and spec.rs. An entry is [kind, name, def].

parse_metadata_error(f) == ~f.wellFormed \/ \E s \in ToSet(f.sections) : s.name = "meta" /\ ~s.good

\* decode_spec_section, over all spec sections of the file, in order.
SpecEntries(f) ==
    FlattenSeq([i \in DOMAIN f.sections |->
                  IF f.sections[i].name = "spec" THEN f.sections[i].entries ELSE <<>>])

parse_contract_spec_error(f) ==
    \/ ~f.wellFormed
    \/ \E s \in ToSet(f.sections) : s.name \in {"spec", "env"} /\ ~s.good
    \/ \A s \in ToSet(f.sections) : s.name # "spec"

\* by_name: of two entries with one name the later one counts.
by_name(entries, kinds) ==
    LET mine == {i \in DOMAIN entries : entries[i].kind \in kinds}
        names == {entries[i].name : i \in mine}
    IN [n \in names |-> entries[Max({i \in mine : entries[i].name = n})]]

\* map_udt_struct, map_udt_union, map_udt_enum and map_udt_error_enum: a type is its
\* kind and its members; members have types, or a value in an enum.
TypeKinds == {"struct", "union", "enum", "error_enum"}
Member(name, types, value) == [name |-> name, types |-> types, value |-> value]

\* map_type_def: a reference is its rendered name and its kind; a compound one also
\* has its arguments as members.
Primitives == {"u32", "i32", "u64", "i64", "bool", "address", "string", "symbol", "void", "val", "bytes"}
map_type_def(t) ==
    LET args == IF t \in DOMAIN CompoundArgs THEN CompoundArgs[t] ELSE <<>>
    IN [name |-> t, args |-> args,
        kind |-> IF t \in Primitives THEN "primitive" ELSE IF args # <<>> THEN "compound" ELSE "udt"]
MapTypes(ts) == [i \in DOMAIN ts |-> map_type_def(ts[i])]
MapParams(ps) == [i \in DOMAIN ps |-> [ps[i] EXCEPT !.type = map_type_def(@)]]

map_udt(entry) ==
    [kind |-> entry.kind,
     members |-> [i \in DOMAIN entry.def |-> [entry.def[i] EXCEPT !.types = MapTypes(@)]]]
map_event(entry) == [entry.def EXCEPT !.params = MapParams(@)]
map_function(entry) == [params |-> MapParams(entry.def.params), outputs |-> MapTypes(entry.def.outputs)]

parse_contract_spec(f) ==
    LET es == SpecEntries(f)
        fns == by_name(es, {"fn"})
        events == by_name(es, {"event"})
        types == by_name(es, TypeKinds)
    IN [functions |-> [n \in DOMAIN fns |-> map_function(fns[n])],
        events |-> [n \in DOMAIN events |-> map_event(events[n])],
        types |-> [n \in DOMAIN types |-> map_udt(types[n])]]

\* The members of a type and the signature of an event in a spec section, as their
\* XDR types have them.
MemberDefs == [name : STRING, types : Seq(STRING), value : Int \cup {NoVal}]
EventParams == [name : STRING, location : {"data", "topic_list"}, type : STRING]
EventDefs == [prefix : Seq(STRING), format : {"single_value", "vec", "map"}, params : Seq(EventParams)]

ASSUME FilesAssumption ==
    \A f \in Files : LET es == SpecEntries(f)
                     IN /\ Len(es) \in Nat /\ DOMAIN es = 1 .. Len(es)
                        /\ \A i \in 1 .. Len(es) :
                             /\ es[i].kind \in TypeKinds => es[i].def \in Seq(MemberDefs)
                             /\ es[i].kind = "event" => es[i].def \in EventDefs

\* What may be asked: sizes are numbers of bytes, an audit and a recorded campaign end
\* in one of their outcomes.
ASSUME RequestsAssumption ==
    /\ NoVal \notin Int /\ NoVal \notin {"Pass", "Fail", "Error"}
    /\ \A r \in ReleaseRequests :
         /\ r.audit \in {"not_given", "missing", "no_sources", "unreadable", "unparsable", "critical", "warning", "clean"}
         /\ r.evidence \in {"not_given", "unreadable", "incomplete", "findings", "clean"}
         /\ r.wasm.size \in Nat /\ (r.previous # NoFile => r.previous.size \in Nat)
         /\ r.max_size \in Nat \cup {NoVal} /\ r.max_growth \in Int \cup {NoVal}

-----------------------------------------------------------------------------
\* Comparing: spec_diff.rs

type_ref_eq(a, b) ==
    /\ a.name = b.name /\ a.kind = b.kind
    /\ a.kind = "compound" => Len(a.args) = Len(b.args) /\ \A i \in DOMAIN a.args : a.args[i] = b.args[i]
member_types_eq(s, t) == Len(s) = Len(t) /\ \A i \in DOMAIN s : type_ref_eq(s[i], t[i])

type_definition_eq(a, b) ==
    /\ a.kind = b.kind /\ Len(a.members) = Len(b.members)
    /\ \A i \in DOMAIN a.members :
         /\ a.members[i].name = b.members[i].name /\ a.members[i].value = b.members[i].value
         /\ member_types_eq(a.members[i].types, b.members[i].types)

\* Mutant: whether a parameter is a topic or data is not compared.
event_signature_eq_names(a, b) ==
    /\ a.prefix = b.prefix /\ a.format = b.format /\ Len(a.params) = Len(b.params)
    /\ \A i \in DOMAIN a.params :
         a.params[i].name = b.params[i].name /\ type_ref_eq(a.params[i].type, b.params[i].type)

event_signature_eq(a, b) ==
    /\ a.prefix = b.prefix /\ a.format = b.format /\ Len(a.params) = Len(b.params)
    /\ \A i \in DOMAIN a.params :
         a.params[i].name = b.params[i].name /\ a.params[i].location = b.params[i].location
            /\ type_ref_eq(a.params[i].type, b.params[i].type)

function_eq(a, b) == a.params = b.params /\ a.outputs = b.outputs

\* diff_set: names on one side only.
diff_set(old, new) == [added |-> DOMAIN new \ DOMAIN old, removed |-> DOMAIN old \ DOMAIN new]

Changed(old, new, same(_, _)) == {n \in DOMAIN old \cap DOMAIN new : ~same(old[n], new[n])}

diff_specs(old, new) ==
    [functions |-> diff_set(old.functions, new.functions), events |-> diff_set(old.events, new.events),
     types |-> diff_set(old.types, new.types),
     changed_functions |-> Changed(old.functions, new.functions, function_eq),
     changed_events |-> Changed(old.events, new.events, event_signature_eq),
     changed_types |-> Changed(old.types, new.types, type_definition_eq)]

\* UpgradeVerdict::from_diff: what is added breaks nothing.
breaking_changes(d) ==
    d.functions.removed \cup d.changed_functions \cup d.events.removed \cup d.changed_events
        \cup d.types.removed \cup d.changed_types

diff_wasm_error(a, b) ==
    parse_contract_spec_error(a) \/ parse_contract_spec_error(b) \/ parse_metadata_error(a) \/ parse_metadata_error(b)
upgrade_safety(a, b) == breaking_changes(diff_specs(parse_contract_spec(a), parse_contract_spec(b))) = {}

\* size_delta_pct in tenths of a percent, rounded half away from zero; none over a
\* baseline of no bytes.
size_delta_pct(old, new) ==
    LET n == IF new >= old THEN new - old ELSE old - new
        tenths == (2000 * n + old) \div (2 * old)
    IN CASE old = 0 /\ new = 0 -> 0
         [] old = 0 /\ new # 0 -> NoVal
         [] OTHER -> IF new >= old THEN tenths ELSE -tenths

\* evaluate_size_policy: is any limit exceeded or not comparable?
evaluate_size_policy(old, new, max_size, max_growth) ==
    \/ max_size # NoVal /\ new > max_size
    \/ /\ max_growth # NoVal
       /\ \/ old = NoVal
          \/ old # NoVal /\ (size_delta_pct(old, new) = NoVal \/ size_delta_pct(old, new) > max_growth)

\* validate_size_threshold_bytes and validate_size_threshold_pct
validate_size_threshold(max_size, max_growth) ==
    max_size # 0 /\ (max_growth = NoVal \/ max_growth >= 0)

\* sdkt diff: its exit code, 1 with an error or a size violation after the report.
diff_exit(old, new, safety, max_size, max_growth) ==
    IF \/ safety /\ (max_size # NoVal \/ max_growth # NoVal)
       \/ ~validate_size_threshold(max_size, max_growth)
       \/ diff_wasm_error(old, new)
       \/ ~safety /\ evaluate_size_policy(old.size, new.size, max_size, max_growth)
    THEN 1 ELSE 0

Diff ==
    /\ ra.pc = "idle" /\ report = NoVal
    /\ \E r \in ReleaseRequests, safety \in BOOLEAN :
         /\ r.previous # NoFile
         /\ report' = [status |-> "diff", req |-> r, sections |-> <<>>,
                       exit |-> diff_exit(r.previous, r.wasm, safety, r.max_size, r.max_growth)]
    /\ UNCHANGED <<live, first, ra, client, ran, moves>>

-----------------------------------------------------------------------------
\* Generated clients

\* map_scalar and scalar_type_tag differ on void, which is no argument.
map_scalar(t) == t.name \in {"u32", "i32", "u64", "i64", "bool", "address", "string", "symbol", "void"}
scalar_type_tag(t) == t.name \in {"u32", "i32", "u64", "i64", "bool", "address", "string", "symbol"}

check_supported(fn) ==
    /\ \A i \in DOMAIN fn.params : map_scalar(fn.params[i].type)
    /\ \A i \in DOMAIN fn.outputs : map_scalar(fn.outputs[i])
    /\ Len(fn.outputs) <= 1

\* generate_client_with_options: all functions or, with skip_unsupported, the
\* supported ones. It panics on an argument without a tag.
generate_client(f, skip) ==
    LET fns == parse_contract_spec(f).functions
        supported == {n \in DOMAIN fns : check_supported(fns[n])}
    IN IF parse_contract_spec_error(f) \/ (~skip /\ supported # DOMAIN fns) THEN [status |-> "error", calls |-> {}]
       ELSE IF \E n \in supported : \E i \in DOMAIN fns[n].params : ~scalar_type_tag(fns[n].params[i].type)
            THEN [status |-> "panic", calls |-> {}]
            ELSE [status |-> "ok", calls |-> supported]

run_generate_client ==
    /\ ra.pc = "idle" /\ report = NoVal /\ client.status = "none"
    /\ \E f \in Files, skip \in BOOLEAN : client' = generate_client(f, skip)
    /\ UNCHANGED <<live, first, ra, report, ran, moves>>

-----------------------------------------------------------------------------
\* A team upgrades its contract when verify --upgrade-safety calls it compatible.

run_upgrade_safety ==
    /\ ra.pc = "idle" /\ report = NoVal /\ live # NotDeployed
    /\ \E f \in Files :
         /\ ~diff_wasm_error(live, f) /\ upgrade_safety(live, f)
         /\ live' = f
    /\ UNCHANGED <<first, ra, report, client, ran, moves>>

\* While release-assurance reads, anyone may upgrade the contract.
UpgradeMeanwhile ==
    /\ ra.pc \notin {"idle"} /\ live # NotDeployed /\ moves < MaxMoves
    /\ \E f \in {r.wasm : r \in {q \in ReleaseRequests : q.contract}} : f.wellFormed /\ live' = f
    /\ ran' = ran \cup {live'}
    /\ moves' = moves + 1
    /\ UNCHANGED <<first, ra, report, client>>

-----------------------------------------------------------------------------
\* release-assurance

NoAssurance == [pc |-> "idle", req |-> NoVal, status |-> <<>>]

audit_status(audit) ==
    CASE audit \in {"critical", "unreadable", "unparsable"} -> "Fail" [] audit = "warning" -> "Review" [] OTHER -> "Pass"

run_release_security(audit) ==
    CASE audit = "not_given" -> "Skipped" [] audit \in {"missing", "no_sources"} -> "Error" [] OTHER -> audit_status(audit)

\* read_fuzz_evidence; a file that cannot be read ends the command.
read_fuzz_evidence(e) ==
    CASE e = "not_given" -> NoVal [] e = "incomplete" -> "Error" [] e = "findings" -> "Fail" [] OTHER -> "Pass"

aggregate_release_status(ss) ==
    IF ss \cap {"Fail", "Error"} # {} THEN "FAIL"
    ELSE IF ss \cap {"Review", "Skipped"} # {} THEN "REVIEW" ELSE "PASS"

\* The command checks its limits before it does anything.
ReleaseAssurance ==
    /\ ra.pc = "idle" /\ report = NoVal
    /\ \E r \in ReleaseRequests :
         IF ~validate_size_threshold(r.max_size, r.max_growth) \/ (r.max_growth # NoVal /\ r.previous = NoFile)
         THEN report' = [status |-> "error", exit |-> 1, req |-> r, sections |-> <<>>] /\ UNCHANGED ra
         ELSE ra' = [pc |-> "artifact", req |-> r, status |-> <<>>] /\ UNCHANGED report
    /\ ran' = {live}
    /\ UNCHANGED <<live, first, client, moves>>

Section(pc, s) == ra' = [ra EXCEPT !.pc = pc, !.status = Append(@, s)] /\ UNCHANGED report
Stays == UNCHANGED <<live, first, client, ran, moves>>
Valid == ra.status[1] = "Pass"

\* run_release_assurance: the artifact, then run_release_security.
ArtifactAndSecurity ==
    /\ ra.pc = "artifact"
    /\ ra' = [ra EXCEPT !.pc = "upgrade",
                        !.status = <<IF parse_metadata_error(ra.req.wasm) THEN "Fail" ELSE "Pass",
                                     run_release_security(ra.req.audit)>>]
    /\ UNCHANGED report /\ Stays

UpgradeStatus(old) ==
    IF diff_wasm_error(old, ra.req.wasm) THEN "Error" ELSE IF upgrade_safety(old, ra.req.wasm) THEN "Pass" ELSE "Fail"

\* run_release_upgrade_safety: against the previous file, else the live contract.
run_release_upgrade_safety ==
    /\ ra.pc = "upgrade"
    /\ \/ ~Valid /\ Section("verify", "Skipped")
       \/ Valid /\ ra.req.previous # NoFile /\ Section("verify", UpgradeStatus(ra.req.previous))
       \/ /\ Valid /\ ra.req.previous = NoFile
          /\ \/ ~ra.req.contract /\ Section("verify", "Skipped")
             \/ ra.req.contract /\ Section("verify", "Error")     \* a request failed
             \/ /\ ra.req.contract
                /\ Section("verify", IF live = NotDeployed THEN "Fail" ELSE UpgradeStatus(live))
    /\ Stays

OnChain == Valid /\ ra.req.contract

\* verify_contract of the section, and verification_status of its answer.
Verification ==
    /\ ra.pc = "verify"
    /\ \/ ~OnChain /\ Section("health", "Skipped")
       \/ OnChain /\ Section("health", "Error")
       \/ OnChain /\ Section("health", IF live = ra.req.wasm THEN "Pass" ELSE "Fail")
    /\ Stays

\* contract_health reads the contract again; health_status of its verdict.
HealthSection ==
    /\ ra.pc = "health"
    /\ \/ ~OnChain /\ Section("fuzz", "Skipped")
       \/ OnChain /\ Section("fuzz", "Error")
       \/ /\ OnChain
          /\ \/ live # ra.req.wasm /\ Section("fuzz", "Fail")
             \/ live = ra.req.wasm /\ (Section("fuzz", "Pass") \/ Section("fuzz", "Review"))
    /\ Stays

\* Mutant: the growth limit is not passed on.
size_policy_violated_size_only(r) ==
    ~parse_metadata_error(r.wasm) /\ evaluate_size_policy(NoVal, r.wasm.size, r.max_size, NoVal)

\* apply_size_policy_to_assurance: a violation makes the artifact fail.
size_policy_violated(r) ==
    /\ r.max_size # NoVal \/ r.max_growth # NoVal
    /\ ~parse_metadata_error(r.wasm)
    /\ evaluate_size_policy(IF r.max_growth # NoVal /\ r.previous # NoFile THEN r.previous.size ELSE NoVal,
                            r.wasm.size, r.max_size, r.max_growth)

Aggregate ==
    LET fuzz == read_fuzz_evidence(ra.req.evidence)
        sections == IF fuzz = NoVal THEN ra.status ELSE Append(ra.status, fuzz)
        final == IF size_policy_violated(ra.req) THEN [sections EXCEPT ![1] = "Fail"] ELSE sections
        status == aggregate_release_status(ToSet(final))
    IN /\ ra.pc = "fuzz"
       /\ report' = IF ra.req.evidence = "unreadable"
                    THEN [status |-> "error", exit |-> 1, req |-> ra.req, sections |-> <<>>]
                    ELSE [status |-> status, exit |-> IF status = "FAIL" THEN 1 ELSE 0,
                          req |-> ra.req, sections |-> final]
       /\ ra' = NoAssurance
       /\ Stays

ReleaseInit ==
    /\ live \in {f \in Files : ~diff_wasm_error(f, f)} \cup {NotDeployed}
    /\ first = live
    /\ ra = NoAssurance
    /\ report = NoVal
    /\ client = [status |-> "none", calls |-> {}]
    /\ ran = {}
    /\ moves = 0

ReleaseNext ==
    \/ Diff \/ run_generate_client \/ run_upgrade_safety \/ UpgradeMeanwhile \/ ReleaseAssurance
    \/ ArtifactAndSecurity \/ run_release_upgrade_safety \/ Verification \/ HealthSection \/ Aggregate

ReleaseSpec == ReleaseInit /\ [][ReleaseNext]_releaseVars

-----------------------------------------------------------------------------
\* Properties

\* The types a caller meets: those a list of references names, and their members'.
NamesOf(refs) == UNION {{t.name} \cup ToSet(t.args) : t \in refs}
Refs(type) == NamesOf(UNION {ToSet(m.types) : m \in ToSet(type.members)})
Reach(spec, refs) ==
    LET grow(s) == s \cup UNION {Refs(spec.types[t]) : t \in s \cap DOMAIN spec.types}
    IN FoldSet(LAMBDA t, s : grow(s), refs, DOMAIN spec.types)
RefsOfFn(fn) == NamesOf({fn.params[i].type : i \in DOMAIN fn.params} \cup ToSet(fn.outputs))
RefsOfEvent(e) == NamesOf({e.params[i].type : i \in DOMAIN e.params})
SameTypes(old, new, refs) ==
    \A t \in Reach(old, refs) \cap DOMAIN old.types :
        t \in DOMAIN new.types /\ new.types[t] = old.types[t]

\* However many upgrades that were called compatible are stacked, a caller built
\* against the first version still finds every function and event it knew, with the
\* same signature and the same meaning of every type it can reach from there.
OldCallersWork ==
    (first # NotDeployed /\ ra.pc = "idle" /\ moves = 0) =>
        LET old == parse_contract_spec(first)
            new == parse_contract_spec(live)
        IN /\ \A n \in DOMAIN old.functions :
                /\ n \in DOMAIN new.functions /\ new.functions[n] = old.functions[n]
                /\ SameTypes(old, new, RefsOfFn(old.functions[n]))
           /\ \A n \in DOMAIN old.events :
                /\ n \in DOMAIN new.events /\ new.events[n] = old.events[n]
                /\ SameTypes(old, new, RefsOfEvent(old.events[n]))

\* Each section reads the contract for itself while it may be upgraded. A release
\* that is called PASS was the deployed code at some point of the command, was
\* audited without a warning, and is called compatible with its baseline.
PassIsEarned ==
    (report # NoVal /\ report.status = "PASS") =>
        /\ report.req.wasm \in ran
        /\ report.req.audit = "clean" /\ report.req.evidence \in {"not_given", "clean"}
        /\ report.req.previous # NoFile => upgrade_safety(report.req.previous, report.req.wasm)
        /\ report.req.previous = NoFile => \E f \in ran : upgrade_safety(f, report.req.wasm)

\* Exit 0 of release-assurance hides no blocking fact: no critical finding, no finding
\* of the recorded campaign, no break of the named baseline; and neither it nor exit 0
\* of diff hides a size above a limit, the growth measured to the report's rounding.
ExitZeroHidesNothing ==
    (report # NoVal /\ report.exit = 0) =>
        LET r == report.req
        IN /\ report.status # "diff" =>
                /\ r.audit \notin {"critical", "unreadable", "unparsable", "missing", "no_sources"}
                /\ r.evidence \notin {"findings", "incomplete", "unreadable"}
                /\ r.previous # NoFile => ~diff_wasm_error(r.previous, r.wasm) /\ upgrade_safety(r.previous, r.wasm)
           /\ r.max_size # NoVal => r.wasm.size <= r.max_size
           /\ r.max_growth # NoVal =>
                /\ r.previous.size = 0 => r.wasm.size = 0
                /\ 2000 * (r.wasm.size - r.previous.size) < (2 * r.max_growth + 1) * r.previous.size
                     \/ r.wasm.size <= r.previous.size

\* What release-assurance answers while the contract may be upgraded is earned: a PASS
\* by every section, and exit 0 by the absence of every blocking fact.
ReleaseVerdictHolds == PassIsEarned /\ ExitZeroHidesNothing

\* generate client panics on no file: "validated above" says that every argument of a
\* supported function has a tag.
GenerationNeverPanics == client.status # "panic"
=============================================================================
