------------------------------- MODULE Audit -------------------------------
(***************************************************************************)
(* `sdkt audit`: the scan of a function (audit.rs), the built-in rules     *)
(* (rules.rs), plugin rules (plugin_loader*.rs), the rule registry and     *)
(* the command that discovers sources, chooses and loads plugins, audits   *)
(* file by file and ends in a report and an exit code. A function is its   *)
(* name, where it stands and the sequence of what its body does.           *)
(***************************************************************************)
EXTENDS Naturals, FiniteSets, SequencesExt

CONSTANTS Trees,        \* sequences of source files that a path may hold
          Installed,    \* sequences of plugins the store may list
          Requests,     \* command lines of `sdkt audit`
          Features      \* sets of loaders the binary may be compiled with

\* What a body does that a rule looks at, and how grave a finding may be.
Tokens == {"auth", "call", "write", "let_div", "let", "mul", "use"}
Severities == {"critical", "warning", "info"}

ASSUME AuditAssumption == Features \subseteq SUBSET {"native", "wasm"}

\* A body is a sequence of tokens; a plugin has an id and reports a severity.
ASSUME TreesAssumption ==
    \A t \in Trees : \A i \in DOMAIN t :
        t[i].state \in {"ok", "unreadable", "unparsable"} /\ \A f \in t[i].fns : f.body \in Seq(Tokens)
ASSUME PluginsAssumption ==
    \A ps \in Installed \cup {r.rules : r \in Requests} :
        /\ Len(ps) \in Nat /\ ps = [i \in 1 .. Len(ps) |-> ps[i]]
        /\ \A i \in 1 .. Len(ps) : "rule" \in DOMAIN ps[i] /\ ps[i].severity \in Severities

VARIABLES tree,       \* the sources
          installed,  \* the plugin store as list() shows it
          request,    \* the command line
          features,   \* cargo features
          auditPc,    \* where the command is
          chosen,     \* plugins to load for every file
          registry,   \* the process-wide registry
          infos,      \* rule ids the registries of the files held
          reports,    \* per file done: findings, and those its summary counts
          fileErrors, \* had_file_errors
          exit        \* exit code, 9 while running

auditVars == <<tree, installed, request, features, auditPc, chosen, registry, infos,
               reports, fileErrors, exit>>

-----------------------------------------------------------------------------
\* The scan of one function: x is a local that the body binds and uses.

FnScan == [auth |-> 0, calls |-> 0, writes |-> 0, bound |-> FALSE, usage |-> 0,
           divided |-> FALSE, divMul |-> FALSE, cei |-> FALSE]

\* Mutant: a binding that is assigned anew stays marked as divided.
visit_sticky(scan, token) ==
    CASE token = "auth" -> [scan EXCEPT !.auth = @ + 1]
      [] token = "call" -> [scan EXCEPT !.calls = @ + 1]
      [] token = "write" -> [scan EXCEPT !.writes = @ + 1, !.cei = @ \/ scan.calls > 0]
      [] token = "let_div" -> [scan EXCEPT !.bound = TRUE, !.divided = TRUE]
      [] token = "let" -> [scan EXCEPT !.bound = TRUE]
      [] token = "mul" -> [scan EXCEPT !.divMul = @ \/ scan.divided]
      [] token = "use" -> [scan EXCEPT !.usage = IF scan.bound THEN @ + 1 ELSE @]

\* FnVisitor in source order; count_ident counts only what is bound by then.
visit(scan, token) ==
    CASE token = "auth" -> [scan EXCEPT !.auth = @ + 1]
      [] token = "call" -> [scan EXCEPT !.calls = @ + 1]
      [] token = "write" -> [scan EXCEPT !.writes = @ + 1, !.cei = @ \/ scan.calls > 0]
      [] token = "let_div" -> [scan EXCEPT !.bound = TRUE, !.divided = TRUE]
      [] token = "let" -> [scan EXCEPT !.bound = TRUE, !.divided = FALSE]
      [] token = "mul" -> [scan EXCEPT !.divMul = @ \/ scan.divided]
      [] token = "use" -> [scan EXCEPT !.usage = IF scan.bound THEN @ + 1 ELSE @]

fn_scan(f) ==
    LET scan[i \in 0 .. Len(f.body)] == IF i = 0 THEN FnScan ELSE visit(scan[i - 1], f.body[i])
    IN scan[Len(f.body)]

is_entrypoint(f) == f.owner = "contract"
\* The scanner qualifies the name of every method with its type.
qualified(f) == f.owner # "free"

is_privileged(f) == f.name \in {"mint", "withdraw", "init"}
is_initialize(f) == f.name = "init"

privileged_match_severity(f) ==
    IF is_entrypoint(f) /\ (fn_scan(f).writes > 0 \/ fn_scan(f).calls > 0 \/ ~f.returns)
    THEN "critical" ELSE "info"

-----------------------------------------------------------------------------
\* Rules: what each finds in a set of functions

Found(rule, severity, f) == [rule |-> rule, severity |-> severity, at |-> f.name]

Auth001(fns, spec) == {Found("AUTH-001", privileged_match_severity(f), f) :
                         f \in {g \in fns : is_privileged(g) /\ fn_scan(g).auth = 0}}
Auth002(fns, spec) == {Found("AUTH-002", "critical", f) :
                         f \in {g \in fns : fn_scan(g).calls > 0 /\ fn_scan(g).auth = 0}}
Auth003(fns, spec) == {Found("AUTH-003", "critical", f) :
                         f \in {g \in fns : /\ is_initialize(g) /\ fn_scan(g).auth = 0
                                            /\ (spec.kind = "none" \/ g.name \in spec.exported)}}
\* The name compared is the qualified one.
Auth004(fns, spec) == {Found("AUTH-004", privileged_match_severity(f), f) :
                         f \in {g \in fns : /\ g.name \in {"transfer", "withdraw"} /\ ~qualified(g)
                                            /\ fn_scan(g).auth = 0}}
Move001(fns, spec) == {Found("MOVE-001", "warning", f) : f \in {g \in fns : fn_scan(g).usage >= 2}}
Math001(fns, spec) == {Found("MATH-001", "warning", f) : f \in {g \in fns : fn_scan(g).divMul}}
Cei001(fns, spec) == {Found("CEI-001", "warning", f) : f \in {g \in fns : fn_scan(g).cei}}

all_rules == <<"AUTH-001", "AUTH-002", "AUTH-003", "AUTH-004", "MOVE-001", "MATH-001", "CEI-001">>

BuiltinFindings(rule, fns, spec) ==
    CASE rule = "AUTH-001" -> Auth001(fns, spec) [] rule = "AUTH-002" -> Auth002(fns, spec)
      [] rule = "AUTH-003" -> Auth003(fns, spec) [] rule = "AUTH-004" -> Auth004(fns, spec)
      [] rule = "MOVE-001" -> Move001(fns, spec) [] rule = "MATH-001" -> Math001(fns, spec)
      [] OTHER -> Cei001(fns, spec)

\* PluginRule::check: a failing check is a finding; each finding is counted.
native_check(p, fns) ==
    IF p.check = "fail" THEN {[rule |-> "RUNTIME", severity |-> "warning", at |-> p.rule]}
    ELSE IF p.check = "hit" THEN {Found(p.rule, p.severity, f) : f \in fns} ELSE {}

\* WasmPluginRule::check pushes its findings past the counters of the report.
wasm_check(p, fns) ==
    IF p.check = "fail" THEN {[rule |-> p.rule, severity |-> "warning", at |-> "-"]}
    ELSE IF p.check = "hit" THEN {Found(p.rule, p.severity, f) : f \in fns} ELSE {}

\* The example rule that a build with native plugins links in.
ExampleRule(fns) == {Found("EXAMPLE-001", "info", f) : f \in {g \in fns : g.name = "trigger"}}

-----------------------------------------------------------------------------
\* The registry: entries are built-in ids or plugins

RuleId(entry) == IF "rule" \in DOMAIN entry THEN entry.rule ELSE entry.builtin
Builtin(id) == [builtin |-> id]

\* register_rule: the first registration of an id stays.
register_rule(reg, entry) ==
    IF \E i \in DOMAIN reg : RuleId(reg[i]) = RuleId(entry) THEN reg ELSE Append(reg, entry)

register_all(reg, entries) ==
    LET after[i \in 0 .. Len(entries)] == IF i = 0 THEN reg ELSE register_rule(after[i - 1], entries[i])
    IN after[Len(entries)]

register_builtin_rules(reg) == register_all(reg, [i \in 1 .. Len(all_rules) |-> Builtin(all_rules[i])])

\* What one entry finds in a file.
FindingsOf(e, fns, spec) ==
    IF "rule" \in DOMAIN e
    THEN IF e.kind = "wasm" THEN wasm_check(e, fns) ELSE native_check(e, fns)
    ELSE IF e.builtin = "EXAMPLE-001" THEN ExampleRule(fns)
    ELSE BuiltinFindings(e.builtin, fns, spec)

\* run_all: findings, and the ones that AuditReport::add counted.
run_all(reg, fns, spec, disabled) ==
    LET active == {e \in ToSet(reg) : RuleId(e) \notin disabled}
        counted == {e \in active : ~("rule" \in DOMAIN e /\ e.kind = "wasm")}
    IN [findings |-> UNION {FindingsOf(e, fns, spec) : e \in active},
        counted |-> UNION {FindingsOf(e, fns, spec) : e \in counted}]

-----------------------------------------------------------------------------
\* The command

AuditInit ==
    /\ tree \in Trees /\ installed \in Installed /\ request \in Requests /\ features \in Features
    /\ auditPc = "start" /\ chosen = <<>> /\ registry = <<>> /\ infos = {}
    /\ reports = <<>> /\ fileErrors = FALSE /\ exit = 9

Leave(code) == auditPc' = "done" /\ exit' = code

\* Options are judged before anything runs: --fail-on, then --format.
option_error(r) ==
    IF r.fail_on = "bogus" THEN 2
    ELSE IF r.format = "bogus" THEN 1
    ELSE IF r.list /\ r.format = "sarif" THEN 1
    ELSE IF ~r.list /\ r.spec.kind = "both" THEN 1
    ELSE IF ~r.list /\ r.spec.kind = "unreadable" THEN 1
    ELSE 0

\* Those of a list of plugins, in its order.
Among(ps, good) ==
    LET kept[i \in 0 .. Len(ps)] ==
            IF i = 0 THEN <<>> ELSE IF ps[i] \in good THEN Append(kept[i - 1], ps[i]) ELSE kept[i - 1]
    IN kept[Len(ps)]

Loadable(p) == p.kind \in features /\ p.ext
\* A plugin named with --rules stops the command when it is missing or when the
\* loader is not compiled in; an installed one is skipped.
rules_error(ps) == \E i \in DOMAIN ps : ps[i].abi /\ (~ps[i].there \/ (ps[i].ext /\ ps[i].kind \notin features))
usable(p) == p.abi /\ p.there /\ Loadable(p)

\* --list-rules: plugins named with --rules are loaded first, errors only warn.
ListRules ==
    /\ auditPc = "start" /\ option_error(request) = 0 /\ request.list
    /\ \/ rules_error(request.rules) /\ Leave(1) /\ UNCHANGED registry
       \/ /\ ~rules_error(request.rules)
          /\ registry' = register_builtin_rules(
                register_all(<<>>, Among(request.rules, {p \in ToSet(request.rules) : usable(p) /\ p.load = "ok"})))
          /\ Leave(0)
    /\ UNCHANGED <<tree, installed, request, features, chosen, infos, reports, fileErrors>>

RefuseOptions ==
    /\ auditPc = "start" /\ option_error(request) # 0
    /\ Leave(option_error(request))
    /\ UNCHANGED <<tree, installed, request, features, chosen, registry, infos, reports, fileErrors>>

\* collect_rust_sources and the choice between one file and many.
single_file == request.path = "file" /\ Len(tree) = 1

Discover ==
    /\ auditPc = "start" /\ option_error(request) = 0 /\ ~request.list
    /\ \/ tree = <<>> /\ Leave(1)
       \/ tree # <<>> /\ auditPc' = "choose" /\ UNCHANGED exit
    /\ UNCHANGED <<tree, installed, request, features, chosen, registry, infos, reports, fileErrors>>

ChoosePlugins ==
    /\ auditPc = "choose"
    /\ \/ request.rules # <<>> /\ rules_error(request.rules) /\ Leave(1) /\ UNCHANGED chosen
       \/ /\ request.rules = <<>> \/ ~rules_error(request.rules)
          /\ LET ps == IF request.rules # <<>> THEN request.rules
                       ELSE IF request.no_plugins THEN <<>> ELSE installed
             IN chosen' = Among(ps, {p \in ToSet(ps) : usable(p)})
          /\ auditPc' = "files" /\ UNCHANGED exit
    /\ UNCHANGED <<tree, installed, request, features, registry, infos, reports, fileErrors>>

Upcoming == Len(reports) + 1

\* The plugins are loaded for every file; an ABI mismatch skips one, another
\* error ends the command.
load_error == \E i \in DOMAIN chosen : chosen[i].load = "error"
Loaded == Among(chosen, {p \in ToSet(chosen) : p.load = "ok"})

\* Many files: a registry per file, built-in rules first.
local_registry == register_all(register_builtin_rules(<<>>), Loaded)

\* One file: plugins, then the linked example rule, then the built-in rules.
global_registry ==
    LET plugins == register_all(registry, Loaded)
        example == IF "native" \in features
                   THEN register_rule(plugins, Builtin("EXAMPLE-001")) ELSE plugins
    IN register_builtin_rules(example)

FileError(id) == [findings |-> {[rule |-> id, severity |-> "critical", at |-> "-"]},
                  counted |-> {[rule |-> id, severity |-> "critical", at |-> "-"]}]
RuleIds(reg) == {RuleId(reg[i]) : i \in DOMAIN reg}

UnreadableFile ==
    /\ auditPc = "files" /\ Upcoming <= Len(tree) /\ tree[Upcoming].state = "unreadable"
    /\ reports' = Append(reports, FileError("AUDIT-IO"))
    /\ fileErrors' = TRUE
    /\ UNCHANGED <<tree, installed, request, features, auditPc, chosen, registry, infos, exit>>

AuditSingle ==
    /\ auditPc = "files" /\ single_file /\ Upcoming <= Len(tree) /\ tree[Upcoming].state # "unreadable"
    /\ \/ /\ load_error \/ tree[Upcoming].state = "unparsable"
          /\ Leave(1) /\ UNCHANGED <<registry, reports>>
       \/ /\ ~load_error /\ tree[Upcoming].state = "ok"
          /\ registry' = global_registry
          /\ reports' = Append(reports, run_all(global_registry, tree[Upcoming].fns, request.spec,
                                                request.disable))
          /\ UNCHANGED <<auditPc, exit>>
    /\ UNCHANGED <<tree, installed, request, features, chosen, infos, fileErrors>>

AuditOfMany ==
    /\ auditPc = "files" /\ ~single_file /\ Upcoming <= Len(tree) /\ tree[Upcoming].state # "unreadable"
    /\ \/ load_error /\ Leave(1) /\ UNCHANGED <<infos, reports, fileErrors>>
       \/ /\ ~load_error
          /\ infos' = infos \cup RuleIds(local_registry)
          /\ \/ /\ tree[Upcoming].state = "ok"
                /\ reports' = Append(reports, run_all(local_registry, tree[Upcoming].fns, request.spec,
                                                      request.disable))
                /\ UNCHANGED fileErrors
             \/ /\ tree[Upcoming].state = "unparsable"
                /\ reports' = Append(reports, FileError("AUDIT-PARSE"))
                /\ fileErrors' = TRUE
          /\ UNCHANGED <<auditPc, exit>>
    /\ UNCHANGED <<tree, installed, request, features, chosen, registry>>

-----------------------------------------------------------------------------
\* The end: aggregate, output, gate

\* Mutant: the aggregate adds up the summaries of the files.
aggregate_summary_of_files(severity) ==
    \E i \in DOMAIN reports : \E f \in reports[i].counted : f.severity = severity

\* aggregate.add counts every finding of every file again.
aggregate_summary(severity) ==
    \E i \in DOMAIN reports : \E f \in reports[i].findings : f.severity = severity

audit_gate_trips(level) ==
    \/ aggregate_summary("critical")
    \/ level \in {"warning", "info"} /\ aggregate_summary("warning")
    \/ level = "info" /\ aggregate_summary("info")

apply_audit_gate == request.fail_on # "none" /\ audit_gate_trips(request.fail_on)

\* sarif_rules: the catalogue is what the findings name; the level comes from the
\* rules that were loaded, else it is a warning.
sarif_rules == {f.rule : f \in UNION {reports[i].findings : i \in DOMAIN reports}}

\* SARIF returns after the gate; the other formats fail for file errors too.
EndAudit ==
    /\ auditPc = "files" /\ Upcoming > Len(tree)
    /\ registry' = register_builtin_rules(registry)
    /\ Leave(IF apply_audit_gate \/ (request.format # "sarif" /\ fileErrors) THEN 1 ELSE 0)
    /\ UNCHANGED <<tree, installed, request, features, chosen, infos, reports, fileErrors>>

AuditNext ==
    \/ ListRules \/ RefuseOptions \/ Discover \/ ChoosePlugins
    \/ UnreadableFile \/ AuditSingle \/ AuditOfMany \/ EndAudit

AuditSpec == AuditInit /\ [][AuditNext]_auditVars

-----------------------------------------------------------------------------
\* Properties

\* The scan means what the rules say of it: a call before a write (CEI-001), a
\* multiplication by a local whose last binding divided (MATH-001), and a local
\* passed twice after it was bound (MOVE-001).
ScanIsSourceOrder ==
    \A i \in DOMAIN tree : \A f \in tree[i].fns :
        LET s == fn_scan(f)
            At(t) == {n \in DOMAIN f.body : f.body[n] = t}
            bound == At("let") \cup At("let_div")
        IN /\ s.cei <=> \E c \in At("call"), w \in At("write") : c < w
           /\ s.divMul <=> \E m \in At("mul"), d \in At("let_div") :
                              d < m /\ \A n \in At("let") : ~(d < n /\ n < m)
           /\ s.usage = Cardinality({u \in At("use") : \E b \in bound : b < u})

\* A file gets the same findings alone and among others, unless a plugin has the
\* id of a built-in rule (then the order of registration decides) or the linked
\* example rule speaks up, which only the audit of one file registers.
SameAloneAndTogether ==
    (/\ auditPc = "files" /\ ~load_error
     /\ \A i \in DOMAIN chosen : chosen[i].rule \notin ToSet(all_rules) \cup {"EXAMPLE-001"}) =>
        \A i \in DOMAIN reports :
            tree[i].state = "ok" =>
                reports[i].findings = {f \in run_all(global_registry, tree[i].fns, request.spec,
                                                     request.disable).findings : f.rule # "EXAMPLE-001"}
                    \cup {f \in reports[i].findings : f.rule = "EXAMPLE-001"}

\* The findings of a file follow from its source: from the order of its statements,
\* and not from the files audited with it.
FindingsAreOfTheSource == ScanIsSourceOrder /\ SameAloneAndTogether

\* In every format an exit code of 0 under --fail-on means that no file has a
\* finding at or above the level, those of WASM plugins and of files that could
\* not be read included.
GateSeesEveryFinding ==
    (auditPc = "done" /\ exit = 0 /\ ~request.list /\ request.fail_on # "none") =>
        \A i \in DOMAIN reports : \A f \in reports[i].findings :
            /\ f.severity # "critical"
            /\ request.fail_on = "warning" => f.severity # "warning"
            /\ request.fail_on # "info"

\* "a method of a #[contractimpl] block that performs a recognized state write
\* or an external call and never calls require_auth() -> critical".
UnguardedTransferIsCritical ==
    \A i \in DOMAIN reports : \A f \in tree[i].fns :
        (/\ tree[i].state = "ok" /\ auditPc = "done" /\ request.disable = {}
         /\ f.name = "transfer" /\ is_entrypoint(f)
         /\ fn_scan(f).writes > 0 /\ fn_scan(f).auth = 0) =>
            Found("AUTH-004", "critical", f) \in reports[i].findings
=============================================================================
