------------------------------- MODULE Agent -------------------------------
(***************************************************************************)
(* sdkt-agent: a request in plain words is parsed (intent.rs), planned     *)
(* against the capability registry (plan.rs; sdkt-core registry.rs), run   *)
(* as a child process with a deadline (executor.rs) and answered           *)
(* (result.rs, main.rs).                                                   *)
(*                                                                         *)
(* A request is a sequence of tokens. A token has a kind by its shape, its *)
(* text, the words that its text adds for the choice of the capability,    *)
(* and for a .wasm path the role its name tells. A quoted text is one      *)
(* token and stands after a flag.                                          *)
(***************************************************************************)
EXTENDS Integers, Sequences, FiniteSets, SequencesExt

CONSTANTS Requests,  \* what the agent is asked
          Absent,     \* a value that is not there
          ExitCodes,  \* how the child may end; Absent is a signal
          to_ascii_lowercase(_)  \* a text with its capitals folded

\* No value is neither an exit code of 0, nor a refusal, nor a flag for the endpoint or an artifact.
ASSUME AbsentAssumption ==
    /\ Absent # 0
    /\ Absent \notin {"missing_argument", "ambiguous_roles", "--rpc-url", "--network-passphrase",
                      "--wasm", "--new-wasm", "--previous-wasm", "--old-wasm"}
\* A request is a sequence of tokens that have a text.
ASSUME RequestsAssumption ==
    \A r \in Requests : Len(r) \in Nat /\ r = [i \in 1..Len(r) |-> r[i]] /\ \A i \in 1..Len(r) : r[i].text # Absent

VARIABLES pc,       \* where the agent is
          request,  \* what it was asked
          planned,  \* the plan, or the refusal
          child,    \* the process: [state, code, output]
          heirs,    \* a process that the child started still has its pipes
          late,     \* the deadline has passed
          seen,     \* what the poll saw
          result    \* the answer

agentVars == <<pc, request, planned, child, heirs, late, seen, result>>

-----------------------------------------------------------------------------
\* The registry, for the capabilities a request can reach and their neighbours. Arguments
\* are in the order declared; positional ones are in angle brackets.

Cap(args, network, safety, verdict) ==
    [args |-> args, network |-> network, safety |-> safety, requires_confirmation |-> safety = "mutating",
     json |-> TRUE, pretty |-> TRUE, verdict_can_fail |-> verdict]
Net == <<"--rpc-url", "--network-passphrase">>

ArtifactCapabilities ==
    [wasm_inspect |-> Cap(<<"<file.wasm>", "--format">>, FALSE, "read_only", FALSE),
     wasm_metadata |-> Cap(<<"--contract">> \o Net \o <<"--network", "--network-profile", "--refresh", "--format">>,
                           TRUE, "read_only", FALSE),
     diff |-> Cap(<<"--old-wasm", "--new-wasm", "--format", "--upgrade-safety", "--max-size-bytes", "--max-growth-pct">>,
                  FALSE, "read_only", TRUE),
     diff_upgrade_safety |-> Cap(<<"--old-wasm", "--new-wasm", "--format">>, FALSE, "read_only", FALSE)]

AssuranceCapabilities ==
    [audit |-> Cap(<<"<paths..>", "--format", "--disable", "--rules", "--no-plugins", "--list-rules", "--fail-on">>,
                   FALSE, "read_only", FALSE),
     verify |-> Cap(<<"--contract">> \o Net \o <<"--wasm", "--network", "--network-profile", "--format", "--upgrade-safety">>,
                    TRUE, "read_only", TRUE),
     deployment_verify |-> Cap(<<"--contract", "--wasm", "--network">> \o Net \o <<"--network-profile", "--format">>,
                               TRUE, "read_only", TRUE),
     health |-> Cap(<<"--contract">> \o Net \o <<"--wasm", "--network", "--network-profile", "--format">>,
                    TRUE, "read_only", TRUE),
     inspect |-> Cap(<<"<contract-id>">> \o Net \o <<"--network-profile", "--format">>, TRUE, "read_only", FALSE),
     release_assurance |-> Cap(<<"--wasm">> \o Net \o <<"--previous-wasm", "--audit", "--disable", "--contract", "--network",
                                 "--max-size-bytes", "--max-growth-pct", "--format">>, TRUE, "read_only", TRUE)]

ChainCapabilities ==
    [storage_analyze |-> Cap(<<"<contract-id>">> \o Net \o <<"--key-xdr", "--map-key", "--key-arg", "--durability",
                               "--abi-contract", "--format">>, TRUE, "read_only", FALSE),
     events |-> Cap(<<"<contract-id>">> \o Net \o <<"--start-ledger", "--end-ledger", "--topic", "--abi", "--abi-contract",
                      "--format">>, TRUE, "read_only", FALSE),
     call |-> Cap(<<"<contract-id>", "<function>">> \o Net \o <<"--args", "--args-json", "--abi", "--abi-contract", "--format">>,
                  TRUE, "read_only", FALSE),
     account |-> Cap(<<"<address>">> \o Net \o <<"--network-profile", "--format">>, TRUE, "read_only", FALSE)]

LocalCapabilities ==
    [network_list |-> Cap(<<"--format">>, FALSE, "read_only", FALSE),
     network_show |-> Cap(<<"<name>", "--format">>, FALSE, "read_only", FALSE),
     network_check |-> Cap(<<"<name>", "--format">>, TRUE, "read_only", FALSE),
     network_diagnose |-> Cap(<<"--network">> \o Net \o <<"--network-profile", "--format">>, TRUE, "read_only", TRUE),
     doctor |-> Cap(<<"--format", "--json">>, FALSE, "read_only", FALSE),
     plugin_doctor |-> Cap(<<"<target>", "--all", "--format">>, FALSE, "read_only", FALSE)]

TxCapabilities ==
    [fee_estimate |-> Cap(Net \o <<"--network", "--base-fees", "--rpc", "--network-profile", "--format">>, TRUE, "read_only", FALSE),
     tx_decode |-> Cap(<<"<xdr|file>", "--format">>, FALSE, "read_only", FALSE),
     tx_validate |-> Cap(<<"--envelope", "--format">>, FALSE, "read_only", FALSE),
     tx_simulate |-> Cap(<<"--envelope">> \o Net \o <<"--abi", "--abi-contract", "--network-profile", "--format">>,
                         TRUE, "read_only", FALSE),
     project_status |-> Cap(Net \o <<"--format", "--network-profile">>, TRUE, "read_only", FALSE)]

MutatingCapabilities ==
    [deploy |-> Cap(<<"--wasm", "--arg", "--salt", "--wasm-hash", "--identity", "--network-profile", "--deny-breaking", "--format">>,
                    TRUE, "mutating", FALSE),
     invoke |-> Cap(<<"<contract-id>", "<function>", "--args", "--identity", "--build-only", "--network-profile", "--format">>,
                    TRUE, "mutating", FALSE),
     tx_sign |-> Cap(<<"--input", "--identity", "--network", "--output", "--network-profile", "--format">>, FALSE, "mutating", FALSE),
     tx_submit |-> Cap(<<"--envelope", "--wait", "--timeout", "--interval", "--network-profile", "--format">>, TRUE, "mutating", FALSE),
     storage_extend |-> Cap(<<"<contract-id>", "--ledgers", "--identity", "--network-profile", "--format">>, TRUE, "mutating", FALSE),
     storage_restore |-> Cap(<<"--envelope", "--dry-run", "--identity", "--network-profile", "--format">>, TRUE, "mutating", FALSE),
     project_deploy |-> Cap(<<"--identity", "--network-profile", "--format">>, TRUE, "mutating", FALSE),
     identity_fund |-> Cap(<<"<name>", "--format">>, TRUE, "mutating", FALSE)]

CAPABILITIES == {ArtifactCapabilities, AssuranceCapabilities, ChainCapabilities, LocalCapabilities, TxCapabilities,
                 MutatingCapabilities}

\* registry::find.
find(id) == (CHOOSE entries \in CAPABILITIES : id \in DOMAIN entries)[id]

-----------------------------------------------------------------------------
\* intent.rs.

\* Of each capability the sets of words that select it; the first that is there counts.
INTENT_KEYWORDS ==
    [deploy |-> <<{"deploy"}>>,
     invoke |-> <<{"invoke"}, {"call", "and", "send"}>>,
     tx_submit |-> <<{"submit", "transaction"}, {"submit", "tx"}>>,
     tx_sign |-> <<{"sign", "transaction"}, {"sign", "envelope"}>>,
     storage_extend |-> <<{"extend", "ttl"}, {"extend", "storage"}>>,
     storage_restore |-> <<{"restore", "storage"}, {"restore", "archived"}>>,
     project_deploy |-> <<{"deploy", "project"}>>,
     identity_fund |-> <<{"fund", "account"}, {"friendbot"}>>,
     release_assurance |-> <<{"release", "assurance"}, {"release", "check"}>>,
     diff_upgrade_safety |-> <<{"upgrade", "safety"}, {"safe", "to", "upgrade"}, {"breaking", "change"}>>,
     verify |-> <<{"verify"}>>,
     health |-> <<{"health"}>>,
     storage_analyze |-> <<{"storage", "analyze"}, {"storage", "layout"}>>,
     events |-> <<{"events"}>>,
     audit |-> <<{"audit"}, {"security", "scan"}>>,
     network_check |-> <<{"network", "check"}, {"network", "status"}>>,
     network_list |-> <<{"networks"}, {"network", "list"}>>,
     plugin_doctor |-> <<{"plugin", "doctor"}, {"plugin", "self-check"}>>,
     doctor |-> <<{"doctor"}, {"environment", "check"}>>,
     wasm_metadata |-> <<{"metadata"}>>,
     wasm_inspect |-> <<{"inspect", "wasm"}>>,
     inspect |-> <<{"inspect", "contract"}, {"inspect"}>>,
     call |-> <<{"call", "function"}, {"read", "function"}, {"invoke", "read"}, {"call", "on", "contract"}>>,
     diff |-> <<{"diff"}>>,
     project_status |-> <<{"project", "status"}, {"project", "deployment"}>>,
     fee_estimate |-> <<{"fee", "estimate"}, {"fee", "stats"}>>,
     tx_simulate |-> <<{"simulate", "transaction"}, {"simulate", "tx"}, {"simulate", "envelope"}, {"simulate"}>>]

CANDIDATE_MARKERS == {"candidate", "new", "current", "to"}
BASELINE_MARKERS == {"previous", "baseline", "old", "from"}
FUNCTION_STOP == {"call", "read", "invoke", "function", "on", "of", "the", "a", "an", "to", "for", "in", "with", "and", "contract",
                  "check", "show", "run", "please", "now", "right", "what", "list", "estimate", "simulate", "using", "from",
                  "previous", "candidate", "baseline"}

\* looks_like_value, and the words of --format: what a flag takes from the next token. A
\* blob of base64 does not look like a value, and neither does a word.
looks_like_value(t) == t.kind \in {"contract", "wasm", "rs", "xdr", "url", "typed", "number", "format"}

\* The value of the flag at i: in the token, quoted after it, or a token that looks like one.
FlagValue(req, i) ==
    IF req[i].value # Absent THEN req[i].value
    ELSE IF i < Len(req) /\ (req[i + 1].kind = "quoted" \/ looks_like_value(req[i + 1])) THEN req[i + 1].text ELSE Absent

NoArgs == [contract |-> Absent, wasm |-> Absent, previous_wasm |-> Absent, artifact_paths |-> {}, candidate_claims |-> {},
           baseline_claims |-> {}, source_path |-> Absent, function |-> Absent, profile |-> Absent, network |-> Absent,
           rpc_url |-> Absent, network_passphrase |-> Absent, envelope |-> Absent, typed_args |-> {}, use_rpc |-> FALSE,
           base_fees |-> Absent, explicit_flags |-> <<>>]

FirstOf(positions) == CHOOSE i \in positions : \A j \in positions : i <= j

flag_value(args, flag) ==
    LET flags == args.explicit_flags
        named == {i \in DOMAIN flags : flags[i].name = flag}
    IN IF named = {} THEN Absent ELSE flags[FirstOf(named)].value
has_flag(args, flag) == \E i \in DOMAIN args.explicit_flags : args.explicit_flags[i].name = flag
roles_claimed(args) == args.candidate_claims \cup args.baseline_claims # {}

eq_ignore_ascii_case(p, q) == to_ascii_lowercase(p) = to_ascii_lowercase(q)

\* A path with its claim: "candidate", "baseline" or none. A path that is there in other
\* capitals is not taken again; its claim counts as it is written.
push_path(args, path, claim) ==
    [args EXCEPT !.artifact_paths = @ \cup (IF \E p \in @ : eq_ignore_ascii_case(p, path) THEN {} ELSE {path}),
                 !.candidate_claims = @ \cup (IF claim = "candidate" THEN {path} ELSE {}),
                 !.baseline_claims = @ \cup (IF claim = "baseline" THEN {path} ELSE {})]

FlagRole(flag) == IF flag \in {"--wasm", "--new-wasm"} THEN "candidate"
                  ELSE IF flag \in {"--previous-wasm", "--old-wasm"} THEN "baseline" ELSE "none"

\* One token: a flag with its value, or a bare token by its kind. A marker word stays
\* pending until a path takes it. A typed argument is never recognised: its prefix is
\* compared without the colon with prefixes that have it.
TakeToken(req, st, i) ==
    LET t == req[i]
        v == FlagValue(req, i)
        First(old) == IF old = Absent THEN t.text ELSE old
    IN IF st.skip THEN [st EXCEPT !.skip = FALSE]
       ELSE CASE t.kind = "flag" ->
                   LET noted == [st EXCEPT !.args.explicit_flags = Append(@, [name |-> t.text, value |-> v]),
                                           !.skip = t.value = Absent /\ v # Absent]
                   IN IF FlagRole(t.text) = "none" \/ v = Absent THEN noted
                      ELSE [noted EXCEPT !.args = push_path(noted.args, v, FlagRole(t.text)), !.pending = "none"]
              [] t.kind = "contract" -> [st EXCEPT !.args.contract = t.text]
              [] t.kind = "wasm" ->
                   [st EXCEPT !.args = push_path(st.args, t.text, IF st.pending # "none" THEN st.pending ELSE t.role),
                              !.pending = "none"]
              [] t.kind = "rs" -> [st EXCEPT !.args.source_path = t.text]
              [] t.kind \in {"xdr", "blob"} -> [st EXCEPT !.args.envelope = First(@)]
              [] t.kind = "url" -> [st EXCEPT !.args.rpc_url = First(@)]
              [] t.kind = "word" /\ t.text \in {"testnet", "mainnet", "futurenet"} -> [st EXCEPT !.args.network = t.text]
              [] t.kind = "word" /\ t.text \in BASELINE_MARKERS -> [st EXCEPT !.pending = "baseline"]
              [] t.kind = "word" /\ t.text \in CANDIDATE_MARKERS -> [st EXCEPT !.pending = "candidate"]
              [] OTHER -> st

\* A single path is the candidate. Two go by their claims, the one that has none takes the
\* other role; of more, one claim of each role counts.
\* Mutant: two paths are taken in the order of their names.
assign_artifact_roles_by_order(args) ==
    LET first == CHOOSE p \in args.artifact_paths : TRUE
    IN CASE Cardinality(args.artifact_paths) = 1 -> [args EXCEPT !.wasm = first]
         [] Cardinality(args.artifact_paths) = 2 ->
              [args EXCEPT !.previous_wasm = first, !.wasm = CHOOSE p \in args.artifact_paths : p # first]
         [] OTHER -> args

other_path(paths, claimed) == CHOOSE p \in paths : ~eq_ignore_ascii_case(p, claimed)

assign_artifact_roles(args) ==
    LET paths == args.artifact_paths  c == args.candidate_claims  b == args.baseline_claims
        TheOne(s) == CHOOSE p \in s : TRUE
        Roles(new, old) == [args EXCEPT !.wasm = new, !.previous_wasm = old]
    IN CASE Cardinality(paths) = 1 -> [args EXCEPT !.wasm = TheOne(paths)]
         [] Cardinality(paths) >= 2 /\ Cardinality(c) = 1 /\ Cardinality(b) = 1 /\ c # b -> Roles(TheOne(c), TheOne(b))
         [] Cardinality(paths) = 2 /\ Cardinality(c) = 1 /\ b = {} -> Roles(TheOne(c), other_path(paths, TheOne(c)))
         [] Cardinality(paths) = 2 /\ Cardinality(b) = 1 /\ c = {} -> Roles(other_path(paths, TheOne(b)), TheOne(b))
         [] OTHER -> args

\* The token next to position i, when it may be the name of a function.
FunctionAt(req, i) ==
    IF i \in DOMAIN req /\ req[i].kind = "word" /\ req[i].text \notin FUNCTION_STOP THEN req[i].text ELSE Absent
PositionOf(req, word) ==
    LET at == {i \in DOMAIN req : req[i].kind = "word" /\ req[i].text = word}
    IN IF at = {} THEN 0 ELSE FirstOf(at)

extract_function(req) ==
    LET f == PositionOf(req, "function")
        c == PositionOf(req, "call")
    IN IF f > 0 /\ FunctionAt(req, f - 1) # Absent THEN FunctionAt(req, f - 1)
       ELSE IF f > 0 /\ FunctionAt(req, f + 1) # Absent THEN FunctionAt(req, f + 1)
       ELSE IF c > 0 THEN FunctionAt(req, c + 1) ELSE Absent

\* The token after the word profile, unless it is a flag.
extract_profile(req) ==
    LET p == PositionOf(req, "profile")
    IN IF p = 0 \/ p = Len(req) \/ (p < Len(req) /\ req[p + 1].kind = "flag") THEN Absent ELSE req[p + 1].text

extract_args(req) ==
    LET state[i \in 0..Len(req)] == IF i = 0 THEN [args |-> NoArgs, pending |-> "none", skip |-> FALSE]
                                    ELSE TakeToken(req, state[i - 1], i)
        taken == state[Len(req)].args
        Carried(flag, old) == IF flag_value(taken, flag) = Absent THEN old ELSE flag_value(taken, flag)
    IN [assign_artifact_roles(taken) EXCEPT
          !.base_fees = flag_value(taken, "--base-fees"),
          !.use_rpc = has_flag(taken, "--rpc") \/ PositionOf(req, "rpc") > 0,
          !.rpc_url = Carried("--rpc-url", @),
          !.network_passphrase = flag_value(taken, "--network-passphrase"),
          !.envelope = Carried("--envelope", @),
          !.typed_args = {f.value : f \in {g \in ToSet(taken.explicit_flags) : g.name = "--args" /\ g.value # Absent}},
          !.profile = extract_profile(req),
          !.function = extract_function(req)]

\* What a capability cannot do without; Absent is nothing.
validate_args(id, args) ==
    LET two == Cardinality(args.artifact_paths)
    IN CASE id \in {"inspect", "health", "verify", "wasm_metadata", "storage_analyze", "events", "call"} /\ args.contract = Absent
              -> "missing_argument"
         [] id = "verify" /\ args.wasm = Absent -> "missing_argument"
         [] id \in {"diff", "diff_upgrade_safety"} /\ (args.wasm = Absent \/ args.previous_wasm = Absent) ->
              IF args.previous_wasm = Absent /\ two = 2 /\ ~roles_claimed(args) THEN "ambiguous_roles" ELSE "missing_argument"
         [] id = "audit" /\ args.source_path = Absent -> "missing_argument"
         [] id = "release_assurance" /\ args.wasm = Absent ->
              IF two > 1 /\ ~roles_claimed(args) THEN "ambiguous_roles" ELSE "missing_argument"
         [] id = "call" /\ args.function = Absent -> "missing_argument"
         [] id = "fee_estimate" /\ args.base_fees = Absent /\ ~args.use_rpc /\ args.rpc_url = Absent -> "missing_argument"
         [] id = "tx_simulate" /\ args.envelope = Absent -> "missing_argument"
         [] id = "network_check" /\ args.profile = Absent -> "missing_argument"
         [] OTHER -> Absent

is_mutating(id) == find(id).safety = "mutating"

\* The keywords of a capability that are all there, the first set of them.
Keywords(id, words) ==
    LET there == SelectSeq(INTENT_KEYWORDS[id], LAMBDA s : s \subseteq words)
    IN IF there = <<>> THEN {} ELSE Head(there)

\* A capability whose keywords another one has and more is dropped; one for reading wins
\* over those that change something.
parse(req) ==
    LET words == UNION {req[i].words : i \in DOMAIN req}
        hit == [id \in {d \in DOMAIN INTENT_KEYWORDS : Keywords(d, words) # {}} |-> Keywords(id, words)]
        matched == {id \in DOMAIN hit : ~ \E other \in DOMAIN hit : hit[id] \subseteq hit[other] /\ hit[id] # hit[other]}
        readonly == {id \in matched : ~is_mutating(id)}
        The(s) == CHOOSE id \in s : TRUE
        args == extract_args(req)
        Error(code) == [ok |-> FALSE, code |-> code, id |-> Absent, args |-> NoArgs]
    IN CASE matched = {} -> Error("unrecognised")
         [] Cardinality(readonly) > 1 -> Error("ambiguous")
         [] Cardinality(readonly) = 1 ->
              IF validate_args(The(readonly), args) # Absent THEN Error(validate_args(The(readonly), args))
              ELSE [ok |-> TRUE, code |-> Absent, id |-> The(readonly), args |-> args]
         [] Cardinality(matched) = 1 -> Error("mutation")
         [] OTHER -> Error("ambiguous")

-----------------------------------------------------------------------------
\* plan.rs.

BASELINE_FLAGS == <<"--previous-wasm", "--old-wasm">>
CANDIDATE_FLAGS == <<"--wasm", "--new-wasm">>
PLANNER_MANAGED_FLAGS == {"--rpc-url", "--network-passphrase", "--format", "--wasm", "--previous-wasm", "--old-wasm", "--new-wasm",
                          "--envelope", "--args", "--base-fees", "--rpc"}
TESTNET_RPC == "url:testnet"
TESTNET_PASSPHRASE == "passphrase:testnet"

declares_arg(cap, flag) == \E i \in DOMAIN cap.args : cap.args[i] = flag

\* A declared flag that contains this one will do.
flag_for(cap, flag) ==
    \/ declares_arg(cap, flag)
    \/ flag = "--rpc" /\ declares_arg(cap, "--rpc-url")
    \/ flag = "--args" /\ declares_arg(cap, "--args-json")

flag_for_any(cap, flags) ==
    LET declared == {i \in DOMAIN flags : declares_arg(cap, flags[i])}
    IN IF declared = {} THEN Absent ELSE flags[FirstOf(declared)]
arg_position(cap, flag) == IF declares_arg(cap, flag) THEN CHOOSE i \in DOMAIN cap.args : cap.args[i] = flag ELSE 99

artifact_capacity(cap) ==
    IF flag_for_any(cap, BASELINE_FLAGS) # Absent THEN 2
    ELSE IF flag_for_any(cap, CANDIDATE_FLAGS) # Absent \/ declares_arg(cap, "<file.wasm>") THEN 1 ELSE 0

\* The refusals before anything is built, in their order.
ArgumentGate(cap, args) ==
    <<[bad |-> Cardinality(args.artifact_paths) > artifact_capacity(cap), code |-> "unsupported_argument"],
      [bad |-> \E i \in DOMAIN args.explicit_flags :
                  LET f == args.explicit_flags[i].name
                  IN ~(f \in PLANNER_MANAGED_FLAGS /\ flag_for(cap, f)) /\ ~declares_arg(cap, f),
       code |-> "unsupported_argument"]>>

\* Mutant: an endpoint of the request's own goes with the passphrase of testnet.
NetworkGate_any_endpoint(cap, args) ==
    <<[bad |-> cap.network /\ args.network \notin {Absent, "testnet"}, code |-> "refused_network"],
      [bad |-> args.rpc_url # Absent /\ ~(cap.network /\ flag_for(cap, "--rpc-url")), code |-> "unsupported_argument"]>>

NetworkGate(cap, args) ==
    <<[bad |-> cap.network /\ args.network \notin {Absent, "testnet"}, code |-> "refused_network"],
      [bad |-> args.rpc_url # Absent /\ ~(cap.network /\ flag_for(cap, "--rpc-url")), code |-> "unsupported_argument"],
      [bad |-> args.network_passphrase # Absent /\ ~(cap.network /\ flag_for(cap, "--network-passphrase")),
       code |-> "unsupported_argument"],
      [bad |-> /\ cap.network /\ flag_for(cap, "--rpc-url") /\ args.rpc_url \notin {Absent, TESTNET_RPC}
               /\ args.network_passphrase = Absent,
       code |-> "missing_argument"]>>

\* The flags that go into the command as they are.
PassThrough(args) ==
    LET flags == args.explicit_flags
        rest[i \in 0..Len(flags)] == IF i = 0 THEN <<>>
                                     ELSE IF flags[i].name \in PLANNER_MANAGED_FLAGS THEN rest[i - 1]
                                     ELSE Append(rest[i - 1], flags[i])
    IN rest[Len(flags)]
LiveFee(id, args) == id = "fee_estimate" /\ args.rpc_url # Absent /\ args.base_fees = Absent

\* The refusals on the way, in their order.
BuildGate(id, cap, args) ==
    LET pass == PassThrough(args)
    IN <<[bad |-> \E i \in DOMAIN pass : pass[i].value = Absent, code |-> "missing_argument"],
         [bad |-> args.previous_wasm # Absent /\ flag_for_any(cap, BASELINE_FLAGS) = Absent, code |-> "unmappable_argument"],
         [bad |-> args.envelope # Absent /\ ~flag_for(cap, "--envelope"), code |-> "unmappable_argument"],
         [bad |-> args.typed_args # {} /\ ~flag_for(cap, "--args"), code |-> "unmappable_argument"],
         [bad |-> args.base_fees # Absent /\ ~flag_for(cap, "--base-fees"), code |-> "unmappable_argument"],
         [bad |-> (args.use_rpc \/ LiveFee(id, args)) /\ ~flag_for(cap, "--rpc"), code |-> "unmappable_argument"],
         [bad |-> has_flag(args, "--format") /\ flag_value(args, "--format") \notin {"json", "pretty"},
          code |-> "unsupported_argument"]>>

Word(flag, value) == [flag |-> flag, value |-> value]
Given(flag, value) == IF value = Absent THEN <<>> ELSE <<Word(flag, value)>>

\* The artifacts, in the order the registry declares their flags.
ArtifactWords(cap, args) ==
    LET old == Given(flag_for_any(cap, BASELINE_FLAGS), args.previous_wasm)
        new == Given(flag_for_any(cap, CANDIDATE_FLAGS), args.wasm)
        At(words) == IF words[1].flag = Absent THEN arg_position(cap, "<file.wasm>") ELSE arg_position(cap, words[1].flag)
    IN IF old # <<>> /\ new # <<>> /\ At(new) < At(old) THEN new \o old ELSE old \o new

\* The endpoint: testnet unless the request named one; none for fees from samples.
EndpointWords(id, cap, args) ==
    IF cap.network /\ flag_for(cap, "--rpc-url") /\ ~(id = "fee_estimate" /\ args.base_fees # Absent /\ ~args.use_rpc)
    THEN <<Word("--rpc-url", IF args.rpc_url = Absent THEN TESTNET_RPC ELSE args.rpc_url),
           Word("--network-passphrase", IF args.network_passphrase = Absent THEN TESTNET_PASSPHRASE ELSE args.network_passphrase)>>
    ELSE <<>>

\* The words after the command.
ArgvWords(id, cap, args) ==
    LET pass == PassThrough(args)
    IN [i \in DOMAIN pass |-> Word(pass[i].name, pass[i].value)]
       \o Given(IF flag_for(cap, "--contract") THEN "--contract" ELSE Absent, args.contract)
       \o ArtifactWords(cap, args)
       \o Given(Absent, args.source_path) \o Given(Absent, args.function) \o Given(Absent, args.profile)
       \o Given("--envelope", args.envelope)
       \o [i \in 1..Cardinality(args.typed_args) |-> Word("--args", SetToSeq(args.typed_args)[i])]
       \o Given("--base-fees", args.base_fees)
       \o (IF args.use_rpc \/ LiveFee(id, args) THEN <<Word("--rpc", Absent)>> ELSE <<>>)
       \o EndpointWords(id, cap, args)
       \o (IF cap.json /\ flag_value(args, "--format") # "pretty" THEN <<Word("--format", "json")>> ELSE <<>>)

Refuse(code) == [run |-> FALSE, code |-> code, id |-> Absent, argv |-> <<>>]

build_argv(id, args) ==
    LET cap == find(id)
        gates == ArgumentGate(cap, args) \o (NetworkGate(cap, args) \o BuildGate(id, cap, args))
        failed == {i \in DOMAIN gates : gates[i].bad}
    IN IF failed # {} THEN Refuse(gates[FirstOf(failed)].code)
       ELSE [run |-> TRUE, code |-> Absent, id |-> id, argv |-> ArgvWords(id, cap, args)]

plan_intent(intent) ==
    IF find(intent.id).safety # "read_only" \/ find(intent.id).requires_confirmation THEN Refuse("blocked_unsafe")
    ELSE build_argv(intent.id, intent.args)

plan(req) ==
    LET intent == parse(req)
    IN IF intent.ok THEN plan_intent(intent)
       ELSE Refuse(IF intent.code = "mutation" THEN "blocked_unsafe" ELSE intent.code)

-----------------------------------------------------------------------------
\* executor.rs and result.rs.

NoChild == [state |-> "none", code |-> Absent, json |-> FALSE]
NoResult == [status |-> "none", code |-> Absent, executed |-> FALSE, timed_out |-> FALSE, json |-> FALSE, told |-> "none", exit |-> 0]
NoRun == [run |-> FALSE, code |-> Absent, id |-> Absent, argv |-> <<>>]

refused(code) ==
    [NoResult EXCEPT !.status = IF code \in {"blocked_unsafe", "refused_network"} THEN "blocked" ELSE "needs_clarification",
                     !.told = code, !.exit = 1]

explain(id, raw, json) ==
    IF raw.spawn_failed THEN "not_started"
    ELSE IF raw.timed_out THEN "timeout"
    ELSE IF raw.code = Absent THEN "did_not_complete"
    ELSE IF raw.code = 0 THEN IF json THEN "structured" ELSE "completed"
    ELSE IF raw.code = 2 THEN "usage_error"
    ELSE IF find(id).verdict_can_fail THEN IF json THEN "verdict" ELSE "verdict_without_report"
    ELSE "failed"

\* Mutant: a run without an exit code did not fail.
from_execution_lenient(id, raw) ==
    [status |-> IF raw.code \in {0, Absent} THEN "success" ELSE "failed", code |-> raw.code,
     executed |-> raw.code # Absent \/ raw.timed_out, timed_out |-> raw.timed_out, json |-> raw.json,
     told |-> "none", exit |-> IF raw.code \in {0, Absent} THEN 0 ELSE 1]

from_execution(id, raw) ==
    LET json == find(id).json /\ ~raw.timed_out /\ ~raw.spawn_failed /\ raw.json
    IN [status |-> IF raw.code = 0 THEN "success" ELSE "failed", code |-> raw.code,
        executed |-> raw.code # Absent \/ raw.timed_out, timed_out |-> raw.timed_out, json |-> json,
        told |-> explain(id, raw, json), exit |-> IF raw.code = 0 THEN 0 ELSE 1]

AskAgent(req) ==
    /\ pc = "idle"
    /\ request' = req
    /\ planned' = plan(req)
    /\ IF planned'.run THEN pc' = "spawn" /\ UNCHANGED result
       ELSE pc' = "answered" /\ result' = refused(planned'.code)
    /\ UNCHANGED <<child, heirs, late, seen>>

Spawn ==
    /\ pc = "spawn"
    /\ \/ child' = [NoChild EXCEPT !.state = "running"] /\ pc' = "poll" /\ UNCHANGED result
       \/ /\ result' = from_execution(planned.id, [code |-> Absent, timed_out |-> FALSE, spawn_failed |-> TRUE, json |-> FALSE])
          /\ pc' = "answered" /\ UNCHANGED child
    /\ UNCHANGED <<request, planned, heirs, late, seen>>

\* try_wait: what it saw decides, whatever the child does next.
Poll ==
    /\ pc = "poll"
    /\ \/ seen' = child.state /\ pc' = "decide" /\ UNCHANGED <<child, result>>
       \/ /\ seen' = "error" /\ child' = [child EXCEPT !.state = "killed"] /\ pc' = "answered"
          /\ result' = from_execution(planned.id, [code |-> Absent, timed_out |-> FALSE, spawn_failed |-> TRUE, json |-> FALSE])
    /\ UNCHANGED <<request, planned, heirs, late>>

\* Mutant: the deadline is only looked at when the child is done.
Decide_without_deadline ==
    /\ pc = "decide"
    /\ pc' = IF seen = "running" THEN "poll" ELSE "join"
    /\ UNCHANGED <<request, planned, child, heirs, late, seen, result>>

\* A child that ran when it was looked at is killed after the deadline, or polled again.
Decide ==
    /\ pc = "decide"
    /\ IF seen # "running" THEN pc' = "join" /\ UNCHANGED <<child, seen>>
       ELSE IF late THEN /\ pc' = "join" /\ seen' = "timeout"
                         /\ child' = IF child.state = "running" THEN [child EXCEPT !.state = "killed"] ELSE child
       ELSE pc' = "poll" /\ UNCHANGED <<child, seen>>
    /\ UNCHANGED <<request, planned, heirs, late, result>>

\* Both readers read to the end of their pipe, which the child and each process that
\* inherited it hold open. The kill reaches the child alone.
Join ==
    /\ pc = "join" /\ child.state # "running" /\ ~heirs
    /\ pc' = "answered"
    /\ result' = from_execution(planned.id, [code |-> IF seen = "timeout" THEN Absent ELSE child.code, timed_out |-> seen = "timeout",
                                             spawn_failed |-> FALSE, json |-> child.json])
    /\ UNCHANGED <<request, planned, child, heirs, late, seen>>

ChildExits(code, json) ==
    /\ child.state = "running"
    /\ child' = [state |-> "exited", code |-> code, json |-> json]
    /\ UNCHANGED <<pc, request, planned, heirs, late, seen, result>>

\* The child starts a process that inherits its pipes and may outlive it.
ChildForks ==
    /\ child.state = "running" /\ ~heirs
    /\ heirs' = TRUE
    /\ UNCHANGED <<pc, request, planned, child, late, seen, result>>

\* The last of them ends; what it wrote is in the output too.
HeirEnds(json) ==
    /\ heirs /\ heirs' = FALSE
    /\ child' = [child EXCEPT !.json = json]
    /\ UNCHANGED <<pc, request, planned, late, seen, result>>

DeadlinePasses ==
    /\ child.state # "none" /\ ~late /\ pc # "answered"
    /\ late' = TRUE
    /\ UNCHANGED <<pc, request, planned, child, heirs, seen, result>>

AgentInit ==
    /\ pc = "idle" /\ request = <<>> /\ planned = NoRun /\ child = NoChild /\ heirs = FALSE
    /\ late = FALSE /\ seen = "nothing" /\ result = NoResult

AgentNext ==
    \/ pc = "idle" /\ \E req \in Requests : AskAgent(req)
    \/ Spawn \/ Poll \/ Decide \/ Join \/ DeadlinePasses \/ ChildForks
    \/ \E json \in BOOLEAN : HeirEnds(json) \/ \E code \in ExitCodes : ChildExits(code, json)

AgentSpec == AgentInit /\ [][AgentNext]_agentVars

\* Time passes and the agent's own thread runs; the child and its heirs owe nothing.
AgentFairness == WF_agentVars(Spawn \/ Poll \/ Decide \/ Join) /\ WF_agentVars(DeadlinePasses)

-----------------------------------------------------------------------------
ValuesOf(flag) == {planned.argv[i].value : i \in {j \in DOMAIN planned.argv : planned.argv[j].flag = flag}}
Texts(kind) == {request[i].text : i \in {j \in DOMAIN request : request[j].kind = kind}}
Spelled(flag) ==
    {FlagValue(request, i) : i \in {j \in DOMAIN request : request[j].kind = "flag" /\ request[j].text = flag}}

\* The check of a saved profile takes no endpoint: it is given the name that the request
\* has after the word profile.
ChecksNamedProfile ==
    /\ planned.id = "network_check" /\ ValuesOf("--rpc-url") \cup ValuesOf("--network-passphrase") = {}
    /\ \E i \in 2 .. Len(request) : /\ request[i - 1].kind = "word" /\ request[i - 1].text = "profile"
                                   /\ request[i].text \in ValuesOf(Absent)

(* What the agent runs changes nothing. If it asks a network it has an endpoint of its own:
   that of testnet, or one that the request spelled out, under a passphrase that the
   request spelled out too. Only fees from the samples of the request go without one, and
   the check of a saved profile, which is given that profile's name in the request and
   never an endpoint (plan_intent, build_argv). *)
ReadOnlyAndPinned ==
    pc = "spawn" =>
       /\ find(planned.id).safety = "read_only"
       /\ \A url \in ValuesOf("--rpc-url") \ {TESTNET_RPC} :
             /\ url \in Texts("url") \cup Spelled("--rpc-url")
             /\ ValuesOf("--network-passphrase") \subseteq Spelled("--network-passphrase")
       /\ find(planned.id).network =>
             \/ planned.id # "network_check" /\ ValuesOf("--rpc-url") # {}
             \/ planned.id = "fee_estimate" /\ ValuesOf("--base-fees") # {}
             \/ ChecksNamedProfile

\* The artifact that the token at i names, if it does: a flag for artifacts with its value,
\* or a path that is not itself the value of the flag before it.
IsValue(req, i) ==
    i > 1 /\ req[i - 1].kind = "flag" /\ req[i - 1].value = Absent /\ FlagValue(req, i - 1) # Absent
ArtifactAt(req, i) ==
    (IF req[i].kind = "flag" /\ FlagRole(req[i].text) # "none" THEN {FlagValue(req, i)}
     ELSE IF req[i].kind = "wasm" /\ ~IsValue(req, i) THEN {req[i].text} ELSE {}) \ {Absent}

\* The role that the flag itself or the word directly before the path gives it.
MarkedRole(req, i) ==
    IF req[i].kind = "flag" THEN FlagRole(req[i].text)
    ELSE IF i = 1 \/ req[i - 1].kind # "word" THEN "none"
    ELSE IF req[i - 1].text \in BASELINE_MARKERS THEN "baseline"
    ELSE IF req[i - 1].text \in CANDIDATE_MARKERS THEN "candidate" ELSE "none"

Artifacts(req) == UNION {ArtifactAt(req, i) : i \in DOMAIN req}
Marked(req, role) == UNION {ArtifactAt(req, i) : i \in {j \in DOMAIN req : MarkedRole(req, j) = role}}
Under(flags) == UNION {ValuesOf(flags[i]) : i \in DOMAIN flags}

RolesOfTwo ==
    Cardinality(Artifacts(request)) = 2 =>
       /\ Artifacts(request) = Under(CANDIDATE_FLAGS) \cup Under(BASELINE_FLAGS)
       /\ Under(CANDIDATE_FLAGS) \cap Under(BASELINE_FLAGS) = {}
       /\ Marked(request, "candidate") \subseteq Under(CANDIDATE_FLAGS)
       /\ Marked(request, "baseline") \subseteq Under(BASELINE_FLAGS)

\* Artifacts whose names differ in more than their capitals.
ApartIgnoringCase(paths) == \A p, q \in paths : eq_ignore_ascii_case(p, q) => p = q

(* An upgrade is never compared backwards: of two artifacts the request named, whose names
   differ in more than capitals, one is in the command as the candidate and the other as
   the baseline, and one that a flag or the word directly before it marks is not handed
   over as the other (TakeToken, push_path, assign_artifact_roles, ArgumentGate,
   ArtifactWords). *)
RolesAreKept == pc = "spawn" /\ ApartIgnoringCase(Artifacts(request)) => RolesOfTwo

(* No run checks this: also names that differ in capitals alone are two artifacts. The agent
   takes the second for the first, written again, and hands the first one over as the
   candidate, the baseline that it was marked as or not. *)
CaseKeepsRoles == pc = "spawn" => RolesOfTwo

(* Success is said exactly of a command that ended by itself with exit code 0 and was seen
   to before the agent gave it up; a request that was refused ran nothing; a timeout is
   only said after the deadline; a verdict is only said to have failed of a command that
   ended with an exit code (Executor::run, from_execution, explain). *)
AnswerMatchesRun ==
    pc = "answered" =>
       /\ result.status = "success" <=> child.state = "exited" /\ child.code = 0 /\ ~result.timed_out /\ seen # "error"
       /\ ~planned.run <=> result.status \in {"blocked", "needs_clarification"}
       /\ ~planned.run => child.state = "none"
       /\ result.timed_out => late
       /\ result.executed => child.state # "none"
       /\ result.told \in {"verdict", "verdict_without_report"} => child.state = "exited" /\ child.code # Absent
       /\ child.state # "running"

(* Every request is answered, though the command may never end: it is killed after the
   deadline, and the agent waits for nothing else but the processes that inherited the
   pipes of the command (Executor::run, join_reader). *)
AgentAnswers == <>[]~heirs => (pc # "idle" ~> pc = "answered")

(* No run checks this: every request is answered, whatever the command leaves behind. One
   process of its own that keeps the pipes open keeps the agent waiting, also after the
   timeout that killed the command. *)
AgentAlwaysAnswers == pc # "idle" ~> pc = "answered"

(* Every value the request gives is in the command that is run (plan.rs). *)
NothingIsDropped ==
    pc = "spawn" => \A i \in DOMAIN request :
       request[i].kind \in {"contract", "wasm", "rs", "xdr", "blob", "url", "typed", "quoted"} =>
          \E j \in DOMAIN planned.argv : planned.argv[j].value = request[i].text
=============================================================================
