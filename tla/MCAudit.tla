------------------------------ MODULE MCAudit ------------------------------
(* Instances of PluginStore and Audit.                                      *)
EXTENDS PluginStore, Audit

MCKeys == {"k1"}
MCIds == {<<"a", ".">>, <<"a", "_">>}
Artifact(name, ext, nested) == [file |-> name, ext |-> ext, nested |-> nested, safe |-> TRUE]
Binary(abi, init, check) == [abi |-> abi, exports |-> TRUE, init |-> init, check |-> check]
Source(id, kind, artifact, abi, file, ext) ==
    [meta |-> [id |-> id, kind |-> kind, artifact |-> artifact, abi |-> abi], file |-> file, ext |-> ext]
MCSources ==
    {Source(<<"a", ".">>, "wasm", Artifact("one", "wasm", FALSE), 1, Binary(1, TRUE, "ok"), "wasm"),
     Source(<<"a", "_">>, "native", Artifact("two", "so", FALSE), 1, Binary(1, TRUE, "ok"), "so"),
     Source(<<"a", ".">>, "wasm", Artifact("deep", "wasm", TRUE), 1, Binary(1, TRUE, "ok"), "wasm"),
     Source(<<"a", ".">>, "wasm", Artifact("one", "wasm", FALSE), 1, Binary(2, TRUE, "trap"), "wasm")}
MCBuilds == {{"wasm"}, {"native", "wasm"}}
MCCircumstances == {[faults |-> TRUE, overlap |-> FALSE], [faults |-> FALSE, overlap |-> TRUE]}
MCProcs == {"p", "q"}

Fn(name, owner, returns, body) == [name |-> name, owner |-> owner, returns |-> returns, body |-> body]
File(fns) == [state |-> "ok", fns |-> fns]
Bad(state) == [state |-> state, fns |-> {}]
Sample == File({Fn("mint", "contract", FALSE, <<"write">>), Fn("transfer", "contract", TRUE, <<"write">>),
                Fn("withdraw", "free", FALSE, <<"call", "write">>), Fn("trigger", "plain", TRUE, <<>>)})
Mild == File({Fn("init", "plain", TRUE, <<"auth">>), Fn("view", "contract", TRUE, <<"let", "use", "use">>)})
Quiet == File({Fn("view", "contract", TRUE, <<>>)})
Samples == {Sample, Mild, Quiet, Bad("unreadable"), Bad("unparsable")}
BodyTrees == {<<File({Fn("view", "free", TRUE, b)})>> : b \in UNION {[1..n -> Tokens] : n \in 0..4}}
CommandTrees == {<<>>} \cup {<<s>> : s \in Samples} \cup {<<s, t>> : s \in {Sample, Quiet, Mild}, t \in Samples}
MCTrees == BodyTrees \cup CommandTrees

Plugin(rule, kind, load, check) ==
    [rule |-> rule, kind |-> kind, load |-> load, check |-> check, severity |-> "critical",
     abi |-> TRUE, there |-> TRUE, ext |-> TRUE]
Own == Plugin("P-1", "wasm", "ok", "hit")
Shadow == Plugin("AUTH-001", "native", "ok", "none")
Broken == Plugin("P-2", "native", "error", "none")
Failing == Plugin("P-3", "native", "ok", "fail")
Lost == [Plugin("P-4", "wasm", "ok", "hit") EXCEPT !.there = FALSE]
Old == Plugin("P-5", "wasm", "abi", "hit")
MCInstalled == {<<>>, <<Own, Old, Lost>>, <<Shadow, Failing>>, <<Broken>>}

NoSpec == [kind |-> "none", exported |-> {}]
Request(path, format, list, fail_on, disable, rules, spec) ==
    [path |-> path, format |-> format, list |-> list, fail_on |-> fail_on, disable |-> disable,
     rules |-> rules, no_plugins |-> FALSE, spec |-> spec]
Plain == Request("file", "pretty", FALSE, "none", {}, <<>>, NoSpec)
MCRequests ==
    {Request(path, format, FALSE, fail_on, {}, <<>>, NoSpec) :
        path \in {"file", "dir"}, format \in {"pretty", "sarif"}, fail_on \in {"none", "critical", "warning", "info"}}
    \cup {[Plain EXCEPT !.list = list, !.rules = rules, !.path = "dir"] :
        list \in BOOLEAN, rules \in {<<Own>>, <<Lost>>, <<Shadow, Own>>, <<Broken>>}}
    \cup {[Plain EXCEPT !.format = "bogus"], [Plain EXCEPT !.fail_on = "bogus"],
          [Plain EXCEPT !.format = "sarif", !.list = TRUE], [Plain EXCEPT !.disable = {"MOVE-001"}],
          [Plain EXCEPT !.no_plugins = TRUE], [Plain EXCEPT !.spec = [kind |-> "both", exported |-> {}]],
          [Plain EXCEPT !.spec = [kind |-> "unreadable", exported |-> {}]],
          [Plain EXCEPT !.spec = [kind |-> "given", exported |-> {"init"}]]}

AuditAtRest ==
    /\ tree = <<>> /\ installed = <<>> /\ request = Plain /\ features = {}
    /\ auditPc = "done" /\ chosen = <<>> /\ registry = <<>> /\ infos = {}
    /\ reports = <<>> /\ fileErrors = FALSE /\ exit = 0
StoreAtRest ==
    /\ setting = [faults |-> FALSE, overlap |-> FALSE] /\ build = {"wasm"}
    /\ store = [d \in Dirs |-> NoDir] /\ job = [p \in Procs |-> Idle] /\ linked = {}
    /\ bundle = NoBundle /\ said = [p \in Procs |-> "nothing"] /\ half = {} /\ commands = 0

AuditStart ==
    /\ \/ tree \in BodyTrees /\ request = Plain /\ installed = <<>> /\ features = {"wasm"}
       \/ tree \in CommandTrees
    /\ AuditInit
=============================================================================
