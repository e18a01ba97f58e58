----------------------------- MODULE MCTxTools -----------------------------
(* Instances of TxTools with Networks, and of Values: a behaviour is of one *)
(* of the two.                                                              *)
EXTENDS TxTools, MCValues, TLC

VARIABLE part

MCLowerOf == [p \in {"Standalone", "standalone"} |-> "standalone"]

TestUrl == Url(Test, {"stellar.org", "testnet"})
FutureUrl == Url(Future, {"stellar.org", "futurenet"})
PublicUrl == Url(Public, {"stellar.org"})
MirrorUrl == Url(Public, {})                    \* a provider's mainnet endpoint
LocalUrl == Url("Standalone", {})
Network(url, passphrase) == [rpc_url |-> url, passphrase |-> passphrase]

MCProfiles == {Network(MirrorUrl, Public), Network(NoVal, Test)}
DotFile(n) == [state |-> "ok", network |-> n]
MCDotFiles == {[state |-> "absent", network |-> NoVal], [state |-> "malformed", network |-> NoVal]}
              \cup {DotFile(Network(MirrorUrl, Public)), DotFile(Network(MirrorUrl, Test)), DotFile(Network(PublicUrl, Test))}
Flag(url, passphrase, profile) == [rpc_url |-> url, passphrase |-> passphrase, profile |-> profile]
NoFlags == Flag(NoVal, NoVal, NoVal)
MCFlags == {NoFlags, Flag(MirrorUrl, NoVal, NoVal), Flag(MirrorUrl, Public, NoVal), Flag(LocalUrl, "Standalone", NoVal),
            Flag(NoVal, NoVal, "prod"), Flag(NoVal, Public, NoVal)}

MCIdentities == [i \in {"default", "bob"} |-> IF i = "bob" THEN "B" ELSE "A"]
Build(source, sequence, fee, memo, memo_id, args, flags) ==
    [source |-> source, sequence |-> sequence, fee |-> fee, memo_text |-> memo, memo_id |-> memo_id, contract |-> "C",
     args |-> args, flags |-> flags]
MCBuildRequests ==
    {Build("default", s, NoVal, NoVal, FALSE, "good", f) : s \in {NoVal, 1}, f \in MCFlags}
    \cup {Build("default", NoVal, 200, NoVal, FALSE, "good", f) : f \in {NoFlags, Flag(NoVal, NoVal, "prod")}}
    \cup {Build("nobody", s, NoVal, NoVal, FALSE, "good", NoFlags) : s \in {NoVal, 1}}
    \cup {Build("A", 1, NoVal, m, FALSE, "good", NoFlags) : m \in {"text", "long"}}
    \cup {Build("A", 1, NoVal, "text", TRUE, "good", NoFlags)}
    \cup {Build("A", 1, NoVal, NoVal, FALSE, a, NoFlags) : a \in {"not_scval", "unparsable"}}
    \cup {[Build("A", 1, NoVal, NoVal, FALSE, "good", f) EXCEPT !.contract = "G"] : f \in {NoFlags, Flag(MirrorUrl, NoVal, NoVal)}}

Ask(identity, args, flags) ==
    [identity |-> identity, args |-> args, flags |-> flags, no_wait |-> FALSE, timeout |-> 2, interval |-> 1,
     build_only |-> FALSE, constructor |-> FALSE, abi |-> FALSE, abi_contract |-> FALSE,
     wasm |-> FALSE, wasm_hash |-> TRUE, deny_breaking |-> FALSE, old_wasm |-> NoVal]
MCInvokeRequests ==
    {Ask("default", "good", f) : f \in MCFlags}
    \cup {[Ask("default", "good", f) EXCEPT !.build_only = TRUE, !.constructor = TRUE] : f \in {NoFlags, Flag(NoVal, NoVal, "prod")}}
    \cup {Ask("nobody", "good", NoFlags), Ask("bob", "bad", NoFlags), 
          [Ask("bob", "good", NoFlags) EXCEPT !.interval = 3, !.abi = TRUE, !.abi_contract = TRUE],
          [Ask("bob", "good", NoFlags) EXCEPT !.interval = 3, !.no_wait = TRUE, !.constructor = TRUE],
          [Ask("bob", "good", NoFlags) EXCEPT !.wasm = TRUE],
          [Ask("bob", "good", NoFlags) EXCEPT !.wasm = TRUE, !.wasm_hash = FALSE, !.constructor = TRUE],
          [Ask("bob", "good", NoFlags) EXCEPT !.wasm = TRUE, !.wasm_hash = FALSE, !.deny_breaking = TRUE, !.old_wasm = "breaks"],
          [Ask("bob", "good", NoFlags) EXCEPT !.wasm = TRUE, !.wasm_hash = FALSE, !.build_only = TRUE]}

Label(kind) == [kind |-> kind, passphrase |-> NoVal]
Custom(p) == [kind |-> "custom", passphrase |-> p]
Sign(identity, label) == [identity |-> identity, label |-> label]
MCSignRequests == {Sign("default", Label(k)) : k \in {"testnet", "mainnet", "pubnet"}}
                  \cup {Sign("bob", Label("testnet")), Sign("nobody", Label("testnet")), Sign("default", Custom("standalone")),
                       Sign("default", Custom("Standalone"))}
Library(source, sequence, ops) == [source |-> source, sequence |-> sequence, fee |-> 50, ops |-> ops, ext |-> NoVal]
Classic == [Op("payment", NoVal, {}) EXCEPT !.source = "B"]
MCTxBuilders == {Library("A", 0, <<Op("invoke", "", {}), Classic>>), Library(NoVal, 1, <<Classic>>), Library("A", NoVal, <<Classic>>),
                 Library("A", 1, <<>>)}

MCRivals == {[net |-> Public, account |-> "A"]}

MCInit == part \in {"tx", "values"} /\ TxToolsInit /\ ValuesInit /\ (part = "values" => dotfile.state = "absent")
\* The networks are looked at once, without transactions; a malformed file reads as none.
Untouched == said = NothingSaid /\ file = NoVal /\ answer.cmd = "none" /\ \A n \in Nets : \A a \in Keys : sequences[n][a] = 0
TxSteps ==
    \/ Untouched /\ NetworksNext /\ UNCHANGED txVars
    \/ probe = NoProbe /\ said = NothingSaid /\ protocol = 1 /\ dotfile.state # "malformed" /\ TxToolsNext
MCNext ==
    \/ part = "tx" /\ TxSteps /\ UNCHANGED <<part, valueVars>>
    \/ /\ part = "values" /\ ValuesSteps /\ UNCHANGED <<part, networkVars, txVars>>
       /\ Assert(told'.cmd \in KeyCommands \/ OtherCommand, "a command that is not one of StorageKeys")
MCSpec == MCInit /\ [][MCNext]_<<part, networkVars, txVars, valueVars>>
=============================================================================
