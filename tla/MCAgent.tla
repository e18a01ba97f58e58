------------------------------ MODULE MCAgent ------------------------------
(* Requests of a phrase and up to three more tokens.                        *)
EXTENDS Agent

Token(kind, text) == [kind |-> kind, text |-> text, value |-> Absent, words |-> {text}, role |-> "none"]
W(word) == Token("word", word)
Phrase(words) == [i \in DOMAIN words |-> W(words[i])]
Flag(name) == Token("flag", name)
FlagEq(name, value) == [Flag(name) EXCEPT !.value = value]
A == Token("wasm", "a.wasm")
B == Token("wasm", "b.wasm")
CapitalA == Token("wasm", "A.wasm")
OldB == [Token("wasm", "old.wasm") EXCEPT !.role = "baseline"]
C == Token("contract", "C")
Private == Token("url", "url:private")
TestnetUrl == Token("url", TESTNET_RPC)
Passphrase == [Token("quoted", "passphrase:private") EXCEPT !.words = {"private", "network"}]

Phrases ==
    {Phrase(p) : p \in {<<"health">>, <<"release", "check">>, <<"diff">>, <<"safe", "to", "upgrade">>, <<"verify">>, <<"inspect", "wasm">>,
                        <<"call", "balance", "function">>, <<"deploy", "project">>, <<"fee", "estimate">>, <<"simulate">>,
                        <<"network", "check", "profile">>, <<"audit">>, <<"plugin", "doctor">>, <<"hello">>, <<"inspect">>}}

Extras == {A, B, OldB, C, Private, TestnetUrl, W("from"), W("to"), W("mainnet"), W("rpc"), W("health"),
           Flag("--wasm"), Flag("--previous-wasm"), Flag("--format"), Flag("--rpc-url"), Flag("--network-passphrase"), Passphrase,
           FlagEq("--max-size-bytes", "1"), FlagEq("--rpc-url", "url:private"), FlagEq("--network-passphrase", "passphrase:private"),
           Flag("--audit"), FlagEq("--base-fees", "1,2"), Flag("--args"), Token("typed", "u32:7"),
           Token("format", "pretty"), Token("rs", "x.rs"), Token("blob", "AAAA"), Token("xdr", "t.xdr"), Flag("--unknown"),
           FlagEq("--wasm", "c.wasm"), FlagEq("--old-wasm", "a.wasm"), Flag("--new-wasm")}

\* A quoted text stands after a flag.
QuotedAfterFlag(req) == \A i \in DOMAIN req : req[i].kind = "quoted" => i > 1 /\ req[i - 1].kind = "flag" /\ req[i - 1].value = Absent

Pairs == {<<A, B>>, <<B, OldB>>, <<W("from"), A, W("to"), B>>, <<W("to"), A, B>>, <<Flag("--wasm"), A, B>>,
          <<Flag("--previous-wasm"), A, W("from"), B>>, <<A, B, OldB>>, <<W("from"), B, OldB>>,
          <<W("from"), CapitalA, W("to"), A>>, <<W("from"), CapitalA, W("to"), B>>}
Endpoints == {<<C, Private, Flag("--network-passphrase"), Passphrase>>, <<C, Flag("--rpc-url"), Private>>,
              <<C, A, Flag("--network-passphrase"), Passphrase>>, <<C, TestnetUrl>>}

MCRequests ==
    {r \in {p \o e : p \in Phrases, e \in {<<>>} \cup {<<x>> : x \in Extras} \cup {<<x, y>> : x, y \in Extras}} : QuotedAfterFlag(r)}
    \cup {r \in {p \o e \o <<x>> : p \in Phrases, e \in Pairs \cup Endpoints, x \in Extras} : QuotedAfterFlag(r)}
\* Calls with an argument in the sentence.
TypedRequests == {Phrase(<<"call", "balance", "function", "on">>) \o <<C, Token("typed", "u32:7")>>}

MCLowercase(text) == IF text = "A.wasm" THEN "a.wasm" ELSE text

MCExitCodes == {0, 1, 2, Absent}

MCSpec == AgentSpec /\ AgentFairness
=============================================================================
