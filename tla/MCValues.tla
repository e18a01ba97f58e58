------------------------------ MODULE MCValues ------------------------------
(* An instance of Values.                                                   *)
EXTENDS Values

Raw(as, n, id, len) == [as |-> as, n |-> n, id |-> id, len |-> len]
Number(n) == Raw({"number", "ascii"} \cup (IF n >= 0 THEN {"name", "hex"} ELSE {}), n, "number", 2)
Name(as, id, len) == Raw(as \cup {"ascii"}, 0, id, len)
Typed(type, raw) == [type |-> type, raw |-> raw, text |-> NoText]
Json(kind, n, id, items) == [kind |-> kind, n |-> n, id |-> id, items |-> items]
Num(n) == Json("number", n, "", <<>>)
\* The ends of every width, and one past them.
Edges == UNION {{2 ^ w - 1, 2 ^ w, 2 ^ (w - 1) - 1, 2 ^ (w - 1), -(2 ^ (w - 1)), -(2 ^ (w - 1)) - 1} : w \in {WordBits, 2 * WordBits, 4 * WordBits}} \cup {0, 1, -1}
Words == {Name({"name", "hex"}, "abcd", 4), Name({"hex", "name"}, "abc", 3), Name({"name"}, "balance", 7), Name({"name"}, "long", 33),
          Name({}, "no-name", 7), Name({"hex", "name"}, "", 0), Name({"bool", "name"}, "true", 4), Name({"account"}, "G", 56),
          Name({"contract"}, "C", 56), Name({"name", "hex"}, "hash", 64), Raw({}, 0, "accent", 4)}
MCJsonTexts ==
    {Num(n) : n \in Edges}
    \cup {Json("null", 0, "", <<>>), Json("float", 0, "", <<>>), Json("invalid", 0, "", <<>>), Json("bool", 0, "true", <<>>),
          Json("array", 0, "", <<>>), Json("array", 0, "", <<Num(-1), Json("string", 0, "s", <<>>)>>),
          Json("array", 0, "", <<Num(1), Json("float", 0, "", <<>>)>>),
          Json("object", 0, "a,b", <<Num(1), Json("array", 0, "", <<Json("array", 0, "", <<Num(2)>>)>>)>>)}
MCTypedArgs == {Typed(t, Number(n)) : t \in IntTypes, n \in Edges} \cup {Typed(t, w) : t \in ScalarTypes \cup {"foo"}, w \in Words}
               \cup {[type |-> "json", json |-> j, text |-> NoText] : j \in MCJsonTexts}
Hand == [type |-> "hand"]
U == Typed("u32", Number(1))
MCArgLists == {<<>>, <<U>>, <<Hand>>, <<U, Hand>>, <<Hand, Typed("symbol", Name({"name"}, "a", 1))>>, <<Typed("foo", Number(1))>>, <<NoArg>>}
Config(sound, depth, hex) == [sound |-> sound, max_depth |-> depth, allow_fallback_hex |-> hex]
MCDecodeConfigs == {Config(TRUE, 0, TRUE), Config(TRUE, 2, TRUE), Config(TRUE, 0, FALSE), Config(FALSE, 0, TRUE)}

Contract(form) == [form |-> form, id |-> "c1"]
NoName == Raw({}, 0, "none", 0)
KeyReq(contract, key_xdr, map_key, key_arg, instance, durability) ==
    [contract |-> contract, key_xdr |-> key_xdr, map_key |-> map_key, key_arg |-> key_arg, instance |-> instance, durability |-> durability]
Balance == Name({"name"}, "balance", 7)
KeyOf(durability) == Text("base64", Bytes("ledgerkey", [contract |-> "c1", durability |-> durability,
                        key |-> [ScVal("vec") EXCEPT !.items = <<[ScVal("symbol") EXCEPT !.id = "balance", !.len = 7]>>]]))
Padded(text) == [text EXCEPT !.blanks = TRUE]
Hexed(text) == [text EXCEPT !.form = "hex"]
Blank == Text("empty", Garbage)
RawKeys == {<<>>, <<KeyOf("persistent")>>, <<Padded(KeyOf("temporary"))>>, <<Hexed(KeyOf("persistent"))>>, <<Blank>>, <<NoText>>, <<Text("short_hex", Garbage)>>}
MCKeyRequests ==
    {KeyReq(Contract(c), k, m, <<>>, i, d) : c \in {"strkey", "hex32"}, k \in RawKeys, m \in {NoName, Balance}, i \in BOOLEAN, d \in {"persistent", "t"}}
    \cup {KeyReq(Contract(c), <<>>, m, a, FALSE, d) : c \in {"strkey", "other"}, m \in {NoName, Balance, Name({"name"}, "long", 33), Name({"name"}, "", 0)},
            a \in {<<U>>, <<NoArg>>, <<>>}, d \in {"p", "temp", "bogus"}}
MCFootprintLists == RawKeys \cup {<<KeyOf("persistent"), Padded(KeyOf("persistent")), KeyOf("temporary")>>}

Exe(kind) == [kind |-> kind]
Held(kind, val) == [kind |-> kind, val |-> val]
MCLedgerEntries ==
    {[layout |-> l, data |-> d] : l \in {"standard", "live", "torn"},
        d \in {Held("data", [kind |-> "instance", exe |-> Exe(k)]) : k \in {"wasm", "asset", "external"}}
              \cup {Held("code", [kind |-> "code"]), Held("account", Nothing)}
              \cup {Held("data", [ScVal("bytes") EXCEPT !.len = n]) : n \in {31, 32}} \cup {Held("data", ScVal("u32"))}}

FeeReq(network, rpc, base_fees, soroban, inclusion) ==
    [network |-> network, rpc |-> rpc, base_fees |-> base_fees, stats |-> [soroban |-> soroban, inclusion |-> inclusion]]
Amounts == {0, 1, 4, 5, 100, 10000000, 12300000}
MCFeeRequests ==
    {FeeReq(n, FALSE, f, <<>>, <<>>) : n \in {"testnet", "mainnet", "standalone"}, f \in UNION {[1..k -> Amounts] : k \in 0..2} \cup {<<1, -1>>, <<5, 4, 100, 4>>}}
    \cup {FeeReq(n, TRUE, <<>>, s, i) : n \in {"mainnet", "localnet"}, s \in {<<0, 0>>, <<-1>>, <<0, 1, 7>>}, i \in {<<-1>>, <<0>>, <<100, 200, -1>>}}

\* What does not look at the text in hand is done once, and a text is looked at
\* when it comes into it.
Unread == Encode \/ JsonArgs \/ StorageReadKey \/ StorageAnalyzeKeys \/ RestoreKeys \/ ReadEntry \/ Fee
Fresh == told.cmd \in {"none", "encode", "copy"}
ValuesSteps ==
    \/ told.cmd = "none" /\ Unread
    \/ Fresh /\ (Rewrite \/ Decode \/ DecodeBadConfig \/ Convert \/ BuildArgs \/ ExtendKeys)
    \/ CopyKey
=============================================================================
