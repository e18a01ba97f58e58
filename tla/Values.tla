------------------------------- MODULE Values -------------------------------
(***************************************************************************)
(* The conversions every command leans on: a typed argument to an ScVal    *)
(* and its base64 text (sdkt encode, --arg, --json-args), a text back to   *)
(* the value it holds (sdkt decode, pre-encoded arguments) and fee         *)
(* estimates, beside the storage keys, footprints and ledger entries of    *)
(* module StorageKeys, which also says what a text is here.                *)
(***************************************************************************)
EXTENDS StorageKeys

CONSTANTS TypedArgs,       \* what is passed as TYPE:VALUE, or a bare text
          JsonTexts,       \* what is passed as a JSON text
          ArgLists,        \* argument lists of tx build, deploy and call
          DecodeConfigs,   \* [decode] of .sdkt.toml
          FeeRequests      \* fee estimate

-----------------------------------------------------------------------------
(* Numbers *)

Joined(v) == IF v.kind \in {"u128", "i128"} THEN v.n * Half + v.lo ELSE v.n

\* What a library caller gets who asks for a Rust type.
from_scval(t, v) ==
    CASE t = "bytes32" -> IF v.kind = "bytes" /\ v.len = 32 THEN Ok(v) ELSE Fail
      [] OTHER -> IF v.kind = t THEN Ok([ScVal(t) EXCEPT !.n = Joined(v), !.id = v.id, !.len = v.len]) ELSE Fail

-----------------------------------------------------------------------------
(* JSON *)

JsonNumber(n) ==
    CASE InRange("u64", n) -> Ok(into_scval(IF InRange("u32", n) THEN "u32" ELSE "u64", n))
      [] n < 0 /\ InRange("i64", n) -> Ok(into_scval(IF InRange("i32", n) THEN "i32" ELSE "i64", n))
      [] OTHER -> Fail

RECURSIVE json_to_scval(_)
json_to_scval(j) ==
    LET items == [i \in DOMAIN j.items |-> json_to_scval(j.items[i])]
        all == \A i \in DOMAIN items : items[i].ok
    IN CASE j.kind = "null" -> Ok(ScVal("void"))
         [] j.kind = "bool" -> Ok([ScVal("bool") EXCEPT !.id = j.id])
         [] j.kind = "string" -> Ok([ScVal("string") EXCEPT !.id = j.id])
         [] j.kind = "number" -> JsonNumber(j.n)
         [] j.kind = "float" -> Fail
         [] j.kind \in {"array", "object"} ->
                IF all THEN Ok([ScVal(IF j.kind = "array" THEN "vec" ELSE "map") EXCEPT
                                !.items = [i \in DOMAIN items |-> items[i].val], !.id = j.id])
                       ELSE Fail
         [] OTHER -> Fail

-----------------------------------------------------------------------------
(* Texts *)

parse_scval_arg(text) ==
    LET raw == STANDARD_decode(text) IN IF raw.ok /\ raw.val.type = "scval" THEN Ok(raw.val.val) ELSE Fail
parse_scval_args(texts) == All(Map(parse_scval_arg, texts))
json_args_to_base64(j) ==
    IF j.kind # "array" THEN Fail
    ELSE LET vals == All(Map(json_to_scval, j.items)) IN IF vals.ok THEN Ok(Map(scval_to_base64, vals.val)) ELSE Fail

run_encode(values) ==
    IF Len(values) # 1 THEN Fail
    ELSE LET a == values[1]
             v == CASE a.type \in ScalarTypes -> Scalar(a.type, a.raw)
                    [] a.type = "json" -> json_to_scval(a.json)
                    [] OTHER -> Fail
         IN IF v.ok THEN Ok(scval_to_base64(v.val)) ELSE Fail

detect_and_decode(text, allow_fallback_hex) ==
    LET first == STANDARD_decode(Trimmed(text))
    IN CASE first.ok -> first
         [] text.form = "short_hex" /\ allow_fallback_hex -> Ok(text.bytes)
         [] OTHER -> Fail

RECURSIVE Depth(_)
Depth(v) == IF "items" \notin DOMAIN v \/ v.items = <<>> THEN 1
            ELSE 1 + CHOOSE d \in {Depth(v.items[i]) : i \in DOMAIN v.items} :
                        \A i \in DOMAIN v.items : Depth(v.items[i]) <= d

\* The bytes of a ledger key begin like an i64: a reader that stops early takes it.
Stray == [ScVal("i64") EXCEPT !.id = "stray"]
decode_single(raw, type, max_depth) ==
    IF max_depth # 0 /\ Depth(raw.val) > max_depth THEN Fail
    ELSE CASE raw.type = type -> Ok(raw.val)
           [] raw.type = "ledgerkey" /\ type = "scval" -> Ok(Stray)
           [] OTHER -> Fail
decode_single_strict(raw, type, max_depth) ==
    IF raw.type = type /\ (max_depth = 0 \/ Depth(raw.val) <= max_depth) THEN Ok(raw.val) ELSE Fail

DetectedTypes == <<"scval", "transactionenvelope", "contractevent", "transactionresult">>
auto_detect(raw, max_depth) ==
    LET found == SelectSeq(DetectedTypes, LAMBDA t : decode_single_strict(raw, t, max_depth).ok)
    IN IF found = <<>> THEN Fail ELSE decode_single_strict(raw, found[1], max_depth)

HintTypes == {"scval", "transactionenvelope", "transactionresult", "transactionmeta", "ledgerkey", "ledgerentry", "contractevent"}
decode_bytes_with_config(raw, hint, max_depth) ==
    CASE hint = "auto" -> auto_detect(raw, max_depth)
      [] hint \in HintTypes -> decode_single(raw, hint, max_depth)
      [] OTHER -> Fail

\* What the output says of an ScVal: the halves of a 128-bit number joined.
RECURSIVE AsJson(_)
AsJson(v) == IF "items" \notin DOMAIN v THEN v
             ELSE [v EXCEPT !.n = Joined(v), !.lo = 0, !.items = [i \in DOMAIN v.items |-> AsJson(v.items[i])]]

\* Mutant: what is no XDR as base64 is not tried as hex.
decode_with_config_once(text, hint, max_depth, allow_fallback_hex) ==
    LET raw == detect_and_decode(text, allow_fallback_hex)
    IN IF raw.ok THEN decode_bytes_with_config(raw.val, hint, max_depth) ELSE Fail
decode_with_config(text, hint, max_depth, allow_fallback_hex) ==
    LET raw == detect_and_decode(text, allow_fallback_hex)
        first == decode_bytes_with_config(raw.val, hint, max_depth)
        hex == hex_bytes_if_valid(text)
    IN IF ~raw.ok THEN Fail
       ELSE IF first.ok \/ ~allow_fallback_hex \/ ~hex.ok THEN first
       ELSE IF hex.val # raw.val THEN decode_bytes_with_config(hex.val, hint, max_depth) ELSE first

-----------------------------------------------------------------------------
(* Fees *)

STROOPS_PER_XLM == 10000000

NetworkKind(s) == IF s \in {"testnet", "mainnet", "standalone"} THEN Ok(s) ELSE Fail
estimate_base_fee(samples) ==
    IF samples = <<>> THEN Fail ELSE Ok(SortSeq(samples, <)[((Len(samples) - 1) \div 2) + 1])
\* Times 1, 1.25 and 0.10, rounded half up.
Multiplied(network, n) ==
    CASE network = "testnet" -> n [] network = "mainnet" -> (5 * n + 2) \div 4 [] network = "standalone" -> (n + 5) \div 10
estimate_stroops(network, samples) ==
    LET base == estimate_base_fee(samples) IN IF base.ok THEN Ok(Multiplied(network, base.val)) ELSE Fail

\* Seven digits, the trailing zeros cut.
Cut(frac) == CHOOSE d \in 0..7 : frac % 10 ^ (7 - d) = 0 /\ \A e \in 0..(d - 1) : frac % 10 ^ (7 - e) # 0
estimate_xlm(stroops) ==
    LET frac == stroops % STROOPS_PER_XLM IN
    [whole |-> stroops \div STROOPS_PER_XLM, digits |-> Cut(frac), frac |-> frac \div 10 ^ (7 - Cut(frac))]

\* Percentiles that are no u32 are skipped (-1 here).
parse_distr_to_samples(d) == SelectSeq(d, LAMBDA n : n >= 0)
parse_fee_stats(stats) ==
    LET samples == parse_distr_to_samples(stats.soroban)
        fallback == parse_distr_to_samples(stats.inclusion)
    IN IF \E i \in DOMAIN samples : samples[i] > 0 THEN samples ELSE fallback

FeeSamples(req) ==
    CASE req.rpc -> parse_fee_stats(req.stats)
      [] OTHER -> IF \A i \in DOMAIN req.base_fees : req.base_fees[i] >= 0 THEN req.base_fees ELSE <<>>
fee_estimate(req) ==
    IF NetworkKind(req.network).ok THEN estimate_stroops(req.network, FeeSamples(req)) ELSE Fail

-----------------------------------------------------------------------------
(* Commands *)

\* sdkt encode prints a base64 text.
Encode ==
    \E a \in TypedArgs : \E values \in {<<>>, <<a>>, <<a, a>>} :
        LET res == run_encode(values) IN
        /\ hand' = IF res.ok THEN [text |-> res.val, of |-> a] ELSE hand
        /\ Say("encode", values, res)

Decode ==
    \E cfg \in DecodeConfigs, hint \in {"auto", "scval", "ledgerkey", "bogus"} :
        LET res == decode_with_config(hand.text, hint, cfg.max_depth, cfg.allow_fallback_hex) IN
        /\ cfg.sound
        /\ Say("decode", [hint |-> hint, cfg |-> cfg], IF res.ok THEN Ok(AsJson(res.val)) ELSE Fail)
        /\ UNCHANGED hand
\* A broken .sdkt.toml ends the command first.
DecodeBadConfig ==
    \E cfg \in DecodeConfigs : ~cfg.sound /\ Say("decode", [hint |-> "auto", cfg |-> cfg], Fail) /\ UNCHANGED hand

Convert ==
    \E t \in (ScalarTypes \ {"symbol"}) \cup {"bytes32"} :
        /\ hand.text.bytes.type = "scval"
        /\ Say("convert", t, from_scval(t, hand.text.bytes.val))
        /\ UNCHANGED hand

\* tx build, deploy (lenient) and call (strict, with --json-args) build their arguments.
BuildArgs ==
    \E list \in ArgLists, strict \in BOOLEAN :
        LET args == [i \in DOMAIN list |-> IF list[i].type = "hand" THEN [NoArg EXCEPT !.text = hand.text] ELSE list[i]]
            res == LET texts == parse_typed_args(args, strict) IN IF texts.ok THEN parse_scval_args(texts.val) ELSE Fail
        IN Say("args", args, res) /\ UNCHANGED hand
JsonArgs ==
    \E j \in JsonTexts :
        LET texts == json_args_to_base64(j) IN
        /\ Say("json_args", j, IF texts.ok THEN parse_scval_args(texts.val) ELSE Fail)
        /\ UNCHANGED hand

Fee ==
    \E req \in FeeRequests :
        LET res == fee_estimate(req) IN
        /\ Say("fee", req, IF res.ok THEN Ok([stroops |-> res.val, xlm |-> estimate_xlm(res.val)]) ELSE Fail)
        /\ UNCHANGED hand

ValuesNext ==
    \/ Encode \/ Rewrite \/ CopyKey \/ Decode \/ DecodeBadConfig \/ Convert \/ BuildArgs \/ JsonArgs
    \/ StorageReadKey \/ StorageAnalyzeKeys \/ ExtendKeys \/ RestoreKeys \/ ReadEntry \/ Fee

-----------------------------------------------------------------------------
(* Properties *)

\* A JSON text and the value made of it say the same.
RECURSIVE SameJson(_, _)
SameJson(j, v) ==
    CASE j.kind = "number" -> v.kind \in IntTypes /\ v.n = j.n
      [] j.kind = "array" -> v.kind = "vec" /\ Len(v.items) = Len(j.items) /\ \A i \in DOMAIN j.items : SameJson(j.items[i], v.items[i])
      [] j.kind = "object" -> v.kind = "map" /\ v.id = j.id /\ Len(v.items) = Len(j.items) /\ \A i \in DOMAIN j.items : SameJson(j.items[i], v.items[i])
      [] j.kind = "null" -> v.kind = "void"
      [] OTHER -> v.kind = j.kind /\ v.id = j.id
SameTyped(a, v) == v.kind = a.type /\ IF a.type \in IntTypes THEN v.n = a.raw.n ELSE v.id = a.raw.id
Same(a, v) == IF a.type = "json" THEN SameJson(a.json, v) ELSE SameTyped(a, v)

Readable(text, cfg) == cfg.sound /\ (text.form = "base64" \/ cfg.allow_fallback_hex)
                       /\ (cfg.max_depth = 0 \/ Depth(text.bytes.val) <= cfg.max_depth)

\* What sdkt encode wrote, sdkt decode shows again, in base64 or in hex, with or without a line end and whatever
\* the width and the sign of a number: a hex text that is also base64 (Issue #375) is read as the hex it is.
ShownIsWritten ==
    told.cmd = "decode" /\ hand.of.type # "none" =>
        /\ Readable(hand.text, told.req.cfg) /\ told.req.hint \in {"auto", "scval"} => told.res.ok
        /\ told.res.ok => Same(hand.of, told.res.val)

\* The same value comes out of FromScVal, and goes into a transaction as an argument, typed, as JSON or
\* passed through: an argument is never another value than the one written.
ArgsAreMeant ==
    /\ told.cmd = "convert" /\ told.res.ok /\ hand.of.type # "none" /\ told.req # "bytes32" /\ hand.of.type # "json" =>
            told.res.val.kind = hand.of.type /\ (hand.of.type \in IntTypes => told.res.val.n = hand.of.raw.n)
    /\ told.cmd = "args" /\ told.res.ok =>
            \A i \in DOMAIN told.req :
                IF told.req[i].type \in ScalarTypes THEN SameTyped(told.req[i], AsJson(told.res.val[i]))
                ELSE hand.of.type # "none" => Same(hand.of, AsJson(told.res.val[i]))
    /\ told.cmd = "json_args" /\ told.res.ok =>
            \A i \in DOMAIN told.req.items : SameJson(told.req.items[i], AsJson(told.res.val[i]))

\* A fee estimate never falls when a sample rises, lies between the cheapest and the dearest sample, and its
\* text in XLM is exactly its stroops.
FeeIsRight ==
    told.cmd = "fee" /\ told.res.ok =>
        LET fee == told.res.val
            samples == FeeSamples(told.req)
        IN /\ fee.xlm.whole * STROOPS_PER_XLM + fee.xlm.frac * 10 ^ (7 - fee.xlm.digits) = fee.stroops
           /\ \E i, j \in DOMAIN samples :
                Multiplied(told.req.network, samples[i]) <= fee.stroops /\ fee.stroops <= Multiplied(told.req.network, samples[j])
           /\ \A other \in FeeRequests :
                ~other.rpc /\ ~told.req.rpc /\ other.network = told.req.network /\ Len(other.base_fees) = Len(samples)
                /\ (\A i \in DOMAIN samples : other.base_fees[i] >= samples[i]) =>
                    fee_estimate(other).val >= fee.stroops

\* Whatever the CLI writes for a user, it and the network read as what was meant: values, arguments and fees.
ReadBackIsWritten == ShownIsWritten /\ ArgsAreMeant /\ FeeIsRight

=============================================================================
