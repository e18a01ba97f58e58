---------------------------- MODULE StorageKeys ----------------------------
(***************************************************************************)
(* Typed arguments, storage keys and ledger entries: how a key is built or *)
(* read (sdkt storage read and analyze; sdkt-xdr lib.rs), how keys become  *)
(* the footprint of an extension or a restore (sdkt-xdr builder.rs), and   *)
(* the two layouts a ledger entry comes in.  Module Values has the other   *)
(* conversions.                                                            *)
(*                                                                         *)
(* A text is the form it is written in and the bytes it holds; bytes are   *)
(* the XDR type they encode and its value.  32 bits are WordBits bits, so  *)
(* that every width and every limit of a width is met.  The XDR of a value *)
(* has a multiple of 4 bytes: its hex text is always well-formed base64 as *)
(* well, of bytes that are no XDR (they start with the byte of the digits  *)
(* "00" read as base64, which begins no type).                             *)
(***************************************************************************)
EXTENDS Integers, Sequences, FiniteSets, SequencesExt

CONSTANTS WordBits,        \* the bits that stand for 32
          KeyRequests,     \* storage read and analyze
          FootprintLists,  \* keys of an extension
          LedgerEntries    \* what getLedgerEntries answers with

ASSUME WordsAssumption == WordBits \in Nat /\ WordBits >= 2

\* A text has a form, perhaps a line end, and bytes; keys come in lists of texts.
IsText(text) == text = [form |-> text.form, blanks |-> text.blanks, bytes |-> text.bytes]
IsTextList(list) == list \in Seq(ToSet(list)) /\ \A text \in ToSet(list) : IsText(text)
ASSUME TextsAssumption ==
    /\ \A req \in KeyRequests : IsTextList(req.key_xdr)
    /\ \A list \in FootprintLists : IsTextList(list)

VARIABLES hand,  \* the text in the user's hands and the argument it was made of
          told   \* the last command and its answer

valueVars == <<hand, told>>

Nothing == [kind |-> "nothing"]
Ok(v) == [ok |-> TRUE, val |-> v]
Fail == [ok |-> FALSE, val |-> Nothing]

-----------------------------------------------------------------------------
(* Scalars *)

IntTypes == {"u32", "i32", "u64", "i64", "timepoint", "duration", "u128", "i128"}
Width(t) == CASE t \in {"u32", "i32"} -> WordBits [] t \in {"u128", "i128"} -> 4 * WordBits [] OTHER -> 2 * WordBits
InRange(t, n) ==
    IF t \in {"i32", "i64", "i128"} THEN -(2 ^ (Width(t) - 1)) <= n /\ n < 2 ^ (Width(t) - 1)
                                    ELSE 0 <= n /\ n < 2 ^ Width(t)

\* An ScVal: a number is n, the two halves of a 128-bit number are n (hi) and lo.
ScVal(kind) == [kind |-> kind, n |-> 0, lo |-> 0, id |-> "", len |-> 0, items |-> <<>>]
Half == 2 ^ (2 * WordBits)

\* The shift of a negative i128 is arithmetic.
into_scval(t, n) ==
    IF t \in {"u128", "i128"} THEN [ScVal(t) EXCEPT !.n = n \div Half, !.lo = n % Half] ELSE [ScVal(t) EXCEPT !.n = n]

\* A raw value is what it can be read as, its number, its text and its length.
parse_hex_bytes(raw) ==
    IF "ascii" \in raw.as /\ raw.len % 2 = 0 /\ "hex" \in raw.as
    THEN Ok([ScVal("bytes") EXCEPT !.id = raw.id, !.len = raw.len \div 2]) ELSE Fail
typed_symbol(raw) == IF raw.len <= 32 /\ "name" \in raw.as THEN Ok([ScVal("symbol") EXCEPT !.id = raw.id, !.len = raw.len]) ELSE Fail
from_strkey(raw) == IF raw.as \cap {"account", "contract"} # {} THEN Ok([ScVal("address") EXCEPT !.id = raw.id]) ELSE Fail

ScalarTypes == IntTypes \cup {"bool", "string", "bytes", "symbol", "address"}
Scalar(t, raw) ==
    CASE t \in IntTypes -> IF "number" \in raw.as /\ InRange(t, raw.n) THEN Ok(into_scval(t, raw.n)) ELSE Fail
      [] t = "bool" -> IF "bool" \in raw.as THEN Ok([ScVal("bool") EXCEPT !.id = raw.id]) ELSE Fail
      [] t = "string" -> Ok([ScVal("string") EXCEPT !.id = raw.id])
      [] t = "bytes" -> parse_hex_bytes(raw)
      [] t = "symbol" -> typed_symbol(raw)
      [] t = "address" -> from_strkey(raw)

-----------------------------------------------------------------------------
(* Texts *)

Bytes(type, val) == [type |-> type, val |-> val]
Garbage == Bytes("garbage", Nothing)
Text(form, bytes) == [form |-> form, blanks |-> FALSE, bytes |-> bytes]
scval_to_base64(v) == Text("base64", Bytes("scval", v))

\* The base64 reader.
STANDARD_decode(text) ==
    CASE text.form = "base64" /\ ~text.blanks -> Ok(text.bytes)
      [] text.form = "hex" /\ ~text.blanks -> Ok(Garbage)
      [] OTHER -> Fail
Trimmed(text) == [form |-> text.form, blanks |-> FALSE, bytes |-> text.bytes]

scval_from_base64(text) ==
    LET raw == STANDARD_decode(Trimmed(text)) IN IF raw.ok /\ raw.val.type = "scval" THEN Ok(raw.val.val) ELSE Fail

All(results) == IF \A i \in DOMAIN results : results[i].ok THEN Ok([i \in DOMAIN results |-> results[i].val]) ELSE Fail
Map(F(_), list) == [i \in DOMAIN list |-> F(list[i])]

\* An argument without a known TYPE: is taken as base64 unless the command is strict.
parse_typed_args(args, strict) ==
    LET Parsed(a) ==
            IF a.type \in ScalarTypes
            THEN LET v == Scalar(a.type, a.raw) IN IF v.ok THEN Ok(scval_to_base64(v.val)) ELSE Fail
            ELSE IF strict THEN Fail ELSE Ok(a.text)
    IN All(Map(Parsed, args))

hex_bytes_if_valid(text) == IF text.form \in {"hex", "short_hex"} THEN Ok(text.bytes) ELSE Fail

-----------------------------------------------------------------------------
(* Storage keys and footprints *)

parse_contract_id_bytes(contract) == IF contract.form \in {"strkey", "hex32"} THEN Ok(contract.id) ELSE Fail
symbol_scval(raw) == IF raw.len \in 1..32 /\ "name" \in raw.as THEN Ok([ScVal("symbol") EXCEPT !.id = raw.id, !.len = raw.len]) ELSE Fail
build_map_key(symbol, texts) ==
    LET sym == symbol_scval(symbol)
        args == All(Map(scval_from_base64, texts))
    IN IF sym.ok /\ args.ok THEN Ok([ScVal("vec") EXCEPT !.items = <<sym.val>> \o args.val]) ELSE Fail

encode_ledger_key(contract, key, durability) ==
    LET id == parse_contract_id_bytes(contract)
    IN IF id.ok THEN Ok(Text("base64", Bytes("ledgerkey", [contract |-> id.val, key |-> key, durability |-> durability]))) ELSE Fail

parse_durability(s) ==
    CASE s \in {"persistent", "p"} -> Ok("persistent") [] s \in {"temporary", "temp", "t"} -> Ok("temporary") [] OTHER -> Fail

Empty(text) == text.form = "empty"
MapKeyText(req) ==
    LET args == parse_typed_args(req.key_arg, TRUE)
        key == build_map_key(req.map_key, args.val)
        dur == parse_durability(req.durability)
    IN IF args.ok /\ key.ok /\ dur.ok THEN encode_ledger_key(req.contract, key.val, dur.val) ELSE Fail

HasMapKey(req) == req.map_key.id # "none"
resolve_storage_read_key(req) ==
    LET sources == Cardinality({s \in {"key_xdr", "map_key", "instance"} :
                        \/ s = "key_xdr" /\ req.key_xdr # <<>>
                        \/ s = "map_key" /\ HasMapKey(req)
                        \/ s = "instance" /\ req.instance})
    IN IF sources # 1 \/ (req.key_arg # <<>> /\ ~HasMapKey(req)) THEN Fail
       ELSE IF req.key_xdr # <<>> THEN IF Empty(req.key_xdr[1]) THEN Fail ELSE Ok(req.key_xdr[1])
       ELSE IF req.instance THEN encode_ledger_key(req.contract, ScVal("instance"), "persistent")
       ELSE MapKeyText(req)

decode_ledger_key(text) ==
    LET first == STANDARD_decode(Trimmed(text))
        raw == IF first.ok THEN first ELSE hex_bytes_if_valid(text)
    IN IF raw.ok /\ raw.val.type = "ledgerkey" THEN Ok(raw.val.val) ELSE Fail

resolve_storage_analyze_keys(req) ==
    LET given == All(Map(decode_ledger_key, req.key_xdr))
        typed == MapKeyText(req)
    IN IF (req.key_arg # <<>> /\ ~HasMapKey(req)) \/ ~given.ok THEN Fail
       ELSE IF HasMapKey(req) THEN IF typed.ok THEN Ok(Append(req.key_xdr, typed.val)) ELSE Fail
       ELSE IF parse_durability(req.durability).ok THEN Ok(req.key_xdr) ELSE Fail

\* Mutant: the keys are taken as they were given.
merge_footprint_keys_as_given(texts) ==
    LET keys == All(Map(decode_ledger_key, texts)) IN IF keys.ok /\ keys.val # <<>> THEN keys ELSE Fail
\* Two texts of one key are one key: each key once, in the order it comes first.
FirstOfEach(keys) ==
    LET out[i \in 0 .. Len(keys)] ==
            IF i = 0 THEN <<>> ELSE IF keys[i] \in ToSet(out[i - 1]) THEN out[i - 1] ELSE Append(out[i - 1], keys[i])
    IN out[Len(keys)]
merge_footprint_keys(texts) ==
    LET keys == All(Map(decode_ledger_key, texts))
    IN IF keys.ok /\ FirstOfEach(keys.val) # <<>> THEN Ok(FirstOfEach(keys.val)) ELSE Fail

build_extend_footprint_tx(req) ==
    LET keys == merge_footprint_keys(req.keys) IN IF keys.ok /\ req.extend_to > 0 /\ req.source THEN keys ELSE Fail
\* The footprint is the one of the simulation's restore preamble.
build_restore_footprint_tx(req) ==
    IF req.footprint # <<>> /\ req.fee >= req.resource_fee /\ req.source THEN Ok(req.footprint) ELSE Fail

-----------------------------------------------------------------------------
(* Ledger entries: the standard layout, or the data first *)

ParseError == [Fail EXCEPT !.val = [kind |-> "parse"]]
EntryData(raw, layout) == IF raw.layout = layout THEN Ok(raw.data) ELSE ParseError

Instance(data) == IF data.kind = "data" /\ data.val.kind = "instance" THEN Ok(data.val.exe) ELSE Fail
extract_hash_from_contract_data(data) ==
    LET exe == Instance(data) IN IF exe.ok /\ exe.val.kind = "wasm" THEN exe ELSE Fail
parse_external_executable_hash(v) == IF v.kind = "bytes" /\ v.len = 32 THEN Ok(v) ELSE Fail
WantedOf(want, data) ==
    CASE want = "hash" -> extract_hash_from_contract_data(data)
      [] want = "executable" -> Instance(data)
      [] want = "value" -> IF data.kind = "data" THEN Ok(data.val) ELSE Fail
      [] want = "external" -> IF data.kind = "data" THEN parse_external_executable_hash(data.val) ELSE Fail
      [] want = "bytecode" -> IF data.kind = "code" THEN Ok(data.val) ELSE Fail

extract_standard(raw, want) == LET data == EntryData(raw, "standard") IN IF data.ok THEN WantedOf(want, data.val) ELSE data
extract_live(raw, want) == LET data == EntryData(raw, "live") IN IF data.ok THEN WantedOf(want, data.val) ELSE data
\* The other layout is tried only when the bytes do not parse.
extract(raw, want) ==
    LET first == extract_standard(raw, want) IN IF first = ParseError THEN extract_live(raw, want) ELSE first

-----------------------------------------------------------------------------
(* Commands *)

Silence == [cmd |-> "none", req |-> Nothing, res |-> Fail]
Say(cmd, req, res) == told' = [cmd |-> cmd, req |-> req, res |-> res]
NoText == Text("other", Garbage)
NoArg == [type |-> "none", text |-> NoText]

ValuesInit == hand = [text |-> NoText, of |-> NoArg] /\ told = Silence

\* Another tool writes the same bytes in hex, a file adds a line end.
Rewrite ==
    /\ hand.text.form \in {"hex", "base64"}
    /\ \E form \in {"hex", "base64"}, blanks \in BOOLEAN :
        hand' = [text |-> [form |-> form, blanks |-> blanks, bytes |-> hand.text.bytes], of |-> hand.of]
    /\ Say("copy", Nothing, Fail)

\* A key that storage commands build is in the user's hands like any other text.
CopyKey ==
    /\ told.cmd \in {"read", "analyze"} /\ told.res.ok
    /\ \E text \in (IF told.cmd = "read" THEN {told.res.val} ELSE ToSet(told.res.val)) :
        hand' = [text |-> text, of |-> NoArg]
    /\ Say("copy", Nothing, Fail)

StorageReadKey == \E req \in KeyRequests : Say("read", req, resolve_storage_read_key(req)) /\ UNCHANGED hand
StorageAnalyzeKeys == \E req \in KeyRequests : Say("analyze", req, resolve_storage_analyze_keys(req)) /\ UNCHANGED hand

\* The key in hand is extended with others.
ExtendKeys ==
    \E list \in FootprintLists, extend_to \in 0..1, source \in BOOLEAN :
        LET req == [keys |-> Append(list, hand.text), extend_to |-> extend_to, source |-> source]
        IN Say("extend", req, build_extend_footprint_tx(req)) /\ UNCHANGED hand
RestoreKeys ==
    \E list \in FootprintLists, fee \in 0..2, source \in BOOLEAN :
        LET req == [footprint |-> list, fee |-> fee, resource_fee |-> 1, source |-> source]
        IN Say("restore", req, build_restore_footprint_tx(req)) /\ UNCHANGED hand

ReadEntry ==
    \E raw \in LedgerEntries, want \in {"hash", "executable", "value", "external", "bytecode"} :
        Say("entry", [raw |-> raw, want |-> want], extract(raw, want)) /\ UNCHANGED hand

\* Any other command, such as those of Values, leaves the user with a text and answers for itself.
KeyCommands == {"read", "analyze", "extend", "restore", "entry"}
OtherCommand ==
    /\ hand' = [text |-> hand'.text, of |-> hand'.of] /\ IsText(hand'.text)
    /\ told'.cmd \notin KeyCommands

KeysNext ==
    \/ Rewrite \/ CopyKey \/ StorageReadKey \/ StorageAnalyzeKeys \/ ExtendKeys \/ RestoreKeys \/ ReadEntry
    \/ OtherCommand
KeysSpec == ValuesInit /\ [][KeysNext]_valueVars

-----------------------------------------------------------------------------
(* Properties *)

\* A footprint has the keys that were asked for, each once, however each was written; the keys analyze accepts
\* are keys an extension accepts; and an entry is understood alike in both layouts.
FootprintIsAsked ==
    /\ told.cmd = "extend" /\ told.res.ok =>
            /\ ToSet(told.res.val) = {told.req.keys[i].bytes.val : i \in DOMAIN told.req.keys}
            /\ \A i, j \in DOMAIN told.res.val : told.res.val[i] = told.res.val[j] => i = j
    /\ told.cmd = "analyze" /\ told.res.ok /\ told.res.val # <<>> => merge_footprint_keys(told.res.val).ok
    /\ told.cmd = "entry" /\ told.req.raw.layout \in {"standard", "live"} => told.res = WantedOf(told.req.want, told.req.raw.data)

\* "LedgerKey from base64 XDR or hex-encoded XDR bytes": a key written in hex is read.
HexKeyIsRead == hand.text.bytes.type = "ledgerkey" /\ hand.text.form = "hex" => decode_ledger_key(hand.text).ok
=============================================================================
