------------------------------ MODULE TxTools ------------------------------
(***************************************************************************)
(* Transactions made by hand: sdkt tx build, validate, decode, simulate,   *)
(* sign and submit, and the one-step invoke and deploy (sdkt-cli main.rs), *)
(* with the envelopes they make and read (sdkt-xdr builder.rs, sign.rs,    *)
(* envelope.rs; sdkt-core tx_builder.rs, validation.rs). An envelope is    *)
(* kept in a file between the steps. How a submission is polled is module  *)
(* Submission's.                                                           *)
(***************************************************************************)
EXTENDS Networks, Functions

CONSTANTS BuildRequests,   \* what tx build is asked
          InvokeRequests,  \* what invoke and deploy are asked
          SignRequests,    \* what tx sign is asked: [identity, label]
          TxBuilders,      \* what a program asks of the TxBuilder library
          Keys,            \* accounts
          Identities,      \* the keystore: name -> account
          LowerOf,         \* the lower-case form of a passphrase
          ResourceFee,     \* what the network asks for the contract call
          Rivals,          \* [net, account]: accounts that are used elsewhere too
          MaxSigned,       \* bound: signatures of an envelope
          MaxApplied       \* bound: transactions of all accounts

\* A keystore of accounts.
ASSUME KeysAssumption == NoVal \notin Keys /\ \A i \in DOMAIN Identities : Identities[i] \in Keys
\* The passphrase of mainnet has capitals.
ASSUME LowerAssumption ==
    /\ \A p \in DOMAIN LowerOf : LowerOf[p] # Public
    /\ \A r \in SignRequests : r.label.kind = "custom" => r.label.passphrase \in DOMAIN LowerOf

VARIABLES sequences,  \* the sequence of each account on each network
          file,       \* the envelope in the file, or NoVal
          used,       \* history: how that envelope was made
          answer,     \* what the last command said
          applied     \* history: the transactions networks applied

txVars == <<sequences, file, used, answer, applied>>
Nets == {Test, Public, Future} \cup DOMAIN LowerOf

\* Every URL serves a network, and a profile that is named has a place in the store.
ServesNet(url) == url # NoVal => url.serves \in Nets
ASSUME UrlsAssumption ==
    /\ NoVal \notin Nets
    /\ TestnetUrl # NoVal /\ ServesNet(TestnetUrl)
    /\ \A d \in DotFiles : d.state = "ok" => d.network.rpc_url # NoVal /\ ServesNet(d.network.rpc_url)
    /\ \A p \in Profiles : ServesNet(p.rpc_url)
    /\ \A f \in Flags \cup {r.flags : r \in BuildRequests \cup InvokeRequests} :
          ServesNet(f.rpc_url) /\ f.profile \in ProfileNames \cup {NoVal}

-----------------------------------------------------------------------------
\* Envelopes.

INCLUSION_FEE == 100
MIN_FEE_STROOPS == 100
MAX_SIGNATURES == 20
MAX_OPERATIONS == 100

Tx(source, sequence, fee, memo, op, data) ==
    [form |-> "tx", source |-> source, sequence |-> sequence, fee |-> fee, memo |-> memo,
     ops |-> <<op>>, data |-> data, signatures |-> <<>>]
Op(kind, fn, auth) == [kind |-> kind, fn |-> fn, auth |-> auth, source |-> NoVal]
Data(fee, keys) == [fee |-> fee, keys |-> keys]
\* What a simulation asks is a fee, and is not an envelope without one.
ASSUME FeeAssumption == ResourceFee \in Nat /\ NoVal # Data(ResourceFee, {"code"})

\* memo_text and memo_id; NoVal is a memo that is too long.
memo_text(text) == IF text = "long" THEN NoVal ELSE text

decode_account_id(source) == IF source \in Keys THEN source ELSE NoVal
decode_contract_id(contract) == contract = "C"

\* Every builder refuses an account or a contract that is no StrKey.
InvokeIsBuildable(p) == decode_account_id(p.source) # NoVal /\ decode_contract_id(p.contract) /\ p.args # "not_scval"

build_invoke_transaction(p) ==
    IF InvokeIsBuildable(p) THEN Tx(p.source, p.sequence, p.fee, p.memo, Op("invoke", p.function, {}), NoVal) ELSE NoVal

\* Mutant: the builder counts on from a sequence that is already the next.
build_invoke_transaction_with_data_next(p, data, auth) ==
    IF InvokeIsBuildable(p) THEN Tx(p.source, p.sequence + 1, p.fee, p.memo, Op("invoke", p.function, auth), data) ELSE NoVal

build_invoke_transaction_with_data(p, data, auth) ==
    IF InvokeIsBuildable(p) THEN Tx(p.source, p.sequence, p.fee, p.memo, Op("invoke", p.function, auth), data) ELSE NoVal

build_upload_wasm_tx(p) == Tx(p.source, p.sequence, p.fee, "none", Op("upload", NoVal, {}), NoVal)
build_upload_wasm_tx_with_data(p, data) == [build_upload_wasm_tx(p) EXCEPT !.data = data]
build_upload_wasm_tx_with_data_and_auth(p, data, auth) ==
    [build_upload_wasm_tx_with_data(p, data) EXCEPT !.ops[1].auth = auth]

build_create_contract_tx(p) == Tx(p.source, p.sequence, p.fee, "none", Op("create", NoVal, {}), NoVal)
build_create_contract_tx_with_data(p, data) == [build_create_contract_tx(p) EXCEPT !.data = data]
build_create_contract_tx_with_data_and_auth(p, data, auth) ==
    [build_create_contract_tx_with_data(p, data) EXCEPT !.ops[1].auth = auth]

build_create_contract_v2_tx(p) == Tx(p.source, p.sequence, p.fee, "none", Op("create_v2", NoVal, {}), NoVal)
build_create_contract_v2_tx_with_data(p, data) == [build_create_contract_v2_tx(p) EXCEPT !.data = data]
build_create_contract_v2_tx_with_data_and_auth(p, data, auth) ==
    [build_create_contract_v2_tx_with_data(p, data) EXCEPT !.ops[1].auth = auth]

-----------------------------------------------------------------------------
\* Signatures: the account that signed and the passphrase the hash was taken for.

\* Network::parse and passphrase. The label is lower-cased before it is looked at, a
\* custom passphrase with it. NoVal is a label tx sign does not know.
SignNetwork(label) ==
    CASE label.kind = "testnet" -> Test
      [] label.kind = "mainnet" -> Public
      [] label.kind = "futurenet" -> Future
      [] label.kind = "custom" -> LowerOf[label.passphrase]
      [] OTHER -> NoVal

sign_envelope_with(env, key, passphrase) ==
    [env EXCEPT !.signatures = Append(@, [key |-> key, passphrase |-> passphrase])]

\* append_signature panics when the list is full.
SignatureFits(env) == Len(env.signatures) < MAX_SIGNATURES

verify_signature(env, key, passphrase) ==
    \E i \in DOMAIN env.signatures : env.signatures[i] = [key |-> key, passphrase |-> passphrase]

\* signer_keys and view_signatures: a hint names the one account that could have signed.
signer_keys(env) == ({env.source} \cup {env.ops[i].source : i \in DOMAIN env.ops}) \ {NoVal}
view_signatures(env) ==
    [i \in DOMAIN env.signatures |->
       IF env.signatures[i].key \in signer_keys(env) THEN env.signatures[i].key ELSE NoVal]
view_envelope(env) ==
    [source |-> env.source, sequence |-> env.sequence, fee |-> env.fee, soroban |-> env.data,
     ops |-> [i \in DOMAIN env.ops |-> env.ops[i].kind], signers |-> view_signatures(env)]

\* validate, validate_tx, validate_v0 and validate_operation.
validate_operation(op) == IF op.kind = "invoke" /\ op.fn = "" THEN {"missing_function_name"} ELSE {}
validate_tx(env) ==
    (IF env.ops = <<>> THEN {"empty_operations"} ELSE {})
    \cup (IF env.fee < MIN_FEE_STROOPS THEN {"fee_too_low"} ELSE {})
    \cup (IF env.sequence <= 0 THEN {"invalid_sequence"} ELSE {})
    \cup UNION {validate_operation(env.ops[i]) : i \in DOMAIN env.ops}

-----------------------------------------------------------------------------
\* The network (external): a transaction is applied when its account signed it for this
\* network and nobody else did, its sequence is the next, and its resources are paid.

Endpoint(cfg) == cfg.rpc_url.serves
NextSequence(cfg, account) == sequences[Endpoint(cfg)][account] + 1

Accepts(net, env, sequence) ==
    /\ env.ops # <<>>
    /\ Len(env.signatures) = 1 /\ verify_signature(env, env.source, net)
    /\ env.sequence = sequence + 1
    /\ env.data # NoVal
    /\ env.data.fee >= ResourceFee /\ env.fee >= env.data.fee + INCLUSION_FEE

Simulated(p) == [data |-> Data(ResourceFee, {"code"}), auth |-> {}, total_fee |-> ResourceFee + INCLUSION_FEE]

Apply(net, source, count, named) ==
    /\ sequences' = [sequences EXCEPT ![net][source] = @ + count]
    /\ applied' = applied \cup {[net |-> net, named |-> named]}

Nowhere == UNCHANGED <<sequences, applied>>
Keep == UNCHANGED <<sequences, file, used, applied>>

Says(cmd, status) == [cmd |-> cmd, status |-> status, exit |-> IF status \in {"error", "failed", "invalid"} THEN 1 ELSE 0,
                      told |-> "nothing", fee |-> NoVal, expected |-> FALSE, view |-> NoVal]
NothingUsed == [net |-> NoVal, priced |-> FALSE, by |-> <<>>, base |-> 0]

-----------------------------------------------------------------------------
\* tx build. A client is made when the sequence is not given or a network is named.

BuildSource(r) ==
    IF r.source \notin Keys /\ r.source \in DOMAIN Identities THEN Identities[r.source] ELSE r.source
BuildMemo(r) == IF r.memo_text = NoVal THEN "none" ELSE memo_text(r.memo_text)
BuildOnline(r) == r.sequence = NoVal \/ network_is_explicit(r.flags)
BuildNet(r) == IF BuildOnline(r) THEN Endpoint(resolve_network_config(r.flags)) ELSE NoVal

BuildStops(r) ==
    \/ r.memo_text # NoVal /\ r.memo_id
    \/ BuildMemo(r) = NoVal
    \/ r.args = "unparsable"
    \/ BuildOnline(r) /\ resolve_network_config(r.flags) = NoVal
    \/ r.sequence = NoVal /\ decode_account_id(BuildSource(r)) = NoVal

BuildParams(r) ==
    [source |-> BuildSource(r), contract |-> r.contract, function |-> "f", args |-> r.args, memo |-> BuildMemo(r),
     sequence |-> IF r.sequence # NoVal THEN r.sequence
                  ELSE NextSequence(resolve_network_config(r.flags), BuildSource(r)),
     fee |-> IF r.fee = NoVal THEN INCLUSION_FEE ELSE r.fee]

\* A simulation that succeeds prices the envelope.
BuiltEnvelope(params, priced) ==
    LET sim == Simulated(params)
    IN IF priced THEN build_invoke_transaction_with_data([params EXCEPT !.fee = sim.total_fee], sim.data, sim.auth)
       ELSE build_invoke_transaction(params)

UsedToBuild(net, source, priced) ==
    [net |-> net, priced |-> priced, by |-> <<>>,
     base |-> IF net # NoVal /\ source \in Keys THEN sequences[net][source] ELSE 0]

BuildWrites(r, priced) ==
    LET env == BuiltEnvelope(BuildParams(r), priced)
    IN /\ answer' = [Says("build", IF env = NoVal THEN "error" ELSE "ok")
                     EXCEPT !.fee = r.fee,
                            !.told = IF priced THEN "priced" ELSE IF r.fee = NoVal THEN "warned" ELSE "nothing"]
       /\ IF env = NoVal THEN UNCHANGED <<file, used>>
          ELSE file' = env /\ used' = UsedToBuild(BuildNet(r), BuildSource(r), priced /\ r.sequence = NoVal)
       /\ Nowhere

TxBuild(r) ==
    /\ \E reachable \in (IF BuildOnline(r) THEN BOOLEAN ELSE {FALSE}) :
          IF BuildStops(r) \/ (r.sequence = NoVal /\ ~reachable) THEN answer' = Says("build", "error") /\ Keep
          ELSE BuildWrites(r, r.fee = NoVal /\ BuildOnline(r) /\ reachable /\ InvokeIsBuildable(BuildParams(r)))
    /\ UNCHANGED networkVars

\* An envelope a program makes with the TxBuilder of sdkt-core.
TxBuilderBuild(b) ==
    LET env == IF b.source = NoVal \/ b.sequence = NoVal \/ Len(b.ops) \notin 1..MAX_OPERATIONS THEN NoVal
               ELSE [Tx(b.source, b.sequence, b.fee, "none", Head(b.ops), b.ext) EXCEPT !.ops = b.ops]
    IN /\ IF env = NoVal THEN answer' = Says("builder", "error") /\ UNCHANGED <<file, used>>
          ELSE file' = env /\ used' = NothingUsed /\ answer' = Says("builder", "ok")
       /\ Nowhere
       /\ UNCHANGED networkVars

TxValidate ==
    /\ file # NoVal
    /\ answer' = Says("validate", IF validate_tx(file) = {} THEN "ok" ELSE "invalid")
    /\ Keep
    /\ UNCHANGED networkVars

TxDecode ==
    /\ file # NoVal
    /\ answer' = [Says("decode", "ok") EXCEPT !.view = view_envelope(file)]
    /\ Keep
    /\ UNCHANGED networkVars

\* tx simulate: against whatever network resolves; no signature and no sequence needed.
TxSimulate(flags) ==
    /\ file # NoVal
    /\ LET cfg == resolve_network_config(flags)
       IN \E reachable \in BOOLEAN :
             answer' = Says("simulate", IF cfg = NoVal \/ ~reachable THEN "error"
                                        ELSE IF Len(file.ops) = 1 THEN "ok" ELSE "failed")
    /\ Keep
    /\ UNCHANGED networkVars

\* tx sign: the label names the network, whatever the envelope was built on. The signed
\* envelope replaces the file.
TxSign(r) ==
    /\ file # NoVal
    /\ LET passphrase == SignNetwork(r.label)
       IN IF passphrase = NoVal \/ r.identity \notin DOMAIN Identities
          THEN answer' = Says("sign", "error") /\ Keep
          ELSE /\ SignatureFits(file)
               /\ file' = sign_envelope_with(file, Identities[r.identity], passphrase)
               /\ used' = [used EXCEPT !.by = Append(@, [key |-> Identities[r.identity], label |-> r.label])]
               /\ answer' = Says("sign", "ok")
               /\ Nowhere
    /\ UNCHANGED networkVars

\* The network a label stands for in the words of the operator.
Named(label) ==
    CASE label.kind = "testnet" -> Test [] label.kind = "mainnet" -> Public
      [] label.kind = "futurenet" -> Future [] OTHER -> label.passphrase

\* The operator did all the steps as documented for the network: built online with fee
\* and sequence from it, signed once, by the source, for it; nothing of the account was
\* applied since.
DoneForNetwork(net) ==
    /\ used.priced /\ used.net = net
    /\ Len(used.by) = 1 /\ used.by[1].key = file.source /\ Named(used.by[1].label) = net
    /\ sequences[net][file.source] = used.base

SignedFor(env, net) == \E i \in DOMAIN used.by : Named(used.by[i].label) = net

\* How the operator named the network: by a flag of the command that sends, or by the
\* label when the envelope was signed.
NamedByFlag(flags) == IF network_is_explicit(flags) THEN {"flag"} ELSE {}
NamedByLabel(env, net) == IF SignedFor(env, net) THEN {"label"} ELSE {}

TxSubmit(flags) ==
    /\ file # NoVal
    /\ LET cfg == resolve_rpc_client_mutating(flags)
           net == Endpoint(cfg)
           named == NamedByFlag(flags) \cup NamedByLabel(file, net)
       IN IF cfg = NoVal THEN answer' = Says("submit", "error") /\ Keep
          ELSE \/ answer' = Says("submit", "error") /\ Keep   \* not reached
               \/ IF Accepts(net, file, sequences[net][file.source])
                  THEN Apply(net, file.source, 1, named) /\ answer' = Says("submit", "applied") /\ UNCHANGED <<file, used>>
                  ELSE answer' = [Says("submit", "failed") EXCEPT !.expected = DoneForNetwork(net)] /\ Keep
    /\ UNCHANGED networkVars

-----------------------------------------------------------------------------
\* invoke and deploy: guard, identity and arguments are checked before the first request.

validate_poll_pair(timeout, interval) == interval > 0 /\ timeout >= interval

\* One of --wasm and --wasm-hash; --deny-breaking and --dry-run need the file, the former
\* an old one that the new one does not break.
DeployFlagsAgree(r) ==
    /\ r.wasm # r.wasm_hash
    /\ r.wasm_hash => ~r.deny_breaking /\ ~r.build_only
    /\ r.deny_breaking => r.old_wasm = "compatible"

OneStepStops(r, cmd) ==
    \/ (cmd = "deploy" \/ ~r.no_wait) /\ ~validate_poll_pair(r.timeout, r.interval)
    \/ resolve_network_config(r.flags) = NoVal
    \/ ~guard_mutating_network(resolve_network_config(r.flags), network_is_explicit(r.flags))
    \/ r.identity \notin DOMAIN Identities \/ r.args # "good"
    \/ cmd = "deploy" /\ ~DeployFlagsAgree(r)

\* Each envelope is signed for the configured passphrase.
SignAll(made, source, passphrase) == [i \in DOMAIN made |-> sign_envelope_with(made[i], source, passphrase)]

\* invoke --build-only keeps the envelope, deploy --dry-run says the id alone.
OnlyBuild(cmd, env, net, source, passphrase) ==
    /\ answer' = Says(cmd, "ok")
    /\ \/ /\ cmd = "invoke"
          /\ file' = env
          /\ used' = [net |-> net, priced |-> TRUE, base |-> sequences[net][source],
                      by |-> <<[key |-> source, label |-> [kind |-> "passphrase", passphrase |-> passphrase]]>>]
       \/ cmd = "deploy" /\ UNCHANGED <<file, used>>
    /\ Nowhere

\* The envelopes go out one after the other; the later ones may fail.
SendAll(cmd, signed, net, source, named) ==
    IF \A i \in DOMAIN signed : Accepts(net, signed[i], sequences[net][source] + i - 1)
    THEN \E count \in DOMAIN signed :
            /\ Apply(net, source, count, named)
            /\ answer' = Says(cmd, IF count = Len(signed) THEN "applied" ELSE "failed")
            /\ UNCHANGED <<file, used>>
    ELSE answer' = Says(cmd, "failed") /\ Keep

OneStep(r, cmd, made) ==
    LET cfg == resolve_network_config(r.flags)
        source == Identities[r.identity]
        signed == SignAll(made, source, cfg.passphrase)
    IN IF OneStepStops(r, cmd) THEN answer' = Says(cmd, "error") /\ Keep
       ELSE \/ (cmd = "deploy" => ~r.build_only) /\ answer' = Says(cmd, "error") /\ Keep   \* not reached
            \/ r.build_only /\ OnlyBuild(cmd, signed[1], Endpoint(cfg), source, cfg.passphrase)
            \/ ~r.build_only /\ SendAll(cmd, signed, Endpoint(cfg), source, NamedByFlag(r.flags))

OneStepParams(r, ahead) ==
    [source |-> Identities[r.identity], fee |-> Simulated(r).total_fee, contract |-> "C", function |-> "f",
     args |-> r.args, memo |-> "none",
     sequence |-> NextSequence(resolve_network_config(r.flags), Identities[r.identity]) + ahead]

InvokeEnvelopes(r) ==
    <<build_invoke_transaction_with_data(OneStepParams(r, 0), Simulated(r).data, Simulated(r).auth)>>

CliInvoke(r) == OneStep(r, "invoke", InvokeEnvelopes(r)) /\ UNCHANGED networkVars

CreateEnvelope(r, ahead) ==
    IF r.constructor
    THEN build_create_contract_v2_tx_with_data_and_auth(OneStepParams(r, ahead), Simulated(r).data, Simulated(r).auth)
    ELSE build_create_contract_tx_with_data_and_auth(OneStepParams(r, ahead), Simulated(r).data, Simulated(r).auth)

\* A WASM file is uploaded first; module Deploy has the steps one by one.
DeployEnvelopes(r) ==
    IF r.wasm
    THEN <<build_upload_wasm_tx_with_data_and_auth(OneStepParams(r, 0), Simulated(r).data, Simulated(r).auth),
           CreateEnvelope(r, 1)>>
    ELSE <<CreateEnvelope(r, 0)>>

CliDeploy(r) == OneStep(r, "deploy", DeployEnvelopes(r)) /\ UNCHANGED networkVars

\* call: one simulation of an unsigned envelope of a placeholder account, whatever network
\* resolves; --abi and --abi-contract exclude each other before anything is asked.
CliCall(r) ==
    /\ LET cfg == resolve_network_config(r.flags)
           env == build_invoke_transaction([source |-> CHOOSE a \in Keys : TRUE, sequence |-> 0, fee |-> 0, contract |-> "C",
                                            function |-> "f", args |-> r.args, memo |-> "none"])
       IN \E reachable \in BOOLEAN :
             answer' = Says("call", IF (r.abi /\ r.abi_contract) \/ cfg = NoVal \/ r.args # "good" \/ env = NoVal \/ ~reachable
                                    THEN "error" ELSE "ok")
    /\ Keep
    /\ UNCHANGED networkVars

\* Another program of the same account.
OthersTransaction(net, account) ==
    /\ sequences' = [sequences EXCEPT ![net][account] = @ + 1]
    /\ UNCHANGED <<file, used, answer, applied>>
    /\ UNCHANGED networkVars

Bounded == FoldFunction(+, 0, [n \in Nets |-> FoldFunction(+, 0, sequences[n])]) < MaxApplied

TxToolsInit ==
    /\ NetworksInit
    /\ sequences = [n \in Nets |-> [a \in Keys |-> 0]]
    /\ file = NoVal /\ used = NothingUsed /\ answer = Says("none", "none") /\ applied = {}

TxToolsNext ==
    \/ \E r \in BuildRequests : file = NoVal /\ TxBuild(r)
    \/ \E b \in TxBuilders : file = NoVal /\ TxBuilderBuild(b)
    \/ file # NoVal /\ Len(file.signatures) < MaxSigned /\ \E r \in SignRequests : TxSign(r)
    \/ \E f \in Flags : Len(used.by) = 0 /\ TxSimulate(f)
    \/ Bounded /\ \E f \in Flags : TxSubmit(f)
    \/ Bounded /\ \E r \in InvokeRequests : CliInvoke(r) \/ CliDeploy(r)
    \/ file = NoVal /\ \E r \in InvokeRequests : CliCall(r)
    \/ Bounded /\ \E o \in Rivals : OthersTransaction(o.net, o.account)
    \/ Len(used.by) = 1 /\ (TxValidate \/ TxDecode)

TxToolsSpec == TxToolsInit /\ [][TxToolsNext \/ (NetworksNext /\ UNCHANGED txVars)]_<<networkVars, txVars>>

-----------------------------------------------------------------------------
(* Nothing is applied on mainnet unless the operator named a network, by a flag of the
   command that sent it or, before tx submit, by the label it was signed under: a
   .sdkt.toml that points at mainnet, under whatever passphrase and host, is not enough
   (guard_mutating_network, tx sign --network, invoke, deploy). *)
NamedBeforeMainnet == \A t \in applied : t.net = Public => t.named # {}

(* No run checks this: what is applied on mainnet was sent by a command whose flags named
   a network. A tx submit without flags sends an envelope signed for mainnet earlier to
   the mainnet endpoint of a .sdkt.toml with another passphrase, which
   guard_mutating_network cannot tell from a test network. *)
SubmitIsNamed == \A t \in applied : t.net = Public => "flag" \in t.named

(* An envelope built online with fee and sequence from the network, signed once by its
   source for that network and submitted there before anything else of the account is
   accepted: build_invoke_transaction_with_data, sign_envelope_with and the sequence of
   tx build agree with what the network asks. *)
HandoffWorks == answer.cmd = "submit" /\ answer.status = "failed" => ~answer.expected

(* tx build warns of exactly the envelopes that do not pay for their resources although
   the operator chose no fee, whether nothing was asked or the network did not answer; a
   fee that was chosen is the envelope's, one that was priced covers the resources, and
   what was priced with a sequence of the network passes tx validate. *)
UnpricedIsWarned ==
    answer.cmd = "build" /\ answer.status = "ok" =>
       /\ answer.told = "warned" <=> file.data = NoVal /\ answer.fee = NoVal
       /\ answer.told = "priced" <=> file.data # NoVal
       /\ answer.fee # NoVal => file.fee = answer.fee
       /\ answer.told = "priced" => file.fee >= file.data.fee + INCLUSION_FEE
       /\ used.priced => validate_tx(file) = {}

\* Lower-casing leaves the labels of the signatures as they are.
LabelsAreLower == \A i \in DOMAIN used.by : SignNetwork(used.by[i].label) \in {NoVal, Named(used.by[i].label)}

(* The steps from tx build to tx submit keep their word: an envelope made as documented
   is accepted, unless a custom passphrase has capitals (Network::parse), and one that
   does not pay for its resources is warned of, unless its fee was chosen. *)
EnvelopesAreHonest == (LabelsAreLower => HandoffWorks) /\ UnpricedIsWarned
=============================================================================
