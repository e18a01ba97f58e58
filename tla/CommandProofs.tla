--------------------------- MODULE CommandProofs ---------------------------
(***************************************************************************)
(* What is promised of the commands that a user or an agent runs. By hand, *)
(* for every set of flags, profiles, identities and requests: what         *)
(* diagnose calls ok is the network it was pointed at, nothing is applied  *)
(* on mainnet unless the operator named it, and envelopes are accepted     *)
(* where they were made for. By the agent, for every request and every     *)
(* exit of a command: it only reads, it goes to the endpoint that was      *)
(* spelled out, the candidate and the baseline it names keep their roles,  *)
(* and its answer is of the command it ran. Of storage keys, for all that  *)
(* are written and read: a footprint is the one asked for.                 *)
(***************************************************************************)
EXTENDS TxTools, Agent, StorageKeys, FiniteSetTheorems, SequenceTheorems, TLAPS

-----------------------------------------------------------------------------
\* Networks.

\* What the flags can name is a network with an endpoint.
Configured ==
    /\ dotfile \in DotFiles
    /\ DOMAIN profiles = ProfileNames
    /\ \A n \in ProfileNames : profiles[n].state = "ok" =>
          profiles[n].network \in Profiles /\ profiles[n].network.rpc_url # NoVal

\* What a probe has got so far is what its endpoint says of itself.
ProbeHears ==
    /\ {"pc", "cmd", "name", "cfg", "got"} \subseteq DOMAIN probe
    /\ {"ledger", "health", "network", "root", "limits"} \subseteq DOMAIN probe.got
    /\ probe.pc # "idle" => probe.cmd \in {"check", "diagnose"}
    /\ probe.got.health \in {NoVal, "healthy", "unhealthy"}
    /\ probe.got.network # NoVal => probe.got.network.passphrase = probe.cfg.rpc_url.serves

ReportIsTrue ==
    /\ {"status", "exit", "name", "cfg", "got", "check", "listed", "shown"} \subseteq DOMAIN said
    /\ ProbesAreTrue

NetworksInv == Configured /\ ProbeHears /\ ReportIsTrue

(* Answers at one protocol version agree with the one getNetwork gave
   (classify_protocol). *)
LEMMA ConsistentAgree ==
    ASSUME NEW got, got.network # NoVal, classify_protocol(got) # "inconsistent",
           NEW k \in {"ledger", "root"}, got[k] # NoVal
    PROVE  got[k].protocol = got.network.protocol
PROOF
<1> DEFINE asked == {j \in {"network", "ledger", "root"} : got[j] # NoVal}
           reports == {got[j].protocol : j \in asked}
<1>1. "network" \in asked /\ k \in asked  OBVIOUS
<1>2. got.network.protocol \in reports /\ got[k].protocol \in reports  BY <1>1
<1>3. IsFiniteSet(reports)
  <2> DEFINE two == ({} \cup {got["network"].protocol}) \cup {got["ledger"].protocol}
             all == two \cup {got["root"].protocol}
  <2>1. IsFiniteSet({} \cup {got["network"].protocol})  BY FS_EmptySet, FS_AddElement, Zenon
  <2>2. IsFiniteSet(two)  BY <2>1, FS_AddElement, Zenon
  <2> HIDE DEF two
  <2>3. IsFiniteSet(all)  BY <2>2, FS_AddElement, Zenon
  <2> USE DEF two
  <2>4. reports \subseteq all  OBVIOUS
  <2> HIDE DEF all, reports
  <2> QED BY <2>3, <2>4, FS_Subset
<1>4. Cardinality(reports) = 1  BY <1>2 DEF classify_protocol
<1> HIDE DEF reports, asked
<1>5. PICK x : reports = {x}  BY <1>3, <1>4, FS_Singleton
<1> QED BY <1>2, <1>5

(* What diagnose calls ok is the network it was pointed at (Diagnosis::status). *)
LEMMA OkIsTheNetwork ==
    ASSUME NEW cfg, NEW got, diagnosis_status(cfg, got) = "ok",
           got.network # NoVal => got.network.passphrase = cfg.rpc_url.serves
    PROVE  /\ cfg.rpc_url.serves = cfg.passphrase
           /\ got.health # "unhealthy"
           /\ got.network # NoVal
           /\ \A k \in {"ledger", "root"} : got[k] # NoVal => got[k].protocol = got.network.protocol
PROOF
<1>1. /\ got.network # NoVal
      /\ classify_identity(cfg.passphrase, got.network) # "mismatch"
      /\ classify_protocol(got) # "inconsistent"
      /\ got.health \in {NoVal, "healthy"}
      BY DEF diagnosis_status
<1>2. cfg.rpc_url.serves = cfg.passphrase  BY <1>1 DEF classify_identity
<1>3. got.health # "unhealthy"  BY <1>1, NoValAssumption
<1> QED BY <1>1, <1>2, <1>3, ConsistentAgree

(* One request more keeps what the probe has heard (probe_network_profile and
   run_network_diagnose). *)
LEMMA AskHears ==
    ASSUME ProbeHears, AskEndpoint
    PROVE  ProbeHears'
PROOF
<1>1. PICK a \in Answer(probe.pc) \cup {NoVal} :
         LET got == [probe.got EXCEPT ![probe.pc] = a]
         IN probe' = [probe EXCEPT !.got = got, !.pc = Following(probe.pc, got)]
      BY DEF AskEndpoint
<1>2. probe.pc \in {"ledger", "health", "network", "root", "limits"}
      BY DEF AskEndpoint, NoAnswers
<1> DEFINE got == [probe.got EXCEPT ![probe.pc] = a]
<1>3. /\ {"ledger", "health", "network", "root", "limits"} \subseteq DOMAIN got
      /\ got.health = IF probe.pc = "health" THEN a ELSE probe.got.health
      /\ got.network = IF probe.pc = "network" THEN a ELSE probe.got.network
      BY <1>2 DEF ProbeHears
<1> HIDE DEF got
<1>4. PICK stage : stage = Following(probe.pc, got)  OBVIOUS
<1>5. probe' = [probe EXCEPT !.got = got, !.pc = stage]  BY <1>1, <1>4 DEF got
<1>6. /\ DOMAIN probe' = DOMAIN probe
      /\ probe'.got = got /\ probe'.cmd = probe.cmd /\ probe'.cfg = probe.cfg
      BY <1>5 DEF ProbeHears
<1>7. probe.cmd \in {"check", "diagnose"}  BY <1>2 DEF ProbeHears
<1>8. got.health \in {NoVal, "healthy", "unhealthy"}
      BY <1>3 DEF ProbeHears, Answer
<1>9. got.network # NoVal => got.network.passphrase = probe.cfg.rpc_url.serves
      BY <1>3 DEF ProbeHears, Answer
<1> QED BY <1>3, <1>6, <1>7, <1>8, <1>9 DEF ProbeHears

(* The report says what the probe has heard (is_healthy, Diagnosis::status). *)
LEMMA ReportKeepsTrue ==
    ASSUME ProbeHears, ReportIsTrue, ReportNetwork
    PROVE  ProbeHears' /\ ReportIsTrue'
PROOF
<1>1. probe' = NoProbe  BY DEF ReportNetwork
<1>2. ProbeHears'  BY <1>1 DEF ProbeHears, NoProbe, NoAnswers
<1> DEFINE status == IF probe.cmd = "diagnose" THEN diagnosis_status(probe.cfg, probe.got)
                     ELSE IF is_healthy(probe.got) THEN "ok"
                     ELSE IF probe.got.ledger # NoVal THEN "degraded" ELSE "unreachable"
           exit == IF status = "ok" THEN 0 ELSE 1
           check == probe.cmd = "check"
<1>3. said' = [said EXCEPT !.status = status, !.exit = exit, !.name = probe.name, !.cfg = probe.cfg,
                           !.got = probe.got, !.check = check]
      BY DEF ReportNetwork
<1>4. probe.cmd \in {"check", "diagnose"}  BY DEF ProbeHears, ReportNetwork
<1>5. status = "ok" /\ ~check => diagnosis_status(probe.cfg, probe.got) = "ok"  BY <1>4
<1>6. status \in {"ok", "degraded"} => probe.got.ledger # NoVal \/ probe.got.network # NoVal
      BY DEF diagnosis_status, is_healthy
<1> HIDE DEF status, exit, check
<1>7. /\ DOMAIN said' = DOMAIN said
      /\ said'.status = status /\ said'.cfg = probe.cfg /\ said'.got = probe.got /\ said'.check = check
      BY <1>3 DEF ReportIsTrue
<1>8. ProbesAreTrue'
  <2>1. CASE status = "ok" /\ ~check
        BY <2>1, <1>5, <1>6, <1>7, OkIsTheNetwork DEF ProbesAreTrue, ProbeHears
  <2>2. CASE ~(status = "ok" /\ ~check)  BY <2>2, <1>6, <1>7 DEF ProbesAreTrue
  <2> QED BY <2>1, <2>2
<1> QED BY <1>2, <1>7, <1>8 DEF ReportIsTrue

LEMMA NetworksStart == NetworksInit => NetworksInv
PROOF
<1> SUFFICES ASSUME NetworksInit PROVE NetworksInv  OBVIOUS
<1>1. Configured  BY DEF NetworksInit, Configured, NoProfile
<1>2. ProbeHears  BY DEF NetworksInit, ProbeHears, NoProbe, NoAnswers
<1>3. ReportIsTrue  BY DEF NetworksInit, ReportIsTrue, ProbesAreTrue, NothingSaid
<1> QED BY <1>1, <1>2, <1>3 DEF NetworksInv

(* The profile store keeps networks with an endpoint (ProfileIsValid). *)
LEMMA StoreKeepsConfigured ==
    ASSUME Configured, NEW n \in ProfileNames,
           \/ \E p \in Profiles : NetworkAdd(n, p) \/ CrashInAdd(n, p)
           \/ NetworkRemove(n)
    PROVE  Configured'
PROOF
<1> DEFINE Fit(entry) == entry.state = "ok" => entry.network \in Profiles /\ entry.network.rpc_url # NoVal
<1>1. PICK entry : profiles' = [profiles EXCEPT ![n] = entry] /\ Fit(entry)
  <2>1. ASSUME NEW p \in Profiles, NetworkAdd(n, p)
        PROVE  \E entry : profiles' = [profiles EXCEPT ![n] = entry] /\ Fit(entry)
    <3>1. Fit([state |-> "ok", network |-> p])  BY <2>1 DEF NetworkAdd, ProfileIsValid
    <3> QED BY <2>1, <3>1 DEF NetworkAdd
  <2>2. ASSUME NEW p \in Profiles, CrashInAdd(n, p)
        PROVE  \E entry : profiles' = [profiles EXCEPT ![n] = entry] /\ Fit(entry)
    <3>1. Fit([state |-> "torn", network |-> NoVal])  OBVIOUS
    <3> QED BY <2>2, <3>1 DEF CrashInAdd
  <2>3. ASSUME NetworkRemove(n)
        PROVE  \E entry : profiles' = [profiles EXCEPT ![n] = entry] /\ Fit(entry)
    <3>1. Fit(NoProfile)  BY DEF NoProfile
    <3> QED BY <2>3, <3>1 DEF NetworkRemove
  <2> QED BY <2>1, <2>2, <2>3
<1>2. dotfile' = dotfile  BY DEF NetworkAdd, CrashInAdd, NetworkRemove
<1> QED BY <1>1, <1>2 DEF Configured

(* Every step of the network commands. *)
LEMMA NetworksStep ==
    ASSUME NetworksInv, NetworksNext
    PROVE  NetworksInv'
PROOF
<1> USE DEF NetworksInv
<1>1. ASSUME NEW n \in ProfileNames,
             (\E p \in Profiles : NetworkAdd(n, p) \/ CrashInAdd(n, p)) \/ NetworkRemove(n)
      PROVE  NetworksInv'
  <2>1. UNCHANGED <<probe, said>>  BY <1>1 DEF NetworkAdd, CrashInAdd, NetworkRemove
  <2> QED BY <1>1, <2>1, StoreKeepsConfigured DEF ProbeHears, ReportIsTrue, ProbesAreTrue
<1>2. ASSUME NEW cmd \in {"check", "diagnose"}, NEW name, NEW cfg, NEW stage, StartProbe(cmd, name, cfg, stage)
      PROVE  NetworksInv'
  <2>1. /\ UNCHANGED <<dotfile, profiles, said>>
        /\ probe' = [pc |-> stage, cmd |-> cmd, name |-> name, cfg |-> cfg, got |-> NoAnswers]
        BY <1>2 DEF StartProbe, NoProbe
  <2> QED BY <2>1 DEF Configured, ProbeHears, NoAnswers, ReportIsTrue, ProbesAreTrue
<1>3. CASE Refused
  <2>1. UNCHANGED <<dotfile, profiles, probe>>  BY <1>3 DEF Refused
  <2>2. said'.status = "refused" /\ DOMAIN said' = DOMAIN NothingSaid  BY <1>3 DEF Refused, NothingSaid
  <2> QED BY <2>1, <2>2 DEF Configured, ProbeHears, ReportIsTrue, ProbesAreTrue, NothingSaid
<1>4. ASSUME NEW n \in ProfileNames, NetworkCheck(n) PROVE NetworksInv'
  <2>1. Refused \/ \E cfg : StartProbe("check", n, cfg, "ledger")  BY <1>4 DEF NetworkCheck
  <2> QED BY <2>1, <1>2, <1>3
<1>5. ASSUME NEW network, NEW f, run_network_diagnose(network, f) PROVE NetworksInv'
  <2>1. Refused \/ \E name, cfg : StartProbe("diagnose", name, cfg, "network")  BY <1>5 DEF run_network_diagnose
  <2> QED BY <2>1, <1>2, <1>3
<1>6. CASE NetworkList
  <2>1. UNCHANGED <<dotfile, profiles, probe>>  BY <1>6 DEF NetworkList
  <2>2. PICK listed, shown : said' = [said EXCEPT !.listed = listed, !.shown = shown]  BY <1>6 DEF NetworkList
  <2>3. /\ DOMAIN said' = DOMAIN said
        /\ said'.status = said.status /\ said'.cfg = said.cfg /\ said'.got = said.got /\ said'.check = said.check
        BY <2>2 DEF ReportIsTrue
  <2> QED BY <2>1, <2>3 DEF Configured, ProbeHears, ReportIsTrue, ProbesAreTrue
<1>7. CASE AskEndpoint
  <2>1. UNCHANGED <<dotfile, profiles, said>>  BY <1>7 DEF AskEndpoint
  <2> QED BY <1>7, <2>1, AskHears DEF Configured, ReportIsTrue, ProbesAreTrue
<1>8. CASE ProtocolUpgrade
  <2>1. UNCHANGED <<dotfile, profiles, probe, said>>  BY <1>8 DEF ProtocolUpgrade
  <2> QED BY <2>1 DEF Configured, ProbeHears, ReportIsTrue, ProbesAreTrue
<1>9. CASE ReportNetwork
  <2>1. UNCHANGED <<dotfile, profiles>>  BY <1>9 DEF ReportNetwork
  <2> QED BY <1>9, <2>1, ReportKeepsTrue DEF Configured
<1> QED BY <1>1, <1>4, <1>5, <1>6, <1>7, <1>8, <1>9 DEF NetworksNext

(* The commands on transactions leave all of it alone. *)
LEMMA TxToolsLeaveNetworks ==
    ASSUME TxToolsNext
    PROVE  UNCHANGED networkVars
PROOF BY DEF TxToolsNext, TxBuild, TxBuilderBuild, TxSign, TxSimulate, TxSubmit, CliInvoke, CliDeploy, CliCall,
             OthersTransaction, TxValidate, TxDecode

LEMMA NetworksHold == TxToolsSpec => []NetworksInv
PROOF
<1>1. TxToolsInit => NetworksInv  BY NetworksStart DEF TxToolsInit
<1>2. NetworksInv /\ [TxToolsNext \/ (NetworksNext /\ UNCHANGED txVars)]_<<networkVars, txVars>> => NetworksInv'
  <2>1. ASSUME NetworksInv, UNCHANGED networkVars PROVE NetworksInv'
        BY <2>1 DEF networkVars, NetworksInv, Configured, ProbeHears, ReportIsTrue, ProbesAreTrue
  <2> QED BY <2>1, NetworksStep, TxToolsLeaveNetworks
<1> QED BY <1>1, <1>2, PTL DEF TxToolsSpec

(* What network diagnose calls ok is the network it was pointed at, whatever answers
   fail to come and whatever protocol upgrades happen between two requests
   (Diagnosis::status, NetworkCheckOutcome::is_healthy). *)
THEOREM DiagnosisIsTrue == TxToolsSpec => []ProbesAreTrue
PROOF
<1>1. NetworksInv => ProbesAreTrue  BY DEF NetworksInv, ReportIsTrue
<1> QED BY <1>1, NetworksHold, PTL

-----------------------------------------------------------------------------
\* Mainnet.

\* A signature for mainnet is one the operator asked for, by a label or a flag.
Signed(env, by) ==
    /\ "signatures" \in DOMAIN env
    /\ \E S : env.signatures \in Seq(S)
    /\ \A i \in DOMAIN env.signatures :
          env.signatures[i].passphrase = Public => \E j \in DOMAIN by : Named(by[j].label) = Public

FileIsSigned ==
    /\ "by" \in DOMAIN used
    /\ \E S : used.by \in Seq(S)
    /\ file # NoVal => Signed(file, used.by)

TxToolsInv == FileIsSigned /\ NamedBeforeMainnet

(* Every builder hands out an envelope without signatures. *)
LEMMA FreshEnvelope ==
    ASSUME NEW env, "signatures" \in DOMAIN env, env.signatures = <<>>, NEW by
    PROVE  Signed(env, by)
PROOF
<1>1. env.signatures \in Seq({})  OBVIOUS
<1>2. DOMAIN env.signatures = {}  OBVIOUS
<1> QED BY <1>1, <1>2 DEF Signed

(* What tx build and the builders of a program write is unsigned. *)
LEMMA BuiltIsFresh ==
    /\ \A p : build_invoke_transaction(p) # NoVal =>
          "signatures" \in DOMAIN build_invoke_transaction(p) /\ build_invoke_transaction(p).signatures = <<>>
    /\ \A p, data, auth : build_invoke_transaction_with_data(p, data, auth) # NoVal =>
          /\ "signatures" \in DOMAIN build_invoke_transaction_with_data(p, data, auth)
          /\ build_invoke_transaction_with_data(p, data, auth).signatures = <<>>
PROOF BY DEF build_invoke_transaction, build_invoke_transaction_with_data, Tx

(* What deploy builds is unsigned. *)
LEMMA DeployIsFresh ==
    ASSUME NEW p, NEW data, NEW auth
    PROVE  /\ "signatures" \in DOMAIN build_upload_wasm_tx_with_data_and_auth(p, data, auth)
           /\ build_upload_wasm_tx_with_data_and_auth(p, data, auth).signatures = <<>>
           /\ "signatures" \in DOMAIN build_create_contract_tx_with_data_and_auth(p, data, auth)
           /\ build_create_contract_tx_with_data_and_auth(p, data, auth).signatures = <<>>
           /\ "signatures" \in DOMAIN build_create_contract_v2_tx_with_data_and_auth(p, data, auth)
           /\ build_create_contract_v2_tx_with_data_and_auth(p, data, auth).signatures = <<>>
PROOF BY DEF build_upload_wasm_tx_with_data_and_auth, build_upload_wasm_tx_with_data, build_upload_wasm_tx,
             build_create_contract_tx_with_data_and_auth, build_create_contract_tx_with_data, build_create_contract_tx,
             build_create_contract_v2_tx_with_data_and_auth, build_create_contract_v2_tx_with_data,
             build_create_contract_v2_tx, Tx

(* A label that makes tx sign sign for mainnet names mainnet (Network::parse). *)
LEMMA LabelNamesMainnet ==
    ASSUME NEW r \in SignRequests, SignNetwork(r.label) = Public
    PROVE  Named(r.label) = Public \/ SignNetwork(r.label) = NoVal
PROOF BY LowerAssumption DEF SignNetwork, Named, Test, Public, Future

(* An envelope that a network accepts carries a signature for it. *)
LEMMA AcceptedIsSigned ==
    ASSUME NEW net, NEW env, NEW sequence, Accepts(net, env, sequence)
    PROVE  \E i \in DOMAIN env.signatures : env.signatures[i].passphrase = net
PROOF BY DEF Accepts, verify_signature

LEMMA InitIsNamed == TxToolsInit => TxToolsInv
PROOF
<1> SUFFICES ASSUME TxToolsInit PROVE TxToolsInv  OBVIOUS
<1>1. used.by = <<>> /\ "by" \in DOMAIN used  BY DEF TxToolsInit, NothingUsed
<1>2. used.by \in Seq({})  BY <1>1
<1> QED BY <1>1, <1>2 DEF TxToolsInit, TxToolsInv, FileIsSigned, NamedBeforeMainnet

(* A fresh envelope, or the old one, keeps the invariant when nothing is applied. *)
LEMMA FreshKeepsNamed ==
    ASSUME TxToolsInv, applied' = applied,
           \/ UNCHANGED <<file, used>>
           \/ /\ "by" \in DOMAIN used' /\ used'.by = <<>>
              /\ "signatures" \in DOMAIN file' /\ file'.signatures = <<>>
    PROVE  TxToolsInv'
PROOF
<1>1. NamedBeforeMainnet'  BY DEF TxToolsInv, NamedBeforeMainnet
<1>2. CASE UNCHANGED <<file, used>>
      BY <1>1, <1>2 DEF TxToolsInv, FileIsSigned
<1>3. CASE /\ "by" \in DOMAIN used' /\ used'.by = <<>>
           /\ "signatures" \in DOMAIN file' /\ file'.signatures = <<>>
  <2>1. used'.by \in Seq({})  BY <1>3
  <2>2. Signed(file', used'.by)  BY <1>3, FreshEnvelope
  <2> QED BY <1>1, <1>3, <2>1, <2>2 DEF TxToolsInv, FileIsSigned
<1> QED BY <1>2, <1>3

(* tx build and the library write a fresh envelope or leave the file alone. *)
LEMMA BuildKeepsNamed ==
    ASSUME TxToolsInv,
           \/ \E r \in BuildRequests : TxBuild(r)
           \/ \E b \in TxBuilders : TxBuilderBuild(b)
    PROVE  TxToolsInv'
PROOF
<1>1. ASSUME NEW r \in BuildRequests, TxBuild(r)
      PROVE  TxToolsInv'
  <2>1. CASE Keep  BY <2>1, FreshKeepsNamed DEF Keep
  <2>2. ASSUME NEW priced \in BOOLEAN, BuildWrites(r, priced)
        PROVE  TxToolsInv'
    <3> DEFINE env == BuiltEnvelope(BuildParams(r), priced)
    <3>1. env # NoVal => "signatures" \in DOMAIN env /\ env.signatures = <<>>
          BY BuiltIsFresh DEF BuiltEnvelope
    <3> HIDE DEF env
    <3>2. applied' = applied  BY <2>2 DEF BuildWrites, Nowhere
    <3>3. env = NoVal => UNCHANGED <<file, used>>  BY <2>2 DEF BuildWrites, env
    <3>4. env # NoVal => file' = env /\ "by" \in DOMAIN used' /\ used'.by = <<>>
          BY <2>2 DEF BuildWrites, UsedToBuild, env
    <3> QED BY <3>1, <3>2, <3>3, <3>4, FreshKeepsNamed
  <2>3. Keep \/ \E priced \in BOOLEAN : BuildWrites(r, priced)
        BY <1>1 DEF TxBuild
  <2> QED BY <2>1, <2>2, <2>3
<1>2. ASSUME NEW b \in TxBuilders, TxBuilderBuild(b)
      PROVE  TxToolsInv'
  <2>1. applied' = applied  BY <1>2 DEF TxBuilderBuild, Nowhere
  <2>2. \/ UNCHANGED <<file, used>>
        \/ /\ "by" \in DOMAIN used' /\ used'.by = <<>>
           /\ "signatures" \in DOMAIN file' /\ file'.signatures = <<>>
        BY <1>2 DEF TxBuilderBuild, NothingUsed, Tx
  <2> QED BY <2>1, <2>2, FreshKeepsNamed
<1> QED BY <1>1, <1>2

(* tx sign adds a signature for the network its label names. *)
LEMMA SignKeepsNamed ==
    ASSUME TxToolsInv, NEW r \in SignRequests, TxSign(r)
    PROVE  TxToolsInv'
PROOF
<1>1. CASE Keep  BY <1>1 DEF Keep, TxToolsInv, FileIsSigned, NamedBeforeMainnet
<1>2. CASE ~Keep
  <2> DEFINE passphrase == SignNetwork(r.label)
             key == Identities[r.identity]
             by == [key |-> key, label |-> r.label]
  <2>1. /\ file # NoVal /\ passphrase # NoVal
        /\ file' = sign_envelope_with(file, key, passphrase)
        /\ used' = [used EXCEPT !.by = Append(@, by)]
        /\ applied' = applied
        BY <1>2 DEF TxSign, Nowhere
  <2>2. PICK S : used.by \in Seq(S)  BY DEF TxToolsInv, FileIsSigned
  <2>3. PICK T : file.signatures \in Seq(T)  BY <2>1 DEF TxToolsInv, FileIsSigned, Signed
  <2>4. "signatures" \in DOMAIN file /\ "by" \in DOMAIN used
        BY <2>1 DEF TxToolsInv, FileIsSigned, Signed
  <2> HIDE DEF by, passphrase, key
  <2>5. used'.by = Append(used.by, by) /\ "by" \in DOMAIN used'
        BY <2>1, <2>4
  <2>6. used'.by \in Seq(S \cup {by})
    <3>1. used.by \in Seq(S \cup {by}) /\ by \in S \cup {by}  BY <2>2
    <3> QED BY <3>1, <2>5
  <2>7. Signed(file', used'.by)
    <3>1. /\ "signatures" \in DOMAIN file'
          /\ file'.signatures \in Seq(T \cup {[key |-> key, passphrase |-> passphrase]})
          /\ \A i \in DOMAIN file'.signatures :
                \/ i \in DOMAIN file.signatures /\ file'.signatures[i] = file.signatures[i]
                \/ file'.signatures[i] = [key |-> key, passphrase |-> passphrase]
      <4> DEFINE new == [key |-> key, passphrase |-> passphrase]
      <4> HIDE DEF new
      <4>1. file'.signatures = Append(file.signatures, new) /\ "signatures" \in DOMAIN file'
            BY <2>1, <2>4 DEF sign_envelope_with, new
      <4>2. file.signatures \in Seq(T \cup {new}) /\ new \in T \cup {new}  BY <2>3
      <4>3. Append(file.signatures, new) \in Seq(T \cup {new})  BY <4>2
      <4>4. \A i \in DOMAIN Append(file.signatures, new) :
                \/ i \in DOMAIN file.signatures /\ Append(file.signatures, new)[i] = file.signatures[i]
                \/ Append(file.signatures, new)[i] = new
            BY <4>2
      <4> QED BY <4>1, <4>3, <4>4 DEF new
    <3>2. ASSUME NEW i \in DOMAIN file'.signatures, file'.signatures[i].passphrase = Public
          PROVE  \E j \in DOMAIN used'.by : Named(used'.by[j].label) = Public
      <4>1. CASE i \in DOMAIN file.signatures /\ file'.signatures[i] = file.signatures[i]
        <5>1. PICK j \in DOMAIN used.by : Named(used.by[j].label) = Public
              BY <2>1, <3>2, <4>1 DEF TxToolsInv, FileIsSigned, Signed
        <5>2. j \in DOMAIN used'.by /\ used'.by[j] = used.by[j]
              BY <2>2, <2>5
        <5> QED BY <5>1, <5>2
      <4>2. CASE file'.signatures[i] = [key |-> key, passphrase |-> passphrase]
        <5>1. passphrase = Public  BY <3>2, <4>2
        <5>2. Named(r.label) = Public  BY <5>1, <2>1, LabelNamesMainnet DEF passphrase
        <5>3. /\ Len(used.by) + 1 \in DOMAIN used'.by
              /\ used'.by[Len(used.by) + 1] = by
              BY <2>2, <2>5
        <5> QED BY <5>2, <5>3 DEF by
      <4> QED BY <3>1, <3>2, <4>1, <4>2
    <3> QED BY <3>1, <3>2 DEF Signed
  <2> QED BY <2>1, <2>5, <2>6, <2>7 DEF TxToolsInv, FileIsSigned, NamedBeforeMainnet
<1> QED BY <1>1, <1>2

(* What tx submit has applied was signed for that network, under a label that named it. *)
LEMMA SubmitKeepsNamed ==
    ASSUME TxToolsInv, NEW flags \in Flags, TxSubmit(flags)
    PROVE  TxToolsInv'
PROOF
<1> DEFINE net == Endpoint(resolve_rpc_client_mutating(flags))
           named == NamedByFlag(flags) \cup NamedByLabel(file, net)
<1>1. CASE Keep  BY <1>1 DEF Keep, TxToolsInv, FileIsSigned, NamedBeforeMainnet
<1>2. CASE ~Keep
  <2>1. /\ file # NoVal
        /\ Accepts(net, file, sequences[net][file.source])
        /\ Apply(net, file.source, 1, named)
        /\ UNCHANGED <<file, used>>
        BY <1>2 DEF TxSubmit
  <2>2. ASSUME net = Public PROVE named # {}
    <3>1. \E i \in DOMAIN file.signatures : file.signatures[i].passphrase = Public
          BY <2>1, <2>2, AcceptedIsSigned
    <3> QED BY <2>1, <2>2, <3>1 DEF TxToolsInv, FileIsSigned, Signed, SignedFor, NamedByLabel
  <2> HIDE DEF net, named
  <2>3. applied' = applied \cup {[net |-> net, named |-> named]}  BY <2>1 DEF Apply
  <2> QED BY <2>1, <2>2, <2>3 DEF TxToolsInv, FileIsSigned, NamedBeforeMainnet
<1> QED BY <1>1, <1>2

(* The first envelope of invoke or deploy carries one signature, for the configured
   passphrase. *)
LEMMA SignedForConfigured ==
    ASSUME NEW made, 1 \in DOMAIN made, "signatures" \in DOMAIN made[1], made[1].signatures = <<>>,
           NEW source, NEW passphrase
    PROVE  LET env == SignAll(made, source, passphrase)[1]
           IN /\ 1 \in DOMAIN SignAll(made, source, passphrase)
              /\ "signatures" \in DOMAIN env
              /\ env.signatures = <<[key |-> source, passphrase |-> passphrase]>>
PROOF
<1>1. /\ 1 \in DOMAIN SignAll(made, source, passphrase)
      /\ SignAll(made, source, passphrase)[1] = sign_envelope_with(made[1], source, passphrase)
      BY DEF SignAll
<1>2. /\ "signatures" \in DOMAIN sign_envelope_with(made[1], source, passphrase)
      /\ sign_envelope_with(made[1], source, passphrase).signatures = <<[key |-> source, passphrase |-> passphrase]>>
      BY DEF sign_envelope_with
<1> QED BY <1>1, <1>2

(* What mainnet accepts of invoke and deploy was let through by the guard. *)
LEMMA SendKeepsNamed ==
    ASSUME TxToolsInv, NEW cmd, NEW cfg, NEW signed, NEW net, NEW source, NEW explicit \in BOOLEAN,
           NEW named, explicit => named # {},
           guard_mutating_network(cfg, explicit), 1 \in DOMAIN signed,
           signed[1].signatures = <<[key |-> source, passphrase |-> cfg.passphrase]>>,
           SendAll(cmd, signed, net, source, named)
    PROVE  TxToolsInv'
PROOF
<1>1. CASE Keep  BY <1>1 DEF Keep, TxToolsInv, FileIsSigned, NamedBeforeMainnet
<1>2. CASE ~Keep
  <2>1. \A i \in DOMAIN signed : Accepts(net, signed[i], sequences[net][source] + i - 1)
        BY <1>2 DEF SendAll
  <2>2. PICK count \in DOMAIN signed : Apply(net, source, count, named) /\ UNCHANGED <<file, used>>
        BY <1>2 DEF SendAll
  <2>3. net = Public => named # {}
    <3>1. \E i \in DOMAIN signed[1].signatures : signed[1].signatures[i].passphrase = net
          BY <2>1, AcceptedIsSigned
    <3>2. net = cfg.passphrase  BY <3>1
    <3> QED BY <3>2 DEF guard_mutating_network
  <2>4. applied' = applied \cup {[net |-> net, named |-> named]}  BY <2>2 DEF Apply
  <2> QED BY <2>2, <2>3, <2>4 DEF TxToolsInv, FileIsSigned, NamedBeforeMainnet
<1> QED BY <1>1, <1>2

(* invoke --build-only writes an envelope signed for the network of its flags. *)
LEMMA OnlyBuildKeepsNamed ==
    ASSUME TxToolsInv, NEW cmd, NEW env, NEW net, NEW source, NEW passphrase,
           "signatures" \in DOMAIN env, env.signatures = <<[key |-> source, passphrase |-> passphrase]>>,
           OnlyBuild(cmd, env, net, source, passphrase)
    PROVE  TxToolsInv'
PROOF
<1> DEFINE label == [kind |-> "passphrase", passphrase |-> passphrase]
           by == [key |-> source, label |-> label]
<1>1. NamedBeforeMainnet'  BY DEF OnlyBuild, Nowhere, TxToolsInv, NamedBeforeMainnet
<1>2. CASE UNCHANGED <<file, used>>  BY <1>1, <1>2 DEF TxToolsInv, FileIsSigned
<1>3. CASE file' = env /\ "by" \in DOMAIN used' /\ used'.by = <<by>>
  <2>1. used'.by \in Seq({by})  BY <1>3
  <2>2. env.signatures \in Seq({[key |-> source, passphrase |-> passphrase]})  OBVIOUS
  <2>3. Named(label) = passphrase  BY DEF Named
  <2>4. 1 \in DOMAIN used'.by /\ used'.by[1].label = label  BY <1>3
  <2>5. \A i \in DOMAIN env.signatures : env.signatures[i].passphrase = passphrase  OBVIOUS
  <2> HIDE DEF label, by
  <2>6. Signed(env, used'.by)  BY <2>2, <2>3, <2>4, <2>5 DEF Signed
  <2> QED BY <1>1, <1>3, <2>1, <2>6 DEF TxToolsInv, FileIsSigned
<1>4. UNCHANGED <<file, used>> \/ (file' = env /\ "by" \in DOMAIN used' /\ used'.by = <<by>>)
      BY DEF OnlyBuild
<1> QED BY <1>2, <1>3, <1>4

(* invoke and deploy. *)
LEMMA OneStepKeepsNamed ==
    ASSUME TxToolsInv, NEW r \in InvokeRequests, NEW cmd, NEW made,
           ~OneStepStops(r, cmd) => /\ 1 \in DOMAIN made
                                    /\ "signatures" \in DOMAIN made[1] /\ made[1].signatures = <<>>,
           OneStep(r, cmd, made)
    PROVE  TxToolsInv'
PROOF
<1> DEFINE cfg == resolve_network_config(r.flags)
           source == Identities[r.identity]
           signed == SignAll(made, source, cfg.passphrase)
<1>1. CASE OneStepStops(r, cmd)
      BY <1>1 DEF OneStep, Keep, TxToolsInv, FileIsSigned, NamedBeforeMainnet
<1>2. CASE ~OneStepStops(r, cmd)
  <2>1. /\ 1 \in DOMAIN signed /\ "signatures" \in DOMAIN signed[1]
        /\ signed[1].signatures = <<[key |-> source, passphrase |-> cfg.passphrase]>>
        BY <1>2, SignedForConfigured
  <2>2. /\ guard_mutating_network(cfg, network_is_explicit(r.flags))
        /\ network_is_explicit(r.flags) \in BOOLEAN
        /\ network_is_explicit(r.flags) => NamedByFlag(r.flags) # {}
        BY <1>2 DEF OneStepStops, network_is_explicit, NamedByFlag
  <2>3. \/ Keep
        \/ OnlyBuild(cmd, signed[1], Endpoint(cfg), source, cfg.passphrase)
        \/ SendAll(cmd, signed, Endpoint(cfg), source, NamedByFlag(r.flags))
        BY <1>2 DEF OneStep
  <2>4. CASE Keep  BY <2>4 DEF Keep, TxToolsInv, FileIsSigned, NamedBeforeMainnet
  <2> HIDE DEF cfg, source, signed
  <2> QED BY <2>1, <2>2, <2>3, <2>4, OnlyBuildKeepsNamed, SendKeepsNamed
<1> QED BY <1>1, <1>2

(* The envelopes of invoke and deploy are unsigned when they are made. *)
LEMMA EnvelopesAreFresh ==
    ASSUME NEW r \in InvokeRequests, NEW cmd, ~OneStepStops(r, cmd)
    PROVE  /\ 1 \in DOMAIN InvokeEnvelopes(r)
           /\ "signatures" \in DOMAIN InvokeEnvelopes(r)[1] /\ InvokeEnvelopes(r)[1].signatures = <<>>
           /\ 1 \in DOMAIN DeployEnvelopes(r)
           /\ "signatures" \in DOMAIN DeployEnvelopes(r)[1] /\ DeployEnvelopes(r)[1].signatures = <<>>
PROOF
<1> DEFINE p == OneStepParams(r, 0)
<1>1. Identities[r.identity] \in Keys /\ Identities[r.identity] # NoVal /\ r.args = "good"
      BY KeysAssumption DEF OneStepStops
<1>2. p.source = Identities[r.identity] /\ p.contract = "C" /\ p.args = r.args
      BY DEF OneStepParams
<1> HIDE DEF p
<1>3. InvokeIsBuildable(p)
      BY <1>1, <1>2 DEF InvokeIsBuildable, decode_account_id, decode_contract_id
<1>4. \A data, auth : /\ "signatures" \in DOMAIN build_invoke_transaction_with_data(p, data, auth)
                      /\ build_invoke_transaction_with_data(p, data, auth).signatures = <<>>
      BY <1>3 DEF build_invoke_transaction_with_data, Tx
<1>5. /\ 1 \in DOMAIN InvokeEnvelopes(r)
      /\ InvokeEnvelopes(r)[1] = build_invoke_transaction_with_data(p, Simulated(r).data, Simulated(r).auth)
      BY DEF InvokeEnvelopes, p
<1>6. /\ "signatures" \in DOMAIN CreateEnvelope(r, 0) /\ CreateEnvelope(r, 0).signatures = <<>>
      BY DeployIsFresh DEF CreateEnvelope
<1>7. /\ 1 \in DOMAIN DeployEnvelopes(r)
      /\ \/ DeployEnvelopes(r)[1] = build_upload_wasm_tx_with_data_and_auth(p, Simulated(r).data, Simulated(r).auth)
         \/ DeployEnvelopes(r)[1] = CreateEnvelope(r, 0)
      BY DEF DeployEnvelopes, p
<1> QED BY <1>4, <1>5, <1>6, <1>7, DeployIsFresh

(* Every step keeps the invariant. *)
LEMMA NextKeepsNamed ==
    ASSUME TxToolsInv, [TxToolsNext \/ (NetworksNext /\ UNCHANGED txVars)]_<<networkVars, txVars>>
    PROVE  TxToolsInv'
PROOF
<1>1. CASE UNCHANGED <<file, used, applied>>
      BY <1>1 DEF TxToolsInv, FileIsSigned, NamedBeforeMainnet
<1>2. CASE (NetworksNext /\ UNCHANGED txVars) \/ UNCHANGED <<networkVars, txVars>>
      BY <1>1, <1>2 DEF txVars
<1>3. CASE TxToolsNext
  <2>1. ASSUME NEW r \in BuildRequests, TxBuild(r) PROVE TxToolsInv'  BY <2>1, BuildKeepsNamed
  <2>2. ASSUME NEW b \in TxBuilders, TxBuilderBuild(b) PROVE TxToolsInv'  BY <2>2, BuildKeepsNamed
  <2>3. ASSUME NEW r \in SignRequests, TxSign(r) PROVE TxToolsInv'  BY <2>3, SignKeepsNamed
  <2>4. ASSUME NEW f \in Flags, TxSimulate(f) PROVE TxToolsInv'  BY <1>1, <2>4 DEF TxSimulate, Keep
  <2>5. ASSUME NEW f \in Flags, TxSubmit(f) PROVE TxToolsInv'  BY <2>5, SubmitKeepsNamed
  <2>6. ASSUME NEW r \in InvokeRequests, CliInvoke(r) PROVE TxToolsInv'
        BY <2>6, OneStepKeepsNamed, EnvelopesAreFresh DEF CliInvoke
  <2>7. ASSUME NEW r \in InvokeRequests, CliDeploy(r) PROVE TxToolsInv'
        BY <2>7, OneStepKeepsNamed, EnvelopesAreFresh DEF CliDeploy
  <2>8. ASSUME NEW r \in InvokeRequests, CliCall(r) PROVE TxToolsInv'  BY <1>1, <2>8 DEF CliCall, Keep
  <2>9. ASSUME NEW o \in Rivals, OthersTransaction(o.net, o.account) PROVE TxToolsInv'
        BY <1>1, <2>9 DEF OthersTransaction
  <2>10. ASSUME TxValidate \/ TxDecode PROVE TxToolsInv'  BY <1>1, <2>10 DEF TxValidate, TxDecode, Keep
  <2> QED BY <1>3, <2>1, <2>2, <2>3, <2>4, <2>5, <2>6, <2>7, <2>8, <2>9, <2>10 DEF TxToolsNext
<1> QED BY <1>2, <1>3

(* Nothing is applied on mainnet unless the operator named a network by a flag of the
   command or by the label it was signed under, for every .sdkt.toml, profile, flag,
   identity, label and request (guard_mutating_network, tx sign). *)
THEOREM MainnetIsNamed == TxToolsSpec => []NamedBeforeMainnet
PROOF
<1>1. TxToolsInit => TxToolsInv  BY InitIsNamed
<1>2. TxToolsInv /\ [TxToolsNext \/ (NetworksNext /\ UNCHANGED txVars)]_<<networkVars, txVars>> => TxToolsInv'
      BY NextKeepsNamed
<1>3. TxToolsInv => NamedBeforeMainnet  BY DEF TxToolsInv
<1> QED BY <1>1, <1>2, <1>3, PTL DEF TxToolsSpec

-----------------------------------------------------------------------------
\* From tx build to tx submit.

\* Each signature of an envelope is the one that was asked for: by its key, for the
\* network of its label or, when the label says so, of its lower-case form.
Sealed(env, by) ==
    /\ {"source", "sequence", "fee", "ops", "data", "signatures"} \subseteq DOMAIN env
    /\ Len(env.signatures) = Len(by)
    /\ \A i \in 1 .. Len(by) : \E passphrase :
          /\ env.signatures[i] = [key |-> by[i].key, passphrase |-> passphrase]
          /\ \/ passphrase = Named(by[i].label)
             \/ passphrase # NoVal /\ passphrase = SignNetwork(by[i].label)

\* It pays what the network asks, and its sequence is the next after base.
Payable(env, base) ==
    /\ env.ops # <<>>
    /\ env.sequence = base + 1
    /\ env.data # NoVal /\ env.data.fee >= ResourceFee /\ env.fee >= env.data.fee + INCLUSION_FEE

FileIsSubmittable ==
    /\ {"net", "priced", "by", "base"} \subseteq DOMAIN used
    /\ file # NoVal => Sealed(file, used.by) /\ (used.priced => Payable(file, used.base))

SequencesType == sequences \in [Nets -> [Keys -> Nat]]

HandoffInv == SequencesType /\ FileIsSubmittable /\ EnvelopesAreHonest

(* What was done as documented is accepted (tx sign, tx submit). *)
LEMMA DoneIsAccepted ==
    ASSUME FileIsSubmittable, file # NoVal, LabelsAreLower, FileIsSigned, NEW net, DoneForNetwork(net)
    PROVE  Accepts(net, file, sequences[net][file.source])
PROOF
<1>1. /\ used.priced
      /\ Len(used.by) = 1 /\ used.by[1].key = file.source /\ Named(used.by[1].label) = net
      /\ sequences[net][file.source] = used.base
      BY DEF DoneForNetwork
<1>2. PICK passphrase :
          /\ file.signatures[1] = [key |-> used.by[1].key, passphrase |-> passphrase]
          /\ \/ passphrase = Named(used.by[1].label)
             \/ passphrase # NoVal /\ passphrase = SignNetwork(used.by[1].label)
  <2>1. Sealed(file, used.by) /\ 1 \in 1 .. Len(used.by)  BY <1>1 DEF FileIsSubmittable
  <2> QED BY <2>1 DEF Sealed
<1>3. 1 \in DOMAIN used.by
      BY <1>1 DEF FileIsSigned
<1>4. passphrase = net
      BY <1>1, <1>2, <1>3 DEF LabelsAreLower
<1>5. Len(file.signatures) = 1 /\ 1 \in DOMAIN file.signatures
      BY <1>1 DEF FileIsSubmittable, Sealed, FileIsSigned, Signed
<1>6. verify_signature(file, file.source, net)
      BY <1>1, <1>2, <1>4, <1>5 DEF verify_signature
<1>7. Payable(file, used.base)  BY <1>1 DEF FileIsSubmittable
<1> QED BY <1>1, <1>5, <1>6, <1>7 DEF Payable, Accepts

(* A network that resolves has an endpoint that serves a network. *)
LEMMA ResolvedIsServed ==
    ASSUME Configured, NEW f \in Flags \cup {r.flags : r \in BuildRequests \cup InvokeRequests},
           resolve_network_config(f) # NoVal
    PROVE  Endpoint(resolve_network_config(f)) \in Nets
PROOF
<1>1. ServesNet(f.rpc_url) /\ f.profile \in ProfileNames \cup {NoVal}  BY UrlsAssumption
<1>2. BaseNetwork.rpc_url # NoVal /\ ServesNet(BaseNetwork.rpc_url)
      BY UrlsAssumption DEF Configured, BaseNetwork, DefaultNetwork
<1>3. f.profile # NoVal => /\ GetProfile(f.profile).state = "ok"
                           /\ GetProfile(f.profile).network.rpc_url # NoVal
                           /\ ServesNet(GetProfile(f.profile).network.rpc_url)
      BY <1>1, UrlsAssumption DEF Configured, GetProfile, resolve_network_config
<1>4. PICK named : /\ named.rpc_url # NoVal /\ ServesNet(named.rpc_url)
                   /\ resolve_network_config(f).rpc_url = IF f.rpc_url = NoVal THEN named.rpc_url ELSE f.rpc_url
  <2>1. CASE f.profile = NoVal
        BY <1>2, <2>1 DEF resolve_network_config, apply_profile_overrides
  <2>2. CASE f.profile # NoVal /\ GetProfile(f.profile).network # NoVal
        BY <1>3, <2>2 DEF resolve_network_config, apply_profile_overrides
  <2>3. CASE f.profile # NoVal /\ GetProfile(f.profile).network = NoVal
        BY <1>2, <1>3, <2>3 DEF resolve_network_config, apply_profile_overrides
  <2> QED BY <2>1, <2>2, <2>3
<1> QED BY <1>1, <1>4 DEF Endpoint, ServesNet

(* What tx build prices is payable and valid, with the sequence of the network. *)
LEMMA BuiltIsPayable ==
    ASSUME Configured, SequencesType, NEW r \in BuildRequests, ~BuildStops(r), NEW priced \in BOOLEAN,
           priced => r.fee = NoVal /\ BuildOnline(r) /\ InvokeIsBuildable(BuildParams(r)),
           NEW env, env = BuiltEnvelope(BuildParams(r), priced), env # NoVal,
           NEW how, how = UsedToBuild(BuildNet(r), BuildSource(r), priced /\ r.sequence = NoVal)
    PROVE  /\ Sealed(env, how.by)
           /\ how.priced => Payable(env, how.base) /\ validate_tx(env) = {}
           /\ priced <=> env.data # NoVal
           /\ r.fee # NoVal => env.fee = r.fee
           /\ priced => env.fee >= env.data.fee + INCLUSION_FEE
PROOF
<1> DEFINE p == BuildParams(r)
<1>1. how.by = <<>> /\ how.priced = (priced /\ r.sequence = NoVal)  BY DEF UsedToBuild
<1>2. ~priced => env = Tx(p.source, p.sequence, p.fee, p.memo, Op("invoke", "f", {}), NoVal)
      BY DEF BuiltEnvelope, build_invoke_transaction, BuildParams
<1>3. priced => env = Tx(p.source, p.sequence, ResourceFee + INCLUSION_FEE, p.memo, Op("invoke", "f", {}),
                         Data(ResourceFee, {"code"}))
      BY DEF BuiltEnvelope, build_invoke_transaction_with_data, BuildParams, Simulated
<1>4. Sealed(env, how.by)
  <2>1. {"source", "sequence", "fee", "ops", "data", "signatures"} \subseteq DOMAIN env /\ env.signatures = <<>>
        BY <1>2, <1>3 DEF Tx
  <2>2. 1 .. Len(how.by) = {} /\ Len(how.by) = 0  BY <1>1
  <2> QED BY <2>1, <2>2, <1>1 DEF Sealed
<1>5. priced <=> env.data # NoVal  BY <1>2, <1>3, FeeAssumption DEF Tx
<1>6. ASSUME priced
      PROVE  /\ env.ops = <<Op("invoke", "f", {})>> /\ env.ops # <<>> /\ env.sequence = p.sequence
             /\ env.data.fee = ResourceFee /\ env.fee = ResourceFee + INCLUSION_FEE
  <2> DEFINE op == Op("invoke", "f", {})
             data == Data(ResourceFee, {"code"})
             fee == ResourceFee + INCLUSION_FEE
  <2>1. env = Tx(p.source, p.sequence, fee, p.memo, op, data)  BY <1>3, <1>6
  <2>2. data.fee = ResourceFee  BY DEF Data
  <2> HIDE DEF p, op, data, fee
  <2>3. env.ops = <<op>> /\ env.sequence = p.sequence /\ env.data = data /\ env.fee = fee  BY <2>1 DEF Tx
  <2>4. <<op>> # <<>>  OBVIOUS
  <2> QED BY <2>2, <2>3, <2>4 DEF op, data, fee
<1>7. ASSUME how.priced
      PROVE  Payable(env, how.base) /\ validate_tx(env) = {}
  <2> DEFINE cfg == resolve_network_config(r.flags)
             net == Endpoint(cfg)
             source == BuildSource(r)
  <2>1. priced /\ r.sequence = NoVal /\ BuildOnline(r)  BY <1>1, <1>7 DEF BuildOnline
  <2>2. cfg # NoVal /\ source \in Keys
        BY <2>1, KeysAssumption DEF BuildStops, decode_account_id
  <2>3. net \in Nets  BY <2>2, ResolvedIsServed
  <2>4. p.sequence = sequences[net][source] + 1
        BY <2>1 DEF BuildParams, NextSequence
  <2>5. how.base = sequences[net][source]
        BY <2>1, <2>2, <2>3, UrlsAssumption DEF UsedToBuild, BuildNet
  <2>6. sequences[net][source] \in Nat  BY <2>2, <2>3 DEF SequencesType
  <2> HIDE DEF p, cfg, net, source
  <2>0. /\ env.ops = <<Op("invoke", "f", {})>> /\ env.ops # <<>> /\ env.sequence = p.sequence
        /\ env.data.fee = ResourceFee /\ env.fee = ResourceFee + INCLUSION_FEE /\ env.data # NoVal
        BY <1>5, <1>6, <2>1
  <2>7. Payable(env, how.base)
        BY <2>0, <2>4, <2>5, <2>6, FeeAssumption DEF Payable, INCLUSION_FEE
  <2>8. ~(env.fee < MIN_FEE_STROOPS) /\ ~(env.sequence <= 0)
        BY <2>0, <2>4, <2>6, FeeAssumption DEF INCLUSION_FEE, MIN_FEE_STROOPS
  <2>9. UNION {validate_operation(env.ops[i]) : i \in DOMAIN env.ops} = {}
    <3>1. env.ops = <<Op("invoke", "f", {})>>  BY <2>0
    <3>2. validate_operation(Op("invoke", "f", {})) = {}  BY DEF validate_operation, Op
    <3>3. \A i \in DOMAIN env.ops : validate_operation(env.ops[i]) = {}
      <4> DEFINE op == Op("invoke", "f", {})
      <4> HIDE DEF op
      <4>1. \A i \in DOMAIN <<op>> : <<op>>[i] = op  OBVIOUS
      <4> QED BY <3>1, <3>2, <4>1 DEF op
    <3> QED BY <3>3
  <2> QED BY <2>0, <2>7, <2>8, <2>9 DEF validate_tx
<1>8. ASSUME priced
      PROVE  env.fee >= env.data.fee + INCLUSION_FEE
  <2>1. env.data.fee = ResourceFee /\ env.fee = ResourceFee + INCLUSION_FEE  BY <1>6, <1>8
  <2> QED BY <2>1, FeeAssumption DEF INCLUSION_FEE
<1>9. r.fee # NoVal => env.fee = r.fee
  <2>1. ASSUME r.fee # NoVal  PROVE p.fee = r.fee  BY <2>1 DEF BuildParams
  <2> HIDE DEF p
  <2> QED BY <1>2, <2>1 DEF Tx
<1> QED BY <1>4, <1>5, <1>7, <1>8, <1>9

(* An answer of another command than build and submit says nothing of the file. *)
LEMMA OthersAreHonest ==
    ASSUME answer'.cmd \notin {"build", "submit"}
    PROVE  EnvelopesAreHonest'
PROOF BY DEF EnvelopesAreHonest, HandoffWorks, UnpricedIsWarned

(* tx build (TxBuild) and the library's builder. *)
LEMMA BuildHandsOff ==
    ASSUME Configured, HandoffInv,
           \/ \E r \in BuildRequests : TxBuild(r)
           \/ \E b \in TxBuilders : TxBuilderBuild(b)
    PROVE  HandoffInv'
PROOF
<1>1. SequencesType'
      BY DEF HandoffInv, SequencesType, TxBuild, BuildWrites, TxBuilderBuild, Keep, Nowhere
<1>2. ASSUME NEW r \in BuildRequests, TxBuild(r)
      PROVE  HandoffInv'
  <2>1. CASE answer' = Says("build", "error") /\ Keep
    <3>1. FileIsSubmittable'  BY <2>1 DEF HandoffInv, FileIsSubmittable, Keep
    <3>2. answer'.status = "error" /\ answer'.cmd = "build"  BY <2>1 DEF Says
    <3>3. EnvelopesAreHonest'  BY <3>2 DEF EnvelopesAreHonest, HandoffWorks, UnpricedIsWarned
    <3> QED BY <1>1, <3>1, <3>3 DEF HandoffInv
  <2>2. ASSUME NEW priced \in BOOLEAN, BuildWrites(r, priced), ~BuildStops(r),
               priced => r.fee = NoVal /\ BuildOnline(r) /\ InvokeIsBuildable(BuildParams(r))
        PROVE  HandoffInv'
    <3>1. PICK env : env = BuiltEnvelope(BuildParams(r), priced)  OBVIOUS
    <3>2. PICK how : how = UsedToBuild(BuildNet(r), BuildSource(r), priced /\ r.sequence = NoVal)  OBVIOUS
    <3>3. CASE env = NoVal
      <4>1. UNCHANGED <<file, used>>  BY <2>2, <3>1, <3>3 DEF BuildWrites
      <4>2. answer'.status = "error" /\ answer'.cmd = "build"  BY <2>2, <3>1, <3>3 DEF BuildWrites, Says
      <4>3. FileIsSubmittable'  BY <4>1 DEF HandoffInv, FileIsSubmittable
      <4>4. EnvelopesAreHonest'  BY <4>2 DEF EnvelopesAreHonest, HandoffWorks, UnpricedIsWarned
      <4> QED BY <1>1, <4>3, <4>4 DEF HandoffInv
    <3>4. CASE env # NoVal
      <4>1. file' = env /\ used' = how
            BY <2>2, <3>1, <3>2, <3>4 DEF BuildWrites
      <4>2. /\ answer'.cmd = "build" /\ answer'.fee = r.fee
            /\ answer'.told = IF priced THEN "priced" ELSE IF r.fee = NoVal THEN "warned" ELSE "nothing"
            BY <2>2 DEF BuildWrites, Says
      <4>3. /\ Sealed(env, how.by)
            /\ how.priced => Payable(env, how.base) /\ validate_tx(env) = {}
            /\ priced <=> env.data # NoVal
            /\ r.fee # NoVal => env.fee = r.fee
            /\ priced => env.fee >= env.data.fee + INCLUSION_FEE
            BY <2>2, <3>1, <3>2, <3>4, BuiltIsPayable DEF HandoffInv
      <4>4. {"net", "priced", "by", "base"} \subseteq DOMAIN how  BY <3>2 DEF UsedToBuild
      <4>5. FileIsSubmittable'  BY <4>1, <4>3, <4>4 DEF FileIsSubmittable
      <4>6. UnpricedIsWarned'
        <5>1. /\ answer'.told = "priced" <=> priced
              /\ answer'.told = "warned" <=> ~priced /\ r.fee = NoVal
              BY <4>2
        <5>2. validate_tx(file)' = validate_tx(env)  BY <4>1 DEF validate_tx
        <5> QED BY <4>1, <4>2, <4>3, <5>1, <5>2 DEF UnpricedIsWarned
      <4>7. EnvelopesAreHonest'  BY <4>2, <4>6 DEF EnvelopesAreHonest, HandoffWorks
      <4> QED BY <1>1, <4>5, <4>7 DEF HandoffInv
    <3> QED BY <3>3, <3>4
  <2>3. \/ answer' = Says("build", "error") /\ Keep
        \/ /\ ~BuildStops(r)
           /\ \E priced \in BOOLEAN :
                 /\ BuildWrites(r, priced)
                 /\ priced => r.fee = NoVal /\ BuildOnline(r) /\ InvokeIsBuildable(BuildParams(r))
    <3>1. PICK reachable \in BOOLEAN :
             IF BuildStops(r) \/ (r.sequence = NoVal /\ ~reachable) THEN answer' = Says("build", "error") /\ Keep
             ELSE BuildWrites(r, r.fee = NoVal /\ BuildOnline(r) /\ reachable /\ InvokeIsBuildable(BuildParams(r)))
          BY <1>2 DEF TxBuild
    <3>2. PICK priced \in BOOLEAN :
             priced = (r.fee = NoVal /\ BuildOnline(r) /\ reachable /\ InvokeIsBuildable(BuildParams(r)))
          OBVIOUS
    <3> QED BY <3>1, <3>2
  <2> QED BY <2>1, <2>2, <2>3
<1>3. ASSUME NEW b \in TxBuilders, TxBuilderBuild(b)
      PROVE  HandoffInv'
  <2>1. answer'.cmd = "builder"  BY <1>3 DEF TxBuilderBuild, Says
  <2>2. EnvelopesAreHonest'  BY <2>1, OthersAreHonest
  <2>3. \/ UNCHANGED <<file, used>>
        \/ /\ {"source", "sequence", "fee", "ops", "data", "signatures"} \subseteq DOMAIN file'
           /\ file'.signatures = <<>>
           /\ used' = NothingUsed
        BY <1>3 DEF TxBuilderBuild, Tx
  <2>4. FileIsSubmittable'
    <3>1. CASE UNCHANGED <<file, used>>  BY <3>1 DEF HandoffInv, FileIsSubmittable
    <3>2. CASE ~UNCHANGED <<file, used>>
      <4>1. used'.by = <<>> /\ used'.priced = FALSE /\ {"net", "priced", "by", "base"} \subseteq DOMAIN used'
            BY <2>3, <3>2 DEF NothingUsed
      <4>2. 1 .. Len(used'.by) = {} /\ Len(file'.signatures) = Len(used'.by)  BY <2>3, <3>2, <4>1
      <4> QED BY <2>3, <3>2, <4>1, <4>2 DEF FileIsSubmittable, Sealed
    <3> QED BY <3>1, <3>2
  <2> QED BY <1>1, <2>2, <2>4 DEF HandoffInv
<1> QED BY <1>2, <1>3

(* tx sign adds the signature that was asked for and nothing else. *)
LEMMA SignHandsOff ==
    ASSUME FileIsSigned, HandoffInv, NEW r \in SignRequests, TxSign(r)
    PROVE  HandoffInv'
PROOF
<1>1. SequencesType'  BY DEF HandoffInv, SequencesType, TxSign, Keep, Nowhere
<1>2. answer'.cmd = "sign"  BY DEF TxSign, Says
<1>3. EnvelopesAreHonest'  BY <1>2, OthersAreHonest
<1>4. CASE Keep  BY <1>1, <1>3, <1>4 DEF HandoffInv, FileIsSubmittable, Keep
<1>5. CASE ~Keep
  <2> DEFINE passphrase == SignNetwork(r.label)
             key == Identities[r.identity]
             by == [key |-> key, label |-> r.label]
             seal == [key |-> key, passphrase |-> passphrase]
  <2>1. /\ file # NoVal /\ passphrase # NoVal
        /\ file' = [file EXCEPT !.signatures = Append(@, seal)]
        /\ used' = [used EXCEPT !.by = Append(@, by)]
        BY <1>5 DEF TxSign, sign_envelope_with
  <2>2. by.key = key /\ by.label = r.label /\ seal = [key |-> by.key, passphrase |-> passphrase]  OBVIOUS
  <2>3. passphrase = SignNetwork(by.label)  OBVIOUS
  <2> HIDE DEF passphrase, key, by, seal
  <2>4. PICK S : used.by \in Seq(S)  BY DEF FileIsSigned
  <2>5. PICK T : file.signatures \in Seq(T)  BY <2>1 DEF FileIsSigned, Signed
  <2>6. Sealed(file, used.by) /\ (used.priced => Payable(file, used.base))
        BY <2>1 DEF HandoffInv, FileIsSubmittable
  <2>7. /\ {"source", "sequence", "fee", "ops", "data", "signatures"} \subseteq DOMAIN file'
        /\ file'.signatures = Append(file.signatures, seal)
        /\ file'.sequence = file.sequence /\ file'.fee = file.fee /\ file'.ops = file.ops /\ file'.data = file.data
        BY <2>1, <2>6 DEF Sealed
  <2>8. /\ {"net", "priced", "by", "base"} \subseteq DOMAIN used'
        /\ used'.by = Append(used.by, by) /\ used'.priced = used.priced /\ used'.base = used.base
        BY <2>1 DEF HandoffInv, FileIsSubmittable
  <2>9. PICK n \in Nat : Len(used.by) = n /\ Len(file.signatures) = n
        BY <2>4, <2>5, <2>6 DEF Sealed
  <2>10. /\ Len(used'.by) = n + 1 /\ used'.by[n + 1] = by
         /\ \A i \in 1 .. n : used'.by[i] = used.by[i]
    <3>1. by \in S \cup {by} /\ used.by \in Seq(S \cup {by})  BY <2>4
    <3> QED BY <2>8, <2>9, <3>1
  <2>11. /\ Len(file'.signatures) = n + 1 /\ file'.signatures[n + 1] = seal
         /\ \A i \in 1 .. n : file'.signatures[i] = file.signatures[i]
    <3>1. seal \in T \cup {seal} /\ file.signatures \in Seq(T \cup {seal})  BY <2>5
    <3> QED BY <2>7, <2>9, <3>1
  <2>12. Sealed(file', used'.by)
    <3>1. ASSUME NEW i \in 1 .. n + 1
          PROVE  \E p : /\ file'.signatures[i] = [key |-> used'.by[i].key, passphrase |-> p]
                        /\ \/ p = Named(used'.by[i].label)
                           \/ p # NoVal /\ p = SignNetwork(used'.by[i].label)
      <4>1. CASE i = n + 1  BY <2>1, <2>2, <2>3, <2>10, <2>11, <4>1
      <4>2. CASE i # n + 1
        <5>1. i \in 1 .. n  BY <4>2
        <5>2. \E p : /\ file.signatures[i] = [key |-> used.by[i].key, passphrase |-> p]
                     /\ \/ p = Named(used.by[i].label)
                        \/ p # NoVal /\ p = SignNetwork(used.by[i].label)
              BY <2>6, <2>9, <5>1 DEF Sealed
        <5> QED BY <2>10, <2>11, <5>1, <5>2
      <4> QED BY <4>1, <4>2
    <3> QED BY <2>7, <2>10, <2>11, <3>1 DEF Sealed
  <2>13. used'.priced => Payable(file', used'.base)  BY <2>6, <2>7, <2>8 DEF Payable
  <2> QED BY <1>1, <1>3, <2>8, <2>12, <2>13 DEF HandoffInv, FileIsSubmittable
<1> QED BY <1>4, <1>5

(* A network counts the transactions of an account. *)
LEMMA ApplyCounts ==
    ASSUME SequencesType, NEW net, NEW source, NEW count \in Nat,
           sequences' = [sequences EXCEPT ![net][source] = @ + count]
    PROVE  SequencesType'
PROOF
<1>1. sequences' = [sequences EXCEPT ![net][source] = @ + count]  OBVIOUS
<1>2. CASE net \in Nets /\ source \in Keys
  <2>1. sequences[net] \in [Keys -> Nat] /\ sequences[net][source] + count \in Nat
        BY <1>2 DEF SequencesType
  <2>2. PICK row : row = [sequences[net] EXCEPT ![source] = @ + count]  OBVIOUS
  <2>3. row \in [Keys -> Nat]  BY <2>1, <2>2
  <2>4. sequences' = [sequences EXCEPT ![net] = row]  BY <1>1, <2>2
  <2> QED BY <2>3, <2>4 DEF SequencesType
<1>3. CASE net \in Nets /\ source \notin Keys
  <2>1. PICK row : row = [sequences[net] EXCEPT ![source] = @ + count]  OBVIOUS
  <2>2. row \in [Keys -> Nat]  BY <1>3, <2>1 DEF SequencesType
  <2>3. sequences' = [sequences EXCEPT ![net] = row]  BY <1>1, <2>1
  <2> QED BY <2>2, <2>3 DEF SequencesType
<1>4. CASE net \notin Nets
  <2>1. PICK row : sequences' = [sequences EXCEPT ![net] = row]  BY <1>1
  <2> QED BY <1>4, <2>1 DEF SequencesType
<1> QED BY <1>2, <1>3, <1>4

(* tx submit: what the network refuses was not done as documented. *)
LEMMA SubmitHandsOff ==
    ASSUME FileIsSigned, HandoffInv, NEW flags \in Flags, TxSubmit(flags)
    PROVE  HandoffInv'
PROOF
<1> DEFINE net == Endpoint(resolve_rpc_client_mutating(flags))
           named == NamedByFlag(flags) \cup NamedByLabel(file, net)
<1>1. file # NoVal /\ UNCHANGED <<file, used>>  BY DEF TxSubmit, Keep
<1>2. FileIsSubmittable'  BY <1>1 DEF HandoffInv, FileIsSubmittable
<1>3. LabelsAreLower' <=> LabelsAreLower  BY <1>1 DEF LabelsAreLower
<1>4. CASE answer' = Says("submit", "error") /\ Keep
  <2>1. answer'.cmd = "submit" /\ answer'.status = "error"  BY <1>4 DEF Says
  <2>2. EnvelopesAreHonest'  BY <2>1 DEF EnvelopesAreHonest, HandoffWorks, UnpricedIsWarned
  <2> QED BY <1>2, <1>4, <2>2 DEF HandoffInv, SequencesType, Keep
<1>5. CASE Apply(net, file.source, 1, named) /\ answer' = Says("submit", "applied")
  <2>1. answer'.cmd = "submit" /\ answer'.status = "applied"  BY <1>5 DEF Says
  <2>2. EnvelopesAreHonest'  BY <2>1 DEF EnvelopesAreHonest, HandoffWorks, UnpricedIsWarned
  <2>3. SequencesType'  BY <1>5, ApplyCounts DEF HandoffInv, Apply
  <2> QED BY <1>2, <2>2, <2>3 DEF HandoffInv
<1>6. CASE /\ ~Accepts(net, file, sequences[net][file.source])
           /\ answer' = [Says("submit", "failed") EXCEPT !.expected = DoneForNetwork(net)] /\ Keep
  <2>1. answer'.cmd = "submit" /\ answer'.expected = DoneForNetwork(net)  BY <1>6 DEF Says
  <2>2. LabelsAreLower => ~DoneForNetwork(net)
        BY <1>1, <1>6, DoneIsAccepted DEF HandoffInv
  <2>3. EnvelopesAreHonest'
        BY <1>3, <2>1, <2>2 DEF EnvelopesAreHonest, HandoffWorks, UnpricedIsWarned
  <2> QED BY <1>2, <1>6, <2>3 DEF HandoffInv, SequencesType, Keep
<1> QED BY <1>4, <1>5, <1>6 DEF TxSubmit

(* invoke --build-only writes an envelope that is as good as one built, signed and
   priced by hand. *)
LEMMA OnlyBuildHandsOff ==
    ASSUME HandoffInv, NEW cmd \in {"invoke", "deploy"}, NEW env, NEW net, NEW source, NEW passphrase,
           {"source", "sequence", "fee", "ops", "data", "signatures"} \subseteq DOMAIN env,
           env.signatures = <<[key |-> source, passphrase |-> passphrase]>>,
           cmd = "invoke" => Payable(env, sequences[net][source]),
           OnlyBuild(cmd, env, net, source, passphrase)
    PROVE  HandoffInv'
PROOF
<1> DEFINE label == [kind |-> "passphrase", passphrase |-> passphrase]
           by == [key |-> source, label |-> label]
<1>1. answer'.cmd = cmd  BY DEF OnlyBuild, Says
<1>2. EnvelopesAreHonest'  BY <1>1, OthersAreHonest
<1>3. SequencesType'  BY DEF HandoffInv, SequencesType, OnlyBuild, Nowhere
<1>4. CASE UNCHANGED <<file, used>>
      BY <1>2, <1>3, <1>4 DEF HandoffInv, FileIsSubmittable
<1>5. CASE ~UNCHANGED <<file, used>>
  <2>1. cmd = "invoke" /\ file' = env
        BY <1>5 DEF OnlyBuild
  <2>2. used' = [net |-> net, priced |-> TRUE, base |-> sequences[net][source], by |-> <<by>>]
        BY <1>5 DEF OnlyBuild
  <2>3. Named(by.label) = passphrase /\ by.key = source  BY DEF Named
  <2> HIDE DEF by
  <2>4. /\ used'.by = <<by>> /\ used'.base = sequences[net][source]
        /\ {"net", "priced", "by", "base"} \subseteq DOMAIN used'
        BY <2>2
  <2>5. Sealed(env, <<by>>)
    <3>1. Len(env.signatures) = 1 /\ env.signatures[1] = [key |-> source, passphrase |-> passphrase]  OBVIOUS
    <3>2. Len(<<by>>) = 1 /\ <<by>>[1] = by  OBVIOUS
    <3>3. \A i \in 1 .. Len(<<by>>) : i = 1  BY <3>2
    <3> QED BY <2>3, <3>1, <3>2, <3>3 DEF Sealed
  <2>6. FileIsSubmittable'  BY <2>1, <2>4, <2>5 DEF FileIsSubmittable
  <2> QED BY <1>2, <1>3, <2>6 DEF HandoffInv
<1> QED BY <1>4, <1>5

(* invoke and deploy. *)
LEMMA OneStepHandsOff ==
    ASSUME HandoffInv, NEW r \in InvokeRequests, NEW cmd \in {"invoke", "deploy"}, NEW made,
           ~OneStepStops(r, cmd) =>
              /\ 1 \in DOMAIN made /\ DOMAIN made \subseteq Nat
              /\ {"source", "sequence", "fee", "ops", "data", "signatures"} \subseteq DOMAIN made[1]
              /\ made[1].signatures = <<>>
              /\ cmd = "invoke" => Payable(made[1], sequences[Endpoint(resolve_network_config(r.flags))][Identities[r.identity]]),
           OneStep(r, cmd, made)
    PROVE  HandoffInv'
PROOF
<1> DEFINE cfg == resolve_network_config(r.flags)
           net == Endpoint(cfg)
           source == Identities[r.identity]
           signed == SignAll(made, source, cfg.passphrase)
<1>1. CASE answer' = Says(cmd, "error") /\ Keep
  <2>1. answer'.cmd = cmd  BY <1>1 DEF Says
  <2> QED BY <1>1, <2>1, OthersAreHonest DEF HandoffInv, FileIsSubmittable, SequencesType, Keep
<1>2. CASE ~OneStepStops(r, cmd) /\ OnlyBuild(cmd, signed[1], net, source, cfg.passphrase)
  <2>1. signed[1] = [made[1] EXCEPT !.signatures = Append(@, [key |-> source, passphrase |-> cfg.passphrase])]
        BY <1>2 DEF SignAll, sign_envelope_with
  <2> HIDE DEF signed
  <2>2. PICK env : env = signed[1]  OBVIOUS
  <2>3. PICK passphrase : passphrase = cfg.passphrase  OBVIOUS
  <2>4. PICK base : base = sequences[net][source]  OBVIOUS
  <2>5. PICK key : key = source  OBVIOUS
  <2>6. cmd = "invoke" => Payable(made[1], base)  BY <1>2, <2>4
  <2> HIDE DEF cfg, net, source
  <2>7. env = [made[1] EXCEPT !.signatures = Append(@, [key |-> key, passphrase |-> passphrase])]
        BY <2>1, <2>2, <2>3, <2>5
  <2>8. /\ {"source", "sequence", "fee", "ops", "data", "signatures"} \subseteq DOMAIN env
        /\ env.signatures = <<[key |-> key, passphrase |-> passphrase]>>
        /\ env.sequence = made[1].sequence /\ env.fee = made[1].fee /\ env.ops = made[1].ops /\ env.data = made[1].data
    <3>1. PICK first : first = made[1]  OBVIOUS
    <3>2. PICK seal : seal = [key |-> key, passphrase |-> passphrase]  OBVIOUS
    <3>3. env = [first EXCEPT !.signatures = Append(@, seal)]  BY <2>7, <3>1, <3>2
    <3>4. {"source", "sequence", "fee", "ops", "data", "signatures"} \subseteq DOMAIN first /\ first.signatures = <<>>
          BY <1>2, <3>1
    <3>5. Append(<<>>, seal) = <<seal>>  OBVIOUS
    <3> QED BY <3>1, <3>2, <3>3, <3>4, <3>5
  <2>9. cmd = "invoke" => Payable(env, sequences[net][key])  BY <2>4, <2>5, <2>6, <2>8 DEF Payable
  <2>10. OnlyBuild(cmd, env, net, key, passphrase)  BY <1>2, <2>2, <2>3, <2>5
  <2> QED BY <2>8, <2>9, <2>10, OnlyBuildHandsOff
<1>3. CASE ~OneStepStops(r, cmd) /\ SendAll(cmd, signed, net, source, NamedByFlag(r.flags))
  <2>1. DOMAIN signed \subseteq Nat  BY <1>3 DEF SignAll
  <2> HIDE DEF signed, net, source
  <2>2. answer'.cmd = cmd /\ UNCHANGED <<file, used>>  BY <1>3 DEF SendAll, Says, Keep
  <2>3. \/ UNCHANGED sequences
        \/ \E count \in Nat : Apply(net, source, count, NamedByFlag(r.flags))
        BY <1>3, <2>1 DEF SendAll, Keep
  <2>4. SequencesType'
    <3>1. CASE UNCHANGED sequences  BY <3>1 DEF HandoffInv, SequencesType
    <3>2. CASE \E count \in Nat : Apply(net, source, count, NamedByFlag(r.flags))
          BY <3>2, ApplyCounts DEF HandoffInv, Apply
    <3> QED BY <2>3, <3>1, <3>2
  <2> QED BY <2>2, <2>4, OthersAreHonest DEF HandoffInv, FileIsSubmittable
<1> QED BY <1>1, <1>2, <1>3 DEF OneStep

(* The envelopes of invoke and deploy, and what the network asks of that of invoke. *)
LEMMA EnvelopesArePayable ==
    ASSUME Configured, SequencesType, NEW r \in InvokeRequests
    PROVE  /\ ~OneStepStops(r, "invoke") =>
                LET env == InvokeEnvelopes(r)[1]
                IN /\ 1 \in DOMAIN InvokeEnvelopes(r) /\ DOMAIN InvokeEnvelopes(r) \subseteq Nat
                   /\ {"source", "sequence", "fee", "ops", "data", "signatures"} \subseteq DOMAIN env
                   /\ env.signatures = <<>>
                   /\ Payable(env, sequences[Endpoint(resolve_network_config(r.flags))][Identities[r.identity]])
           /\ LET env == DeployEnvelopes(r)[1]
              IN /\ 1 \in DOMAIN DeployEnvelopes(r) /\ DOMAIN DeployEnvelopes(r) \subseteq Nat
                 /\ {"source", "sequence", "fee", "ops", "data", "signatures"} \subseteq DOMAIN env
                 /\ env.signatures = <<>>
PROOF
<1> DEFINE cfg == resolve_network_config(r.flags)
           net == Endpoint(cfg)
           source == Identities[r.identity]
           p == OneStepParams(r, 0)
           data == Simulated(r).data
           auth == Simulated(r).auth
           op == Op("invoke", "f", {})
           payment == Data(ResourceFee, {"code"})
<1>1. ASSUME ~OneStepStops(r, "invoke")
      PROVE  LET env == InvokeEnvelopes(r)[1]
             IN /\ 1 \in DOMAIN InvokeEnvelopes(r) /\ DOMAIN InvokeEnvelopes(r) \subseteq Nat
                /\ {"source", "sequence", "fee", "ops", "data", "signatures"} \subseteq DOMAIN env
                /\ env.signatures = <<>>
                /\ Payable(env, sequences[net][source])
  <2>1. source \in Keys /\ r.args = "good" /\ cfg # NoVal
        BY <1>1, KeysAssumption DEF OneStepStops
  <2>2. net \in Nets  BY <2>1, ResolvedIsServed
  <2>3. sequences[net][source] \in Nat  BY <2>1, <2>2 DEF SequencesType
  <2>4. /\ p.source = source /\ p.contract = "C" /\ p.args = r.args /\ p.function = "f" /\ p.memo = "none"
        /\ p.fee = ResourceFee + INCLUSION_FEE /\ p.sequence = sequences[net][source] + 1
        BY <2>3 DEF OneStepParams, NextSequence, Simulated
  <2>5. data = payment /\ auth = {}  BY DEF Simulated
  <2>6. PICK base : base = sequences[net][source]  OBVIOUS
  <2> HIDE DEF p, cfg, net, source, data, auth
  <2>7. InvokeIsBuildable(p)
        BY <2>1, <2>4, KeysAssumption DEF InvokeIsBuildable, decode_account_id, decode_contract_id
  <2>8. PICK env : env = build_invoke_transaction_with_data(p, data, auth)  OBVIOUS
  <2>9. PICK fee : fee = ResourceFee + INCLUSION_FEE  OBVIOUS
  <2>10. env = Tx(p.source, base + 1, fee, "none", op, payment)
        BY <2>4, <2>5, <2>6, <2>7, <2>8, <2>9 DEF build_invoke_transaction_with_data
  <2>11. payment.fee = ResourceFee /\ payment # NoVal  BY FeeAssumption DEF Data
  <2> HIDE DEF op, payment
  <2>12. /\ {"source", "sequence", "fee", "ops", "data", "signatures"} \subseteq DOMAIN env
         /\ env.signatures = <<>> /\ env.ops = <<op>> /\ env.sequence = base + 1
         /\ env.fee = fee /\ env.data = payment
         BY <2>10 DEF Tx
  <2>13. <<op>> # <<>>  OBVIOUS
  <2>14. Payable(env, base)
         BY <2>9, <2>11, <2>12, <2>13, FeeAssumption DEF Payable, INCLUSION_FEE
  <2>15. InvokeEnvelopes(r) = <<env>>  BY <2>8 DEF InvokeEnvelopes, p, data, auth
  <2>16. 1 \in DOMAIN <<env>> /\ DOMAIN <<env>> \subseteq Nat /\ <<env>>[1] = env  OBVIOUS
  <2> QED BY <2>6, <2>12, <2>14, <2>15, <2>16
<1>2. \A q, d, a :
         /\ {"source", "sequence", "fee", "ops", "data", "signatures"}
               \subseteq DOMAIN build_upload_wasm_tx_with_data_and_auth(q, d, a)
         /\ {"source", "sequence", "fee", "ops", "data", "signatures"}
               \subseteq DOMAIN build_create_contract_tx_with_data_and_auth(q, d, a)
         /\ {"source", "sequence", "fee", "ops", "data", "signatures"}
               \subseteq DOMAIN build_create_contract_v2_tx_with_data_and_auth(q, d, a)
      BY DEF build_upload_wasm_tx_with_data_and_auth, build_upload_wasm_tx_with_data, build_upload_wasm_tx,
             build_create_contract_tx_with_data_and_auth, build_create_contract_tx_with_data, build_create_contract_tx,
             build_create_contract_v2_tx_with_data_and_auth, build_create_contract_v2_tx_with_data,
             build_create_contract_v2_tx, Tx
<1>3. LET env == CreateEnvelope(r, 0)
      IN {"source", "sequence", "fee", "ops", "data", "signatures"} \subseteq DOMAIN env /\ env.signatures = <<>>
      BY <1>2, DeployIsFresh DEF CreateEnvelope
<1>4. LET env == DeployEnvelopes(r)[1]
      IN /\ 1 \in DOMAIN DeployEnvelopes(r) /\ DOMAIN DeployEnvelopes(r) \subseteq Nat
         /\ {"source", "sequence", "fee", "ops", "data", "signatures"} \subseteq DOMAIN env
         /\ env.signatures = <<>>
  <2>1. CASE r.wasm
    <3>1. PICK upload : upload = build_upload_wasm_tx_with_data_and_auth(p, data, auth)  OBVIOUS
    <3>2. PICK create : create = CreateEnvelope(r, 1)  OBVIOUS
    <3>3. DeployEnvelopes(r) = <<upload, create>>  BY <2>1, <3>1, <3>2 DEF DeployEnvelopes
    <3>4. {"source", "sequence", "fee", "ops", "data", "signatures"} \subseteq DOMAIN upload /\ upload.signatures = <<>>
          BY <1>2, <3>1, DeployIsFresh
    <3>5. 1 \in DOMAIN <<upload, create>> /\ DOMAIN <<upload, create>> \subseteq Nat /\ <<upload, create>>[1] = upload
          OBVIOUS
    <3> QED BY <3>3, <3>4, <3>5
  <2>2. CASE ~r.wasm
    <3>1. PICK create : create = CreateEnvelope(r, 0)  OBVIOUS
    <3>2. DeployEnvelopes(r) = <<create>>  BY <2>2, <3>1 DEF DeployEnvelopes
    <3>3. 1 \in DOMAIN <<create>> /\ DOMAIN <<create>> \subseteq Nat /\ <<create>>[1] = create  OBVIOUS
    <3> QED BY <1>3, <3>1, <3>2, <3>3
  <2> QED BY <2>1, <2>2
<1> QED BY <1>1, <1>4

LEMMA HandoffStart == TxToolsInit => HandoffInv
PROOF
<1> SUFFICES ASSUME TxToolsInit PROVE HandoffInv  OBVIOUS
<1>1. SequencesType  BY DEF TxToolsInit, SequencesType
<1>2. FileIsSubmittable  BY DEF TxToolsInit, FileIsSubmittable, NothingUsed
<1>3. answer.cmd = "none"  BY DEF TxToolsInit, Says
<1>4. EnvelopesAreHonest  BY <1>3 DEF EnvelopesAreHonest, HandoffWorks, UnpricedIsWarned
<1> QED BY <1>1, <1>2, <1>4 DEF HandoffInv

(* Every step keeps the handoff. *)
LEMMA HandoffStep ==
    ASSUME Configured, FileIsSigned, HandoffInv,
           [TxToolsNext \/ (NetworksNext /\ UNCHANGED txVars)]_<<networkVars, txVars>>
    PROVE  HandoffInv'
PROOF
<1>1. CASE UNCHANGED txVars
      BY <1>1 DEF txVars, HandoffInv, SequencesType, FileIsSubmittable, EnvelopesAreHonest, HandoffWorks,
                  UnpricedIsWarned, LabelsAreLower
<1>2. CASE Keep /\ answer'.cmd \notin {"build", "submit"}
      BY <1>2, OthersAreHonest DEF Keep, HandoffInv, SequencesType, FileIsSubmittable
<1>3. CASE TxToolsNext
  <2>1. ASSUME NEW r \in BuildRequests, TxBuild(r) PROVE HandoffInv'  BY <2>1, BuildHandsOff
  <2>2. ASSUME NEW b \in TxBuilders, TxBuilderBuild(b) PROVE HandoffInv'  BY <2>2, BuildHandsOff
  <2>3. ASSUME NEW r \in SignRequests, TxSign(r) PROVE HandoffInv'  BY <2>3, SignHandsOff
  <2>4. ASSUME NEW f \in Flags, TxSimulate(f) PROVE HandoffInv'  BY <1>2, <2>4 DEF TxSimulate, Says
  <2>5. ASSUME NEW f \in Flags, TxSubmit(f) PROVE HandoffInv'  BY <2>5, SubmitHandsOff
  <2>6. ASSUME NEW r \in InvokeRequests, CliInvoke(r) PROVE HandoffInv'
        BY <2>6, OneStepHandsOff, EnvelopesArePayable DEF CliInvoke, HandoffInv
  <2>7. ASSUME NEW r \in InvokeRequests, CliDeploy(r) PROVE HandoffInv'
        BY <2>7, OneStepHandsOff, EnvelopesArePayable DEF CliDeploy, HandoffInv
  <2>8. ASSUME NEW r \in InvokeRequests, CliCall(r) PROVE HandoffInv'  BY <1>2, <2>8 DEF CliCall, Says
  <2>9. ASSUME NEW o \in Rivals, OthersTransaction(o.net, o.account) PROVE HandoffInv'
    <3>1. SequencesType'  BY <2>9, ApplyCounts DEF OthersTransaction, HandoffInv
    <3>2. UNCHANGED <<file, used, answer>>  BY <2>9 DEF OthersTransaction
    <3> QED BY <3>1, <3>2 DEF HandoffInv, FileIsSubmittable, EnvelopesAreHonest, HandoffWorks, UnpricedIsWarned,
                              LabelsAreLower
  <2>10. ASSUME TxValidate \/ TxDecode PROVE HandoffInv'  BY <1>2, <2>10 DEF TxValidate, TxDecode, Says
  <2> QED BY <1>3, <2>1, <2>2, <2>3, <2>4, <2>5, <2>6, <2>7, <2>8, <2>9, <2>10 DEF TxToolsNext
<1> QED BY <1>1, <1>3 DEF txVars

(* What was built online, signed once and submitted as documented is accepted, unless a
   custom passphrase has capitals; and tx build warns of exactly what does not pay for
   its resources without a chosen fee, for every network, profile, label, fee and order
   of the steps. *)
THEOREM HandoffIsHonest == TxToolsSpec => []EnvelopesAreHonest
PROOF
<1> DEFINE step == [TxToolsNext \/ (NetworksNext /\ UNCHANGED txVars)]_<<networkVars, txVars>>
<1>1. TxToolsInit => HandoffInv /\ TxToolsInv  BY HandoffStart, InitIsNamed
<1>2. NetworksInv /\ HandoffInv /\ TxToolsInv /\ step => HandoffInv' /\ TxToolsInv'
      BY HandoffStep, NextKeepsNamed DEF NetworksInv, TxToolsInv
<1>3. HandoffInv => EnvelopesAreHonest  BY DEF HandoffInv
<1> QED BY <1>1, <1>2, <1>3, NetworksHold, PTL DEF TxToolsSpec

-----------------------------------------------------------------------------
(* The agent. *)

\* The first of some positions is one of them.
LEMMA FirstIsOne ==
    ASSUME NEW n \in Nat, NEW S, S \subseteq 1 .. n, S # {}
    PROVE  FirstOf(S) \in S /\ \A j \in S : FirstOf(S) <= j
PROOF
<1>1. PICK R : IsWellFoundedOn(R, Nat) /\ \A x, y \in Nat : x < y => <<x, y>> \in R
  <2> DEFINE less == OpToRel(<, Nat)
  <2>1. IsWellFoundedOn(less, Nat)  BY NatLessThanWellFounded
  <2>2. \A x, y \in Nat : x < y => <<x, y>> \in less  BY Zenon DEF OpToRel
  <2> HIDE DEF less
  <2> QED BY <2>1, <2>2, Zenon
<1>2. S \subseteq Nat /\ IsWellFoundedOn(R, Nat)  BY <1>1
<1>3. PICK m \in S : \A y \in S : ~(<<y, m>> \in R)  BY <1>2, WFMin, Zenon
<1>4. ASSUME NEW j \in S  PROVE m <= j
  <2> SUFFICES ASSUME j < m  PROVE FALSE  OBVIOUS
  <2>1. j \in Nat /\ m \in Nat  BY <1>2
  <2>2. <<j, m>> \in R  BY <1>1, <2>1, Zenon
  <2> QED BY <1>3, <2>2
<1> QED BY <1>4, Zenon DEF FirstOf

-----------------------------------------------------------------------------
\* Refusals

Codes == {"unrecognised", "ambiguous", "mutation", "missing_argument", "ambiguous_roles", "blocked_unsafe",
          "unsupported_argument", "unmappable_argument", "refused_network"}
Gates == [bad : BOOLEAN, code : Codes]

LEMMA GateOf == ASSUME NEW b, b \in BOOLEAN, NEW c \in Codes  PROVE [bad |-> b, code |-> c] \in Gates
  BY DEF Gates

LEMMA ArgumentGateOf == ASSUME NEW cap, NEW args  PROVE ArgumentGate(cap, args) \in Seq(Gates)
PROOF
<1>1. "unsupported_argument" \in Codes  BY DEF Codes
<1> HIDE DEF Codes
<1> QED BY <1>1 DEF ArgumentGate, Gates

LEMMA NetworkGateOf == ASSUME NEW cap, NEW args  PROVE NetworkGate(cap, args) \in Seq(Gates)
PROOF
<1>1. "unsupported_argument" \in Codes /\ "refused_network" \in Codes /\ "missing_argument" \in Codes  BY DEF Codes
<1> QED BY <1>1 DEF NetworkGate, Gates

LEMMA BuildGateOf == ASSUME NEW id, NEW cap, NEW args  PROVE BuildGate(id, cap, args) \in Seq(Gates)
PROOF
<1>1. "unsupported_argument" \in Codes /\ "unmappable_argument" \in Codes /\ "missing_argument" \in Codes  BY DEF Codes
<1> QED BY <1>1 DEF BuildGate, Gates

\* A command is built when no gate is closed, and refused for the first that is.
LEMMA ArgvOrRefusal ==
    ASSUME NEW id, NEW args
    PROVE  \/ /\ build_argv(id, args) = [run |-> TRUE, code |-> Absent, id |-> id, argv |-> ArgvWords(id, find(id), args)]
              /\ \A i \in 1 .. Len(ArgumentGate(find(id), args)) : ~ArgumentGate(find(id), args)[i].bad
              /\ \A i \in 1 .. Len(NetworkGate(find(id), args)) : ~NetworkGate(find(id), args)[i].bad
           \/ build_argv(id, args).run = FALSE /\ build_argv(id, args).code \in Codes
PROOF
<1> DEFINE cap == find(id)
           a == ArgumentGate(cap, args)
           n == NetworkGate(cap, args)
           b == BuildGate(id, cap, args)
           gates == a \o (n \o b)
           failed == {i \in DOMAIN gates : gates[i].bad}
<1>1. a \in Seq(Gates) /\ n \in Seq(Gates) /\ b \in Seq(Gates)  BY ArgumentGateOf, NetworkGateOf, BuildGateOf
<1>2. build_argv(id, args) = IF failed # {} THEN Refuse(gates[FirstOf(failed)].code)
                             ELSE [run |-> TRUE, code |-> Absent, id |-> id, argv |-> ArgvWords(id, cap, args)]
      BY DEF build_argv
<1> HIDE DEF cap, a, n, b
<1>3. n \o b \in Seq(Gates) /\ Len(n \o b) = Len(n) + Len(b) /\ \A i \in 1 .. Len(n) : (n \o b)[i] = n[i]
      BY <1>1, ConcatProperties
<1>4. gates \in Seq(Gates) /\ Len(gates) = Len(a) + Len(n \o b) /\ (\A i \in 1 .. Len(a) : gates[i] = a[i])
      /\ \A i \in (Len(a) + 1) .. (Len(a) + Len(n \o b)) : gates[i] = (n \o b)[i - Len(a)]
      BY <1>1, <1>3, ConcatProperties
<1> HIDE DEF gates
<1>5. CASE failed = {}
  <2>1. ASSUME NEW i \in 1 .. Len(n)  PROVE ~n[i].bad
    <3>1. Len(a) \in Nat /\ Len(n) \in Nat /\ Len(b) \in Nat  BY <1>1
    <3>2. i + Len(a) \in (Len(a) + 1) .. (Len(a) + Len(n \o b)) /\ (i + Len(a)) - Len(a) = i  BY <1>3, <3>1
    <3>3. gates[i + Len(a)] = n[i]  BY <1>3, <1>4, <3>2
    <3>4. i + Len(a) \in DOMAIN gates  BY <1>3, <1>4, <3>1
    <3> QED BY <1>5, <3>3, <3>4
  <2>2. ASSUME NEW i \in 1 .. Len(a)  PROVE ~a[i].bad
    <3>1. Len(a) \in Nat /\ Len(n) \in Nat /\ Len(b) \in Nat  BY <1>1
    <3>2. i \in DOMAIN gates  BY <1>3, <1>4, <3>1
    <3> QED BY <1>4, <1>5, <3>2
  <2> QED BY <1>2, <1>5, <2>1, <2>2 DEF a, n, cap
<1>6. CASE failed # {}
  <2>1. Len(gates) \in Nat /\ failed \subseteq 1 .. Len(gates)  BY <1>4
  <2> HIDE DEF failed
  <2>2. FirstOf(failed) \in 1 .. Len(gates)  BY <1>6, <2>1, FirstIsOne
  <2> DEFINE k == FirstOf(failed)
  <2> HIDE DEF k
  <2>5. gates[k] \in Gates  BY <1>4, <2>2 DEF k
  <2>3. gates[FirstOf(failed)].code \in Codes  BY <2>5 DEF Gates, k
  <2>4. build_argv(id, args) = Refuse(gates[FirstOf(failed)].code)  BY <1>2, <1>6
  <2> QED BY <2>3, <2>4 DEF Refuse
<1> QED BY <1>5, <1>6

\* What is understood is a capability with the arguments of the request.
LEMMA ParseSays ==
    ASSUME NEW req
    PROVE  \/ /\ parse(req).ok /\ parse(req).args = extract_args(req)
              /\ parse(req).id \in DOMAIN INTENT_KEYWORDS /\ validate_args(parse(req).id, extract_args(req)) = Absent
           \/ ~parse(req).ok /\ parse(req).code \in Codes
PROOF
<1>1. \A id, args : validate_args(id, args) \in Codes \cup {Absent}  BY DEF validate_args, Codes
<1>2. "unrecognised" \in Codes /\ "ambiguous" \in Codes /\ "mutation" \in Codes  BY DEF Codes
<1> DEFINE words == UNION {req[i].words : i \in DOMAIN req}
           hit == [id \in {d \in DOMAIN INTENT_KEYWORDS : Keywords(d, words) # {}} |-> Keywords(id, words)]
           matched == {id \in DOMAIN hit : ~ \E other \in DOMAIN hit : hit[id] \subseteq hit[other] /\ hit[id] # hit[other]}
           readonly == {id \in matched : ~is_mutating(id)}
           The(s) == CHOOSE id \in s : TRUE
           args == extract_args(req)
           Error(code) == [ok |-> FALSE, code |-> code, id |-> Absent, args |-> NoArgs]
           code1 == validate_args(The(readonly), args)
           good == [ok |-> TRUE, code |-> Absent, id |-> The(readonly), args |-> args]
<1>3. parse(req) = CASE matched = {} -> Error("unrecognised")
                     [] Cardinality(readonly) > 1 -> Error("ambiguous")
                     [] Cardinality(readonly) = 1 -> IF code1 # Absent THEN Error(code1) ELSE good
                     [] Cardinality(matched) = 1 -> Error("mutation")
                     [] OTHER -> Error("ambiguous")
      BY Zenon DEF parse
<1>4. good.ok = TRUE /\ good.args = extract_args(req) /\ good.id = The(readonly)  BY Zenon
<1>5. \A c : Error(c).ok = FALSE /\ Error(c).code = c  OBVIOUS
<1>6. code1 \in Codes \cup {Absent}  BY <1>1
<1>8. readonly \subseteq DOMAIN INTENT_KEYWORDS  OBVIOUS
<1>9. code1 = validate_args(The(readonly), extract_args(req))  OBVIOUS
<1>10. readonly # {} => The(readonly) \in readonly  OBVIOUS
<1> HIDE DEF Codes, matched, readonly, code1, good, Error, The
<1>7. (parse(req) = good /\ Cardinality(readonly) = 1 /\ code1 = Absent) \/ \E c \in Codes : parse(req) = Error(c)
      BY <1>2, <1>3, <1>6
<1>11. Cardinality(readonly) = 1 => readonly # {}  BY FS_EmptySet
<1> QED BY <1>4, <1>5, <1>7, <1>8, <1>9, <1>10, <1>11

LEMMA PlanSays ==
    ASSUME NEW req
    PROVE  \/ /\ plan(req).run = TRUE /\ parse(req).ok
              /\ find(plan(req).id).safety = "read_only" /\ plan(req).id \in DOMAIN INTENT_KEYWORDS
              /\ validate_args(plan(req).id, extract_args(req)) = Absent
              /\ plan(req) = build_argv(plan(req).id, extract_args(req))
           \/ plan(req).run = FALSE /\ plan(req).code \in Codes
PROOF
<1>1. "blocked_unsafe" \in Codes  BY DEF Codes
<1> HIDE DEF Codes
<1>2. CASE ~parse(req).ok
  <2>1. plan(req) = Refuse(IF parse(req).code = "mutation" THEN "blocked_unsafe" ELSE parse(req).code)
        BY <1>2 DEF plan
  <2>2. parse(req).code \in Codes  BY <1>2, ParseSays
  <2> QED BY <1>1, <2>1, <2>2 DEF Refuse
<1>3. CASE parse(req).ok
  <2> DEFINE intent == parse(req)
  <2>1. /\ plan(req) = plan_intent(intent) /\ intent.args = extract_args(req)
        /\ intent.id \in DOMAIN INTENT_KEYWORDS /\ validate_args(intent.id, extract_args(req)) = Absent
        BY <1>3, ParseSays DEF plan
  <2> HIDE DEF intent
  <2>2. CASE find(intent.id).safety # "read_only" \/ find(intent.id).requires_confirmation
    <3>1. plan(req) = Refuse("blocked_unsafe")  BY <2>1, <2>2 DEF plan_intent
    <3> QED BY <1>1, <3>1 DEF Refuse
  <2>3. CASE ~(find(intent.id).safety # "read_only" \/ find(intent.id).requires_confirmation)
    <3>1. plan(req) = build_argv(intent.id, extract_args(req)) /\ find(intent.id).safety = "read_only"
          BY <2>1, <2>3 DEF plan_intent
    <3>2. CASE build_argv(intent.id, extract_args(req)).run = FALSE
               /\ build_argv(intent.id, extract_args(req)).code \in Codes
          BY <3>1, <3>2
    <3>3. CASE build_argv(intent.id, extract_args(req)) =
                 [run |-> TRUE, code |-> Absent, id |-> intent.id, argv |-> ArgvWords(intent.id, find(intent.id), extract_args(req))]
      <4>1. plan(req).run = TRUE /\ plan(req).id = intent.id  BY <3>1, <3>3
      <4> QED BY <1>3, <2>1, <3>1, <4>1
    <3> QED BY <3>2, <3>3, ArgvOrRefusal
  <2> QED BY <2>2, <2>3
<1> QED BY <1>2, <1>3

-----------------------------------------------------------------------------
\* What each point of the agent implies about the child, the deadline and the answer.
AgentInv ==
    /\ child \in [state : {"none", "running", "exited", "killed"}, code : ExitCodes \cup {Absent}, json : BOOLEAN]
    /\ pc \in {"idle", "spawn", "poll", "decide", "join", "answered"}
    /\ pc \in {"idle", "spawn"} => child.state = "none"
    /\ pc \in {"spawn", "poll", "decide", "join"} => planned.run
    /\ pc \in {"idle", "spawn", "poll", "decide"} => seen # "error"
    /\ pc \in {"poll", "decide"} => child.state \in {"running", "exited"}
    /\ pc = "decide" => seen \in {"running", "exited"} /\ (seen = "exited" => child.state = "exited")
    /\ pc = "join" => /\ seen \in {"exited", "timeout"}
                      /\ seen = "exited" => child.state = "exited"
                      /\ seen = "timeout" => late /\ child.state # "running"
                      /\ child.state # "none"
    /\ AnswerMatchesRun

\* An answer that ends a run tells it as it was.
LEMMA ToldOfRun ==
    ASSUME NEW id, NEW raw
    PROVE  LET shown == from_execution(id, raw)
           IN /\ shown.status \in {"success", "failed"} /\ (shown.status = "success" <=> raw.code = 0)
              /\ shown.timed_out = raw.timed_out
              /\ shown.executed => raw.code # Absent \/ raw.timed_out
              /\ shown.told \in {"verdict", "verdict_without_report"} =>
                    ~raw.spawn_failed /\ ~raw.timed_out /\ raw.code # Absent
PROOF
<1> DEFINE shown == from_execution(id, raw)
<1>1. explain(id, raw, shown.json) \in {"verdict", "verdict_without_report"} =>
          ~raw.spawn_failed /\ ~raw.timed_out /\ raw.code # Absent
      BY DEF explain
<1>2. shown.told = explain(id, raw, shown.json)  BY DEF from_execution
<1> QED BY <1>1, <1>2 DEF from_execution

LEMMA AgentStarts == AgentInit => AgentInv
  BY AbsentAssumption DEF AgentInit, AgentInv, AnswerMatchesRun, NoRun, NoChild, NoResult

LEMMA AgentStepKeeps ==
    ASSUME AgentInv, [AgentNext]_agentVars  PROVE AgentInv'
PROOF
<1>0. Absent # 0  BY AbsentAssumption
<1> USE DEF AgentInv
<1>1. CASE UNCHANGED agentVars  BY <1>1 DEF agentVars, AnswerMatchesRun
<1>2. ASSUME NEW req \in Requests, AskAgent(req)  PROVE AgentInv'
  <2>1. UNCHANGED <<child, late, seen>> /\ pc = "idle"  BY <1>2 DEF AskAgent
  <2>2. CASE planned'.run
    <3>1. pc' = "spawn"  BY <1>2, <2>2 DEF AskAgent
    <3> QED BY <2>1, <2>2, <3>1 DEF AnswerMatchesRun
  <2>3. CASE ~planned'.run
    <3>1. pc' = "answered" /\ result' = refused(planned'.code)  BY <1>2, <2>3 DEF AskAgent
    <3>2. /\ result'.status \in {"blocked", "needs_clarification"} /\ ~result'.timed_out /\ ~result'.executed
          BY <3>1 DEF refused, NoResult
    <3>3. result'.told = planned'.code  BY <3>1 DEF refused, NoResult
    <3>4. planned' = plan(req)  BY <1>2 DEF AskAgent
    <3>5. planned'.code \in Codes  BY <2>3, <3>4, PlanSays
    <3>6. result'.told \notin {"verdict", "verdict_without_report"}  BY <3>3, <3>5 DEF Codes
    <3> QED BY <2>1, <2>3, <3>1, <3>2, <3>6 DEF AnswerMatchesRun
  <2> QED BY <2>2, <2>3
<1>3. CASE Spawn  
  <2>1. UNCHANGED <<request, planned, late, seen>> /\ pc = "spawn"  BY <1>3 DEF Spawn
  <2>2. CASE child' = [NoChild EXCEPT !.state = "running"] /\ pc' = "poll" /\ UNCHANGED result
        BY <2>1, <2>2 DEF NoChild, AnswerMatchesRun
  <2>3. CASE ~(child' = [NoChild EXCEPT !.state = "running"] /\ pc' = "poll" /\ UNCHANGED result)
    <3> DEFINE raw == [code |-> Absent, timed_out |-> FALSE, spawn_failed |-> TRUE, json |-> FALSE]
    <3>1. result' = from_execution(planned.id, raw) /\ pc' = "answered" /\ UNCHANGED child  BY <1>3, <2>3 DEF Spawn
    <3>2. raw.code = Absent /\ ~raw.timed_out /\ raw.spawn_failed  OBVIOUS
    <3> HIDE DEF raw
    <3>3. /\ result'.status = "failed" /\ ~result'.executed /\ ~result'.timed_out
          /\ result'.told \notin {"verdict", "verdict_without_report"}
          BY <1>0, <3>1, <3>2, ToldOfRun
    <3> QED BY <2>1, <3>1, <3>3 DEF AnswerMatchesRun
  <2> QED BY <2>2, <2>3
<1>4. CASE Poll
  <2>1. UNCHANGED <<request, planned, late>> /\ pc = "poll"  BY <1>4 DEF Poll
  <2>2. CASE seen' = child.state /\ pc' = "decide" /\ UNCHANGED <<child, result>>  BY <2>1, <2>2 DEF AnswerMatchesRun
  <2>3. CASE ~(seen' = child.state /\ pc' = "decide" /\ UNCHANGED <<child, result>>)
    <3> DEFINE raw == [code |-> Absent, timed_out |-> FALSE, spawn_failed |-> TRUE, json |-> FALSE]
    <3>1. result' = from_execution(planned.id, raw) /\ pc' = "answered" /\ seen' = "error"
          /\ child' = [child EXCEPT !.state = "killed"]
          BY <1>4, <2>3 DEF Poll
    <3>2. raw.code = Absent /\ ~raw.timed_out /\ raw.spawn_failed  OBVIOUS
    <3> HIDE DEF raw
    <3>3. /\ result'.status = "failed" /\ ~result'.executed /\ ~result'.timed_out
          /\ result'.told \notin {"verdict", "verdict_without_report"}
          BY <1>0, <3>1, <3>2, ToldOfRun
    <3> QED BY <2>1, <3>1, <3>3 DEF AnswerMatchesRun
  <2> QED BY <2>2, <2>3
<1>5. CASE Decide  BY <1>5 DEF Decide, AnswerMatchesRun
<1>6. CASE Join
  <2> DEFINE raw == [code |-> IF seen = "timeout" THEN Absent ELSE child.code, timed_out |-> seen = "timeout",
                     spawn_failed |-> FALSE, json |-> child.json]
  <2>1. UNCHANGED <<request, planned, child, late, seen>> /\ pc = "join" /\ child.state # "running" /\ pc' = "answered"
        /\ result' = from_execution(planned.id, raw)
        BY <1>6 DEF Join
  <2>2. /\ raw.code = IF seen = "timeout" THEN Absent ELSE child.code
        /\ raw.timed_out = (seen = "timeout")
        OBVIOUS
  <2> HIDE DEF raw
  <2>3. /\ result'.status \in {"success", "failed"} /\ (result'.status = "success" <=> raw.code = 0)
        /\ result'.timed_out = (seen = "timeout")
        /\ result'.told \in {"verdict", "verdict_without_report"} => ~(seen = "timeout") /\ raw.code # Absent
        BY <2>1, <2>2, ToldOfRun
  <2> QED BY <1>0, <2>1, <2>2, <2>3 DEF AnswerMatchesRun
<1>7. CASE DeadlinePasses  BY <1>7 DEF DeadlinePasses, AnswerMatchesRun
<1>8. ASSUME NEW code \in ExitCodes, NEW json \in BOOLEAN, ChildExits(code, json)  PROVE AgentInv'
      BY <1>8 DEF ChildExits, AnswerMatchesRun
<1>9. CASE ChildForks  BY <1>9 DEF ChildForks, AnswerMatchesRun
<1>10. ASSUME NEW json \in BOOLEAN, HeirEnds(json)  PROVE AgentInv'
  <2>1. child'.state = child.state /\ child'.code = child.code  BY <1>10 DEF HeirEnds
  <2>2. child' \in [state : {"none", "running", "exited", "killed"}, code : ExitCodes \cup {Absent}, json : BOOLEAN]
        BY <1>10 DEF HeirEnds
  <2> QED BY <1>10, <2>1, <2>2 DEF HeirEnds, AnswerMatchesRun
<1> QED BY <1>1, <1>2, <1>3, <1>4, <1>5, <1>6, <1>7, <1>8, <1>9, <1>10 DEF AgentNext

\* What the agent says is what happened.
THEOREM AnswerIsOfTheRun == AgentSpec => []AnswerMatchesRun
PROOF
<1>1. AgentInv => AnswerMatchesRun  BY DEF AgentInv
<1> QED BY <1>1, AgentStarts, AgentStepKeeps, PTL DEF AgentSpec

-----------------------------------------------------------------------------
\* What the agent takes from a request

LEMMA Induction ==
    ASSUME NEW n \in Nat, NEW P, 0 \in P, \A i \in 0..(n - 1) : i \in P => i + 1 \in P
    PROVE  0..n \subseteq P
PROOF
<1> DEFINE S == {i \in 0..n : i \notin P}
<1>1. SUFFICES ASSUME S # {}  PROVE FALSE  OBVIOUS
<1>2. CASE 0 \in S  BY <1>2
<1>3. CASE 0 \notin S
  <2>1. S \subseteq 1 .. n  BY <1>3
  <2> HIDE DEF S
  <2>2. FirstOf(S) \in S /\ \A j \in S : FirstOf(S) <= j  BY <1>1, <2>1, FirstIsOne
  <2>3. PICK m \in S : \A j \in S : m <= j  BY <2>2
  <2>4. m \in 1 .. n /\ m - 1 \in 0..(n - 1) /\ (m - 1) + 1 = m  BY <2>1, <2>3
  <2>5. m - 1 \notin S  BY <2>3, <2>4
  <2> QED BY <2>4, <2>5 DEF S
<1> QED BY <1>2, <1>3

IsRequest(req) == Len(req) \in Nat /\ req = [i \in 1 .. Len(req) |-> req[i]] /\ \A i \in 1 .. Len(req) : req[i].text # Absent
TextsOf(req, kind) == {req[i].text : i \in {j \in DOMAIN req : req[j].kind = kind}}
SpelledOf(req, flag) == {FlagValue(req, i) : i \in {j \in DOMAIN req : req[j].kind = "flag" /\ req[j].text = flag}}
FlagsOf(req) == {[name |-> req[i].text, value |-> FlagValue(req, i)] : i \in {j \in DOMAIN req : req[j].kind = "flag"}}

Fields == {"contract", "wasm", "previous_wasm", "artifact_paths", "candidate_claims", "baseline_claims", "source_path",
           "function", "profile", "network", "rpc_url", "network_passphrase", "envelope", "typed_args", "use_rpc",
           "base_fees", "explicit_flags"}

\* The endpoint and the flags that the tokens gave so far are those of the request.
Taken(req, args) ==
    /\ DOMAIN args = Fields
    /\ args.rpc_url \in {Absent} \cup TextsOf(req, "url")
    /\ args.explicit_flags \in Seq(FlagsOf(req))
TakenState(req, st) == DOMAIN st = {"args", "pending", "skip"} /\ Taken(req, st.args)

Start == [args |-> NoArgs, pending |-> "none", skip |-> FALSE]

LEMMA PathIsPushed ==
    ASSUME NEW req, NEW args, Taken(req, args), NEW path, NEW claim  PROVE Taken(req, push_path(args, path, claim))
  BY DEF Taken, Fields, push_path

LEMMA TokenIsTaken ==
    ASSUME NEW req, NEW i \in DOMAIN req, NEW st, TakenState(req, st)  PROVE TakenState(req, TakeToken(req, st, i))
PROOF
<1> DEFINE t == req[i]
           v == FlagValue(req, i)
           r == TakeToken(req, st, i)
<1>1. CASE st.skip
  <2>1. r = [st EXCEPT !.skip = FALSE]  BY <1>1 DEF TakeToken
  <2> QED BY <2>1 DEF TakenState
<1>2. CASE ~st.skip /\ t.kind = "flag"
  <2> DEFINE f == [name |-> t.text, value |-> v]
             noted == [st EXCEPT !.args.explicit_flags = Append(@, f), !.skip = t.value = Absent /\ v # Absent]
  <2>1. r = IF FlagRole(t.text) = "none" \/ v = Absent THEN noted
            ELSE [noted EXCEPT !.args = push_path(noted.args, v, FlagRole(t.text)), !.pending = "none"]
        BY <1>2 DEF TakeToken
  <2>2. f \in FlagsOf(req)  BY <1>2 DEF FlagsOf
  <2>3. Append(st.args.explicit_flags, f) \in Seq(FlagsOf(req))  BY <2>2, AppendProperties DEF TakenState, Taken
  <2> HIDE DEF f, v
  <2>4. TakenState(req, noted)  BY <2>3 DEF TakenState, Taken, Fields
  <2> HIDE DEF noted
  <2>5. Taken(req, push_path(noted.args, v, FlagRole(t.text)))  BY <2>4, PathIsPushed DEF TakenState
  <2>6. TakenState(req, [noted EXCEPT !.args = push_path(noted.args, v, FlagRole(t.text)), !.pending = "none"])
        BY <2>4, <2>5 DEF TakenState
  <2> QED BY <2>1, <2>4, <2>6
<1>3. CASE ~st.skip /\ t.kind # "flag"
  <2>0. DOMAIN st = {"args", "pending", "skip"} /\ DOMAIN st.args = Fields /\ Taken(req, st.args)
        BY DEF TakenState, Taken
  <2>1. CASE t.kind = "contract"
    <3>1. r = [st EXCEPT !.args.contract = t.text]  BY <1>3, <2>1 DEF TakeToken
    <3> QED BY <2>0, <3>1 DEF TakenState, Taken, Fields
  <2>2. CASE t.kind = "wasm"
    <3> DEFINE args == push_path(st.args, t.text, IF st.pending # "none" THEN st.pending ELSE t.role)
    <3>1. r = [st EXCEPT !.args = args, !.pending = "none"]  BY <1>3, <2>2 DEF TakeToken
    <3>2. Taken(req, args)  BY <2>0, PathIsPushed
    <3> HIDE DEF args
    <3> QED BY <2>0, <3>1, <3>2 DEF TakenState
  <2>3. CASE t.kind = "rs"
    <3>1. r = [st EXCEPT !.args.source_path = t.text]  BY <1>3, <2>3 DEF TakeToken
    <3> QED BY <2>0, <3>1 DEF TakenState, Taken, Fields
  <2>4. CASE t.kind \in {"xdr", "blob"}
    <3>1. r = [st EXCEPT !.args.envelope = IF @ = Absent THEN t.text ELSE @]  BY <1>3, <2>4 DEF TakeToken
    <3> QED BY <2>0, <3>1 DEF TakenState, Taken, Fields
  <2>5. CASE t.kind = "url"
    <3>1. r = [st EXCEPT !.args.rpc_url = IF @ = Absent THEN t.text ELSE @]  BY <1>3, <2>5 DEF TakeToken
    <3>2. t.text \in TextsOf(req, "url")  BY <2>5 DEF TextsOf
    <3> QED BY <2>0, <3>1, <3>2 DEF TakenState, Taken, Fields
  <2>6. CASE t.kind \notin {"contract", "wasm", "rs", "xdr", "blob", "url"}
    <3>1. r \in {[st EXCEPT !.args.network = t.text], [st EXCEPT !.pending = "baseline"],
                [st EXCEPT !.pending = "candidate"], st}
          BY <1>3, <2>6 DEF TakeToken
    <3> QED BY <2>0, <3>1 DEF TakenState, Taken, Fields
  <2> QED BY <2>1, <2>2, <2>3, <2>4, <2>5, <2>6
<1> QED BY <1>1, <1>2, <1>3

NamedIn(req, P) == UNION {ArtifactAt(req, i) : i \in P}
MarkedIn(req, P, role) == UNION {ArtifactAt(req, i) : i \in {j \in P : MarkedRole(req, j) = role}}

\* The artifacts of the request differ in more than their capitals.
ApartIn(req) == ApartIgnoringCase(NamedIn(req, 1 .. Len(req)))

\* The artifacts named up to k and the claims on them; no role is given yet.
PathsSoFar(req, k, args) ==
    /\ args.artifact_paths = NamedIn(req, 1 .. k)
    /\ IsFiniteSet(args.artifact_paths)
    /\ args.candidate_claims \cup args.baseline_claims \subseteq args.artifact_paths
    /\ MarkedIn(req, 1 .. k, "candidate") \subseteq args.candidate_claims
    /\ MarkedIn(req, 1 .. k, "baseline") \subseteq args.baseline_claims
    /\ args.wasm = Absent /\ args.previous_wasm = Absent

\* A value is skipped after its flag, and a marker word is pending for what follows it.
RolesSoFar(req, k, st) ==
    /\ DOMAIN st = {"args", "pending", "skip"} /\ DOMAIN st.args = Fields
    /\ PathsSoFar(req, k, st.args)
    /\ st.skip \in BOOLEAN /\ (st.skip <=> IsValue(req, k + 1))
    /\ k >= 1 /\ req[k].kind = "word" =>
          /\ req[k].text \in BASELINE_MARKERS => st.pending = "baseline"
          /\ req[k].text \in CANDIDATE_MARKERS => st.pending = "candidate"

LEMMA PathsGrow ==
    ASSUME NEW req, NEW k \in Nat, k >= 1, NEW args, PathsSoFar(req, k - 1, args), NEW new, NEW path,
           LET a == ArtifactAt(req, k)
           IN /\ a \subseteq {path} /\ new.artifact_paths = args.artifact_paths \cup a
              /\ args.candidate_claims \subseteq new.candidate_claims /\ new.candidate_claims \subseteq args.candidate_claims \cup a
              /\ args.baseline_claims \subseteq new.baseline_claims /\ new.baseline_claims \subseteq args.baseline_claims \cup a
              /\ MarkedRole(req, k) = "candidate" => a \subseteq new.candidate_claims
              /\ MarkedRole(req, k) = "baseline" => a \subseteq new.baseline_claims
              /\ new.wasm = args.wasm /\ new.previous_wasm = args.previous_wasm
    PROVE  PathsSoFar(req, k, new)
PROOF
<1> DEFINE a == ArtifactAt(req, k)
<1>1. \A i \in 1 .. k : i \in 1 .. (k - 1) \/ i = k  OBVIOUS
<1>2. k \in 1 .. k /\ \A i \in 1 .. (k - 1) : i \in 1 .. k  OBVIOUS
<1>3. NamedIn(req, 1 .. k) = NamedIn(req, 1 .. (k - 1)) \cup a
  <2>1. \A P, x : x \in NamedIn(req, P) <=> \E i \in P : x \in ArtifactAt(req, i)  BY DEF NamedIn
  <2>2. \A x : (\E i \in 1 .. k : x \in ArtifactAt(req, i)) <=> (\E i \in 1 .. (k - 1) : x \in ArtifactAt(req, i)) \/ x \in a
        BY <1>1, <1>2, Zenon
  <2> HIDE DEF a
  <2>3. \A x : x \in NamedIn(req, 1 .. k) <=> x \in NamedIn(req, 1 .. (k - 1)) \cup a  BY <2>1, <2>2
  <2> QED BY <2>3, Zenon
<1>4. \A role : MarkedIn(req, 1 .. k, role) \subseteq
                   MarkedIn(req, 1 .. (k - 1), role) \cup (IF MarkedRole(req, k) = role THEN a ELSE {})
      BY <1>1 DEF MarkedIn
<1>5. IsFiniteSet(args.artifact_paths \cup a)
  <2>1. IsFiniteSet({path})  BY FS_Singleton
  <2>2. IsFiniteSet(a)  BY <2>1, FS_Subset
  <2> QED BY <2>2, FS_Union DEF PathsSoFar
<1> HIDE DEF a
<1>6. MarkedIn(req, 1 .. k, "candidate") \subseteq new.candidate_claims
  <2>1. MarkedIn(req, 1 .. (k - 1), "candidate") \subseteq new.candidate_claims  BY DEF PathsSoFar
  <2> QED BY <1>4, <2>1 DEF a
<1>7. MarkedIn(req, 1 .. k, "baseline") \subseteq new.baseline_claims
  <2>1. MarkedIn(req, 1 .. (k - 1), "baseline") \subseteq new.baseline_claims  BY DEF PathsSoFar
  <2> QED BY <1>4, <2>1 DEF a
<1>8. new.artifact_paths = args.artifact_paths \cup a  BY DEF a
<1>9. new.artifact_paths = NamedIn(req, 1 .. k)  BY <1>3, <1>8 DEF PathsSoFar
<1>10. new.candidate_claims \cup new.baseline_claims \subseteq new.artifact_paths  BY <1>8 DEF PathsSoFar, a
<1> QED BY <1>5, <1>6, <1>7, <1>8, <1>9, <1>10 DEF PathsSoFar

\* A token that names nothing changes no path and no claim.
LEMMA PathsStay ==
    ASSUME NEW req, NEW k \in Nat, k >= 1, NEW args, PathsSoFar(req, k - 1, args), ArtifactAt(req, k) = {}, NEW new,
           \A f \in {"artifact_paths", "candidate_claims", "baseline_claims", "wasm", "previous_wasm"} : new[f] = args[f]
    PROVE  PathsSoFar(req, k, new)
PROOF
<1>1. /\ new.artifact_paths = args.artifact_paths /\ new.candidate_claims = args.candidate_claims
      /\ new.baseline_claims = args.baseline_claims /\ new.wasm = args.wasm /\ new.previous_wasm = args.previous_wasm
      OBVIOUS
<1> QED BY <1>1, PathsGrow

\* A path is taken once: one that is there in other capitals is the same one.
LEMMA PathIsAdded ==
    ASSUME NEW req, ApartIn(req), NEW k \in 1 .. Len(req), NEW args, DOMAIN args = Fields, PathsSoFar(req, k - 1, args),
           Len(req) \in Nat, NEW path \in ArtifactAt(req, k), NEW claim
    PROVE  push_path(args, path, claim).artifact_paths = args.artifact_paths \cup {path}
PROOF
<1> DEFINE old == args.artifact_paths
<1>1. push_path(args, path, claim).artifact_paths =
        old \cup (IF \E p \in old : eq_ignore_ascii_case(p, path) THEN {} ELSE {path})
      BY DEF push_path, Fields
<1>2. \A P, x : x \in NamedIn(req, P) <=> \E i \in P : x \in ArtifactAt(req, i)  BY DEF NamedIn
<1>3. path \in NamedIn(req, 1 .. Len(req))  BY <1>2
<1>4. old \subseteq NamedIn(req, 1 .. Len(req))
  <2>1. \A i \in 1 .. (k - 1) : i \in 1 .. Len(req)  OBVIOUS
  <2>2. old = NamedIn(req, 1 .. (k - 1))  BY DEF PathsSoFar
  <2> QED BY <1>2, <2>1, <2>2
<1>5. \A p \in old : eq_ignore_ascii_case(p, path) => p = path  BY <1>3, <1>4 DEF ApartIn, ApartIgnoringCase
<1> HIDE DEF old
<1>6. CASE \E p \in old : eq_ignore_ascii_case(p, path)
  <2>1. path \in old  BY <1>5, <1>6
  <2> QED BY <1>1, <1>6, <2>1 DEF old
<1>7. CASE ~ \E p \in old : eq_ignore_ascii_case(p, path)  BY <1>1, <1>7 DEF old
<1> QED BY <1>6, <1>7

LEMMA TokenNames ==
    ASSUME NEW req, IsRequest(req), ApartIn(req), NEW k \in 1 .. Len(req), NEW st, RolesSoFar(req, k - 1, st)
    PROVE  RolesSoFar(req, k, TakeToken(req, st, k))
PROOF
<1> DEFINE t == req[k]
           v == FlagValue(req, k)
           r == TakeToken(req, st, k)
<1>0. /\ k \in Nat /\ k >= 1 /\ (k - 1) + 1 = k /\ k + 1 > 1 /\ (k + 1) - 1 = k /\ t.text # Absent
      /\ DOMAIN st = {"args", "pending", "skip"} /\ DOMAIN st.args = Fields /\ PathsSoFar(req, k - 1, st.args)
      /\ st.skip \in BOOLEAN /\ (st.skip <=> IsValue(req, k))
      BY DEF IsRequest, RolesSoFar
<1>1. CASE IsValue(req, k)
  <2>1. t.kind \notin {"flag", "word"}
    <3>1. k > 1 /\ req[k - 1].value = Absent /\ FlagValue(req, k - 1) # Absent  BY <1>1 DEF IsValue
    <3>2. t.kind = "quoted" \/ looks_like_value(t)  BY <1>0, <3>1 DEF FlagValue
    <3> QED BY <3>2 DEF looks_like_value
  <2>2. r = [st EXCEPT !.skip = FALSE]  BY <1>0, <1>1 DEF TakeToken
  <2>3. ArtifactAt(req, k) = {} /\ ~IsValue(req, k + 1)  BY <1>0, <1>1, <2>1 DEF ArtifactAt, IsValue
  <2>4. PathsSoFar(req, k, st.args)  BY <1>0, <2>3, PathsStay
  <2> QED BY <1>0, <2>1, <2>2, <2>3, <2>4 DEF RolesSoFar
<1>2. CASE ~IsValue(req, k) /\ t.kind = "flag"
  <2> DEFINE f == [name |-> t.text, value |-> v]
             noted == [st EXCEPT !.args.explicit_flags = Append(@, f), !.skip = t.value = Absent /\ v # Absent]
             role == FlagRole(t.text)
             pushed == push_path(noted.args, v, role)
  <2>1. r = IF role = "none" \/ v = Absent THEN noted ELSE [noted EXCEPT !.args = pushed, !.pending = "none"]
        BY <1>0, <1>2 DEF TakeToken
  <2>2. IsValue(req, k + 1) = (t.value = Absent /\ v # Absent)  BY <1>0, <1>2 DEF IsValue
  <2>3. ArtifactAt(req, k) = (IF role # "none" THEN {v} \ {Absent} ELSE {}) /\ MarkedRole(req, k) = role
        BY <1>2 DEF ArtifactAt, MarkedRole
  <2> HIDE DEF f, v, role
  <2>4. /\ DOMAIN noted = {"args", "pending", "skip"} /\ DOMAIN noted.args = Fields
        /\ noted.skip \in BOOLEAN /\ (noted.skip <=> IsValue(req, k + 1))
        /\ \A x \in {"artifact_paths", "candidate_claims", "baseline_claims", "wasm", "previous_wasm"} : noted.args[x] = st.args[x]
        BY <1>0, <2>2 DEF Fields
  <2> HIDE DEF noted
  <2>5. CASE role = "none" \/ v = Absent
    <3>1. ArtifactAt(req, k) = {}  BY <2>3, <2>5
    <3>2. PathsSoFar(req, k, noted.args)  BY <1>0, <2>4, <3>1, PathsStay
    <3> QED BY <1>2, <2>1, <2>4, <2>5, <3>2 DEF RolesSoFar
  <2>6. CASE ~(role = "none" \/ v = Absent)
    <3>1. r = [noted EXCEPT !.args = pushed, !.pending = "none"] /\ ArtifactAt(req, k) = {v}  BY <2>1, <2>3, <2>6
    <3>0. PathsSoFar(req, k - 1, noted.args)
      <4>1. /\ noted.args.artifact_paths = st.args.artifact_paths /\ noted.args.candidate_claims = st.args.candidate_claims
            /\ noted.args.baseline_claims = st.args.baseline_claims /\ noted.args.wasm = st.args.wasm
            /\ noted.args.previous_wasm = st.args.previous_wasm
            BY <2>4
      <4> QED BY <1>0, <4>1 DEF PathsSoFar
    <3>a. Len(req) \in Nat /\ v \in ArtifactAt(req, k)  BY <3>1 DEF IsRequest
    <3>b. pushed.artifact_paths = noted.args.artifact_paths \cup {v}  BY <2>4, <3>0, <3>a, PathIsAdded
    <3>2. /\ DOMAIN pushed = Fields /\ pushed.artifact_paths = noted.args.artifact_paths \cup {v}
          /\ pushed.candidate_claims = noted.args.candidate_claims \cup (IF role = "candidate" THEN {v} ELSE {})
          /\ pushed.baseline_claims = noted.args.baseline_claims \cup (IF role = "baseline" THEN {v} ELSE {})
          /\ pushed.wasm = noted.args.wasm /\ pushed.previous_wasm = noted.args.previous_wasm
          BY <2>4, <3>b DEF push_path, Fields
    <3> HIDE DEF pushed
    <3>3. /\ noted.args.artifact_paths = st.args.artifact_paths /\ noted.args.candidate_claims = st.args.candidate_claims
          /\ noted.args.baseline_claims = st.args.baseline_claims /\ noted.args.wasm = st.args.wasm
          /\ noted.args.previous_wasm = st.args.previous_wasm
          BY <2>4
    <3>4. PathsSoFar(req, k, pushed)  BY <1>0, <2>3, <3>1, <3>2, <3>3, PathsGrow
    <3>5. r.args = pushed /\ r.skip = noted.skip /\ DOMAIN r = {"args", "pending", "skip"}  BY <2>4, <3>1
    <3> QED BY <1>2, <2>4, <3>2, <3>4, <3>5 DEF RolesSoFar
  <2> QED BY <2>5, <2>6
<1>3. CASE ~IsValue(req, k) /\ t.kind = "wasm"
  <2> DEFINE claim == IF st.pending # "none" THEN st.pending ELSE t.role
             pushed == push_path(st.args, t.text, claim)
  <2>1. r = [st EXCEPT !.args = pushed, !.pending = "none"]  BY <1>0, <1>3 DEF TakeToken
  <2>2. ArtifactAt(req, k) = {t.text}  BY <1>0, <1>3 DEF ArtifactAt
  <2>3. /\ MarkedRole(req, k) = "baseline" => claim = "baseline"
        /\ MarkedRole(req, k) = "candidate" => claim = "candidate"
    <3>1. ASSUME MarkedRole(req, k) \in {"baseline", "candidate"}
          PROVE  /\ k # 1 /\ req[k - 1].kind = "word"
                 /\ \/ req[k - 1].text \in BASELINE_MARKERS /\ MarkedRole(req, k) = "baseline"
                    \/ req[k - 1].text \in CANDIDATE_MARKERS /\ MarkedRole(req, k) = "candidate"
      <4>1. MarkedRole(req, k) = IF k = 1 \/ req[k - 1].kind # "word" THEN "none"
                                 ELSE IF req[k - 1].text \in BASELINE_MARKERS THEN "baseline"
                                 ELSE IF req[k - 1].text \in CANDIDATE_MARKERS THEN "candidate" ELSE "none"
            BY <1>3, Zenon DEF MarkedRole
      <4> QED BY <3>1, <4>1
    <3>2. MarkedRole(req, k) \in {"baseline", "candidate"} => st.pending = MarkedRole(req, k)
          BY <1>0, <3>1 DEF RolesSoFar
    <3> QED BY <3>2
  <2> HIDE DEF claim
  <2>a. Len(req) \in Nat /\ t.text \in ArtifactAt(req, k)  BY <2>2 DEF IsRequest
  <2>b. pushed.artifact_paths = st.args.artifact_paths \cup {t.text}  BY <1>0, <2>a, PathIsAdded
  <2>4. /\ DOMAIN pushed = Fields /\ pushed.artifact_paths = st.args.artifact_paths \cup {t.text}
        /\ pushed.candidate_claims = st.args.candidate_claims \cup (IF claim = "candidate" THEN {t.text} ELSE {})
        /\ pushed.baseline_claims = st.args.baseline_claims \cup (IF claim = "baseline" THEN {t.text} ELSE {})
        /\ pushed.wasm = st.args.wasm /\ pushed.previous_wasm = st.args.previous_wasm
        BY <1>0, <2>b DEF push_path, Fields
  <2> HIDE DEF pushed
  <2>5. PathsSoFar(req, k, pushed)  BY <1>0, <2>2, <2>3, <2>4, PathsGrow
  <2>6. ~IsValue(req, k + 1)  BY <1>0, <1>3 DEF IsValue
  <2>7. r.args = pushed /\ r.skip = st.skip /\ DOMAIN r = {"args", "pending", "skip"}  BY <1>0, <2>1
  <2>8. r.skip \in BOOLEAN /\ (r.skip <=> IsValue(req, k + 1))  BY <1>0, <1>3, <2>6, <2>7
  <2> QED BY <1>3, <2>4, <2>5, <2>7, <2>8 DEF RolesSoFar
<1>4. CASE ~IsValue(req, k) /\ t.kind \notin {"flag", "wasm"}
  <2>1. ArtifactAt(req, k) = {} /\ ~IsValue(req, k + 1)  BY <1>0, <1>4 DEF ArtifactAt, IsValue
  <2> DEFINE Same(s) ==
        /\ DOMAIN s = {"args", "pending", "skip"} /\ DOMAIN s.args = Fields /\ s.skip = st.skip
        /\ \A x \in {"artifact_paths", "candidate_claims", "baseline_claims", "wasm", "previous_wasm"} : s.args[x] = st.args[x]
  <2>2. Same(r)
    <3>1. CASE t.kind = "contract"
      <4>1. r = [st EXCEPT !.args.contract = t.text]  BY <1>0, <1>4, <3>1 DEF TakeToken
      <4> QED BY <1>0, <4>1 DEF Fields
    <3>2. CASE t.kind = "rs"
      <4>1. r = [st EXCEPT !.args.source_path = t.text]  BY <1>0, <1>4, <3>2 DEF TakeToken
      <4> QED BY <1>0, <4>1 DEF Fields
    <3>3. CASE t.kind \in {"xdr", "blob"}
      <4>1. r = [st EXCEPT !.args.envelope = IF @ = Absent THEN t.text ELSE @]  BY <1>0, <1>4, <3>3 DEF TakeToken
      <4> QED BY <1>0, <4>1 DEF Fields
    <3>4. CASE t.kind = "url"
      <4>1. r = [st EXCEPT !.args.rpc_url = IF @ = Absent THEN t.text ELSE @]  BY <1>0, <1>4, <3>4 DEF TakeToken
      <4> QED BY <1>0, <4>1 DEF Fields
    <3>5. CASE t.kind \notin {"contract", "rs", "xdr", "blob", "url"}
      <4>1. r \in {[st EXCEPT !.args.network = t.text], [st EXCEPT !.pending = "baseline"],
                   [st EXCEPT !.pending = "candidate"], st}
            BY <1>0, <1>4, <3>5 DEF TakeToken
      <4> QED BY <1>0, <4>1 DEF Fields
    <3> QED BY <3>1, <3>2, <3>3, <3>4, <3>5
  <2>3. t.kind = "word" =>
          /\ t.text \in BASELINE_MARKERS => r.pending = "baseline"
          /\ t.text \in CANDIDATE_MARKERS => r.pending = "candidate"
    <3> SUFFICES ASSUME t.kind = "word", t.text \in BASELINE_MARKERS \cup CANDIDATE_MARKERS
                 PROVE  /\ t.text \in BASELINE_MARKERS => r.pending = "baseline"
                        /\ t.text \in CANDIDATE_MARKERS => r.pending = "candidate"
        OBVIOUS
    <3>1. t.text \notin {"testnet", "mainnet", "futurenet"} /\ (t.text \in CANDIDATE_MARKERS => t.text \notin BASELINE_MARKERS)
          BY DEF BASELINE_MARKERS, CANDIDATE_MARKERS
    <3>2. r = IF t.text \in BASELINE_MARKERS THEN [st EXCEPT !.pending = "baseline"] ELSE [st EXCEPT !.pending = "candidate"]
          BY <1>0, <1>4, <3>1 DEF TakeToken
    <3> QED BY <1>0, <3>1, <3>2
  <2> HIDE DEF r
  <2>4. PathsSoFar(req, k, r.args)  BY <1>0, <2>1, <2>2, PathsStay
  <2>5. r.skip \in BOOLEAN /\ (r.skip <=> IsValue(req, k + 1))  BY <1>0, <1>4, <2>1, <2>2
  <2> QED BY <2>2, <2>3, <2>4, <2>5 DEF RolesSoFar, r
<1> QED BY <1>1, <1>2, <1>3, <1>4

LEMMA NothingIsNamed == ASSUME NEW req  PROVE RolesSoFar(req, 0, Start)
PROOF
<1>1. DOMAIN Start = {"args", "pending", "skip"} /\ Start.args = NoArgs /\ Start.skip = FALSE  BY DEF Start
<1>2. DOMAIN NoArgs = Fields  BY DEF NoArgs, Fields
<1>3. /\ NoArgs.artifact_paths = {} /\ NoArgs.candidate_claims = {} /\ NoArgs.baseline_claims = {}
      /\ NoArgs.wasm = Absent /\ NoArgs.previous_wasm = Absent
      BY DEF NoArgs
<1>4. 1 .. 0 = {}  OBVIOUS
<1>5. PathsSoFar(req, 0, NoArgs)  BY <1>3, <1>4, FS_EmptySet DEF PathsSoFar, MarkedIn, NamedIn
<1>6. ~IsValue(req, 0 + 1)  BY DEF IsValue
<1>7. ~(0 >= 1)  OBVIOUS
<1> HIDE DEF PathsSoFar, IsValue
<1> QED BY <1>1, <1>2, <1>5, <1>6, <1>7 DEF RolesSoFar

\* Token by token, to the end of the request.
LEMMA TokensAreTaken ==
    ASSUME NEW req, IsRequest(req)
    PROVE  LET state[i \in 0..Len(req)] == IF i = 0 THEN [args |-> NoArgs, pending |-> "none", skip |-> FALSE]
                                           ELSE TakeToken(req, state[i - 1], i)
           IN TakenState(req, state[Len(req)]) /\ (ApartIn(req) => RolesSoFar(req, Len(req), state[Len(req)]))
PROOF
<1> DEFINE n == Len(req)
           Step(h) == [i \in 0 .. n |-> IF i = 0 THEN Start ELSE TakeToken(req, h[i - 1], i)]
           Runs(h, k) == /\ h = [i \in 0 .. k |-> h[i]] /\ h[0] = Start
                         /\ \A i \in 1 .. k : h[i] = TakeToken(req, h[i - 1], i)
<1>1. n \in Nat /\ DOMAIN req = 1 .. n  BY DEF IsRequest
<1>2. TakenState(req, Start)
  <2>1. DOMAIN Start = {"args", "pending", "skip"} /\ Start.args = NoArgs  BY DEF Start
  <2>2. DOMAIN NoArgs = Fields  BY DEF NoArgs, Fields
  <2>3. NoArgs.rpc_url = Absent /\ NoArgs.explicit_flags = <<>>  BY DEF NoArgs
  <2> QED BY <2>1, <2>2, <2>3 DEF TakenState, Taken
<1> HIDE DEF n
<1>3. \E h : h = Step(h)
  <2> DEFINE P == {k \in 0 .. n : \E h : Runs(h, k)}
  <2>1. 0 \in P
    <3>1. Runs([i \in 0 .. 0 |-> Start], 0)  OBVIOUS
    <3> HIDE DEF Runs
    <3>2. \E h : Runs(h, 0)  BY <3>1, Zenon
    <3>3. 0 \in 0 .. n  BY <1>1
    <3> QED BY <3>2, <3>3
  <2>2. ASSUME NEW k \in 0 .. (n - 1), k \in P  PROVE k + 1 \in P
    <3>1. PICK h : Runs(h, k)  BY <2>2
    <3> DEFINE g == [i \in 0 .. (k + 1) |-> IF i = k + 1 THEN TakeToken(req, h[k], k + 1) ELSE h[i]]
    <3>2. k \in Nat /\ k + 1 \in 0 .. n  BY <1>1
    <3>3. g = [i \in 0 .. (k + 1) |-> g[i]] /\ g[0] = Start  BY <3>1, <3>2
    <3>4. ASSUME NEW i \in 1 .. (k + 1)  PROVE g[i] = TakeToken(req, g[i - 1], i)
      <4>1. CASE i = k + 1
        <5>1. g[i] = TakeToken(req, h[k], k + 1) /\ g[i - 1] = h[k]  BY <3>2, <4>1
        <5> QED BY <4>1, <5>1
      <4>2. CASE i # k + 1
        <5>1. i \in 1 .. k /\ g[i] = h[i] /\ g[i - 1] = h[i - 1]  BY <3>2, <4>2
        <5>2. h[i] = TakeToken(req, h[i - 1], i)  BY <3>1, <5>1
        <5> HIDE DEF g
        <5> QED BY <5>1, <5>2
      <4> QED BY <4>1, <4>2
    <3> HIDE DEF g
    <3>5. Runs(g, k + 1)  BY <3>3, <3>4
    <3> HIDE DEF Runs
    <3> QED BY <3>2, <3>5
  <2> HIDE DEF P
  <2>3. 0 .. n \subseteq P  BY <1>1, <2>1, <2>2, Induction
  <2>4. n \in P  BY <1>1, <2>3
  <2>5. PICK h : Runs(h, n)  BY <2>4 DEF P
  <2>6. \A i \in 0 .. n : h[i] = Step(h)[i]
    <3> SUFFICES ASSUME NEW i \in 0 .. n  PROVE h[i] = IF i = 0 THEN Start ELSE TakeToken(req, h[i - 1], i)  OBVIOUS
    <3>1. CASE i = 0  BY <2>5, <3>1
    <3>2. CASE i # 0
      <4>1. i \in 1 .. n  BY <1>1, <3>2
      <4> QED BY <2>5, <3>2, <4>1
    <3> QED BY <3>1, <3>2
  <2>7. h = [i \in 0 .. n |-> h[i]]  BY <2>5
  <2>8. h = Step(h)  BY <2>6, <2>7
  <2> QED BY <2>8
<1> DEFINE s == CHOOSE h : h = Step(h)
<1>4. s = Step(s)  BY <1>3
<1> HIDE DEF s
<1>5. s[0] = Start /\ \A i \in 1 .. n : s[i] = TakeToken(req, s[i - 1], i)
  <2>1. 0 \in 0 .. n /\ \A i \in 1 .. n : i \in 0 .. n /\ i # 0  BY <1>1
  <2> QED BY <1>4, <2>1
<1> HIDE DEF Step
<1> DEFINE P == {i \in 0 .. n : TakenState(req, s[i]) /\ (ApartIn(req) => RolesSoFar(req, i, s[i]))}
<1>6. 0 \in P  BY <1>1, <1>2, <1>5, NothingIsNamed
<1>7. ASSUME NEW i \in 0 .. (n - 1), i \in P  PROVE i + 1 \in P
  <2>1. i + 1 \in 1 .. n /\ i + 1 \in 0 .. n /\ (i + 1) - 1 = i  BY <1>1
  <2>2. s[i + 1] = TakeToken(req, s[i], i + 1)  BY <1>5, <2>1
  <2>3. TakenState(req, s[i + 1])  BY <1>1, <1>7, <2>1, <2>2, TokenIsTaken
  <2>4. ASSUME ApartIn(req)  PROVE RolesSoFar(req, i + 1, s[i + 1])
    <3>1. i + 1 \in 1 .. Len(req) /\ RolesSoFar(req, (i + 1) - 1, s[i])  BY <1>7, <2>1, <2>4 DEF n
    <3> QED BY <2>2, <2>4, <3>1, TokenNames
  <2> QED BY <2>1, <2>3, <2>4
<1> HIDE DEF P
<1>8. 0 .. n \subseteq P  BY <1>1, <1>6, <1>7, Induction
<1>9. TakenState(req, s[n]) /\ (ApartIn(req) => RolesSoFar(req, n, s[n]))  BY <1>1, <1>8 DEF P
<1> QED BY <1>9 DEF s, n, Step, Start

LEMMA RolesKeepTheRest ==
    ASSUME NEW args, DOMAIN args = Fields
    PROVE  LET r == assign_artifact_roles(args)
           IN DOMAIN r = Fields /\ r.rpc_url = args.rpc_url /\ r.explicit_flags = args.explicit_flags
PROOF
<1> DEFINE paths == args.artifact_paths
           c == args.candidate_claims
           b == args.baseline_claims
           TheOne(s) == CHOOSE p \in s : TRUE
           Same(r) == DOMAIN r = Fields /\ r.rpc_url = args.rpc_url /\ r.explicit_flags = args.explicit_flags
           Roles(new, old) == [args EXCEPT !.wasm = new, !.previous_wasm = old]
           r1 == [args EXCEPT !.wasm = TheOne(paths)]
           r2 == Roles(TheOne(c), TheOne(b))
           r3 == Roles(TheOne(c), other_path(paths, TheOne(c)))
           r4 == Roles(other_path(paths, TheOne(b)), TheOne(b))
<1>1. assign_artifact_roles(args) =
        CASE Cardinality(paths) = 1 -> r1
          [] Cardinality(paths) >= 2 /\ Cardinality(c) = 1 /\ Cardinality(b) = 1 /\ c # b -> r2
          [] Cardinality(paths) = 2 /\ Cardinality(c) = 1 /\ b = {} -> r3
          [] Cardinality(paths) = 2 /\ Cardinality(b) = 1 /\ c = {} -> r4
          [] OTHER -> args
      BY Zenon DEF assign_artifact_roles
<1> HIDE DEF TheOne
<1>2. Same(r1) /\ Same(r2) /\ Same(r3) /\ Same(r4) /\ Same(args)  BY DEF Fields
<1> HIDE DEF r1, r2, r3, r4, Same
<1>3. Same(assign_artifact_roles(args))  BY <1>1, <1>2
<1> QED BY <1>3 DEF Same

\* The value of a flag is one that the request gave it.
LEMMA ValueIsGiven ==
    ASSUME NEW req, NEW args, args.explicit_flags \in Seq(FlagsOf(req)), NEW flag
    PROVE  flag_value(args, flag) = Absent \/ flag_value(args, flag) \in SpelledOf(req, flag)
PROOF
<1> DEFINE flags == args.explicit_flags
           named == {i \in DOMAIN flags : flags[i].name = flag}
<1>1. flags \in Seq(FlagsOf(req)) /\ Len(flags) \in Nat /\ DOMAIN flags = 1 .. Len(flags)  OBVIOUS
<1>2. flag_value(args, flag) = IF named = {} THEN Absent ELSE flags[FirstOf(named)].value  BY DEF flag_value
<1> HIDE DEF flags
<1>3. CASE named # {}
  <2>1. named \subseteq 1 .. Len(flags)  BY <1>1
  <2>2. FirstOf(named) \in named
    <3> HIDE DEF named
    <3> QED BY <1>1, <1>3, <2>1, FirstIsOne
  <2>3. PICK k \in named : k = FirstOf(named)  BY <2>2
  <2>4. flags[k] \in FlagsOf(req) /\ flags[k].name = flag  BY <1>1
  <2>5. flags[k].value \in SpelledOf(req, flag)  BY <2>4 DEF FlagsOf, SpelledOf
  <2> QED BY <1>2, <1>3, <2>3, <2>5
<1> QED BY <1>2, <1>3

LEMMA TwoAreAll ==
    ASSUME NEW S, IsFiniteSet(S), Cardinality(S) = 2, NEW x \in S, NEW y \in S, x # y  PROVE S = {x, y}
PROOF
<1>1. IsFiniteSet({x}) /\ Cardinality({x}) = 1  BY FS_Singleton
<1>2. IsFiniteSet({x} \cup {y}) /\ Cardinality({x} \cup {y}) = 2
  <2> DEFINE T == {x}
  <2>1. y \notin T  OBVIOUS
  <2> HIDE DEF T
  <2>2. IsFiniteSet(T \cup {y}) /\ Cardinality(T \cup {y}) = IF y \in T THEN Cardinality(T) ELSE Cardinality(T) + 1
        BY <1>1, FS_AddElement DEF T
  <2> QED BY <1>1, <2>1, <2>2 DEF T
<1>3. {x, y} \subseteq S /\ {x} \cup {y} = {x, y}  OBVIOUS
<1> QED BY <1>2, <1>3, FS_Subset

\* Two artifacts get both roles, each the one that was claimed for it, or none gets one.
LEMMA RolesAreAssigned ==
    ASSUME NEW args, DOMAIN args = Fields, IsFiniteSet(args.artifact_paths),
           args.candidate_claims \cup args.baseline_claims \subseteq args.artifact_paths,
           ApartIgnoringCase(args.artifact_paths), args.wasm = Absent, args.previous_wasm = Absent
    PROVE  LET r == assign_artifact_roles(args)
           IN /\ r.artifact_paths = args.artifact_paths
              /\ Cardinality(args.artifact_paths) = 2 =>
                    \/ r.wasm = Absent /\ r.previous_wasm = Absent
                    \/ /\ args.artifact_paths = {r.wasm, r.previous_wasm} /\ r.wasm # r.previous_wasm
                       /\ args.candidate_claims \subseteq {r.wasm} /\ args.baseline_claims \subseteq {r.previous_wasm}
PROOF
<1> DEFINE paths == args.artifact_paths
           c == args.candidate_claims
           b == args.baseline_claims
           TheOne(s) == CHOOSE p \in s : TRUE
           Roles(new, old) == [args EXCEPT !.wasm = new, !.previous_wasm = old]
           r1 == [args EXCEPT !.wasm = TheOne(paths)]
           r2 == Roles(TheOne(c), TheOne(b))
           r3 == Roles(TheOne(c), other_path(paths, TheOne(c)))
           r4 == Roles(other_path(paths, TheOne(b)), TheOne(b))
           Good(r) == /\ r.artifact_paths = paths
                      /\ Cardinality(paths) = 2 =>
                           \/ r.wasm = Absent /\ r.previous_wasm = Absent
                           \/ /\ paths = {r.wasm, r.previous_wasm} /\ r.wasm # r.previous_wasm
                              /\ c \subseteq {r.wasm} /\ b \subseteq {r.previous_wasm}
<1>1. assign_artifact_roles(args) =
        CASE Cardinality(paths) = 1 -> r1
          [] Cardinality(paths) >= 2 /\ Cardinality(c) = 1 /\ Cardinality(b) = 1 /\ c # b -> r2
          [] Cardinality(paths) = 2 /\ Cardinality(c) = 1 /\ b = {} -> r3
          [] Cardinality(paths) = 2 /\ Cardinality(b) = 1 /\ c = {} -> r4
          [] OTHER -> args
      BY Zenon DEF assign_artifact_roles
<1>2. \A s : s # {} => TheOne(s) \in s  OBVIOUS
<1>b. \A x \in paths : (\E y \in paths : y # x) => other_path(paths, x) \in paths /\ other_path(paths, x) # x
  <2> SUFFICES ASSUME NEW x \in paths, NEW y \in paths, y # x
               PROVE  other_path(paths, x) \in paths /\ other_path(paths, x) # x
      OBVIOUS
  <2>1. ~eq_ignore_ascii_case(y, x)  BY DEF ApartIgnoringCase
  <2>2. other_path(paths, x) \in paths /\ ~eq_ignore_ascii_case(other_path(paths, x), x)  BY <2>1 DEF other_path
  <2> QED BY <2>2 DEF eq_ignore_ascii_case
<1>3. \A new, old : Roles(new, old).wasm = new /\ Roles(new, old).previous_wasm = old /\ Roles(new, old).artifact_paths = paths
      BY DEF Fields
<1>4. r1.artifact_paths = paths  BY DEF Fields
<1>5. IsFiniteSet(c) /\ IsFiniteSet(b)  BY FS_Subset
<1>6. /\ Cardinality(c) = 1 => \E x : c = {x}
      /\ Cardinality(b) = 1 => \E x : b = {x}
      BY <1>5, FS_Singleton
<1>7. c \subseteq paths /\ b \subseteq paths  OBVIOUS
<1>8. ASSUME Cardinality(paths) = 2  PROVE \A x : paths # {x}
  <2>1. \A x : Cardinality({x}) = 1  BY FS_Singleton
  <2> QED BY <1>8, <2>1
<1>0. \A x, y : x \in paths /\ y \in paths /\ x # y /\ Cardinality(paths) = 2 => paths = {x, y}  BY TwoAreAll
<1>a. args.wasm = Absent /\ args.previous_wasm = Absent  OBVIOUS
<1>z. Good(args)  OBVIOUS
<1> HIDE DEF TheOne, Roles, r1, paths, c, b
<1>9. Cardinality(paths) = 1 => Good(r1)  BY <1>4
<1>10. Cardinality(c) = 1 /\ Cardinality(b) = 1 /\ c # b => Good(r2)
  <2> SUFFICES ASSUME Cardinality(c) = 1, Cardinality(b) = 1, c # b  PROVE Good(r2)  OBVIOUS
  <2>1. PICK x, y : c = {x} /\ b = {y}  BY <1>6
  <2>2. TheOne(c) = x /\ TheOne(b) = y /\ x # y  BY <1>2, <2>1
  <2>3. Cardinality(paths) = 2 => paths = {x, y}  BY <1>0, <1>7, <2>1, <2>2
  <2> QED BY <1>3, <2>1, <2>2, <2>3
<1>11. Cardinality(paths) = 2 /\ Cardinality(c) = 1 /\ b = {} => Good(r3)
  <2> SUFFICES ASSUME Cardinality(paths) = 2, Cardinality(c) = 1, b = {}  PROVE Good(r3)  OBVIOUS
  <2>1. PICK x : c = {x}  BY <1>6
  <2>2. (\E y \in paths : y # x) /\ x \in paths /\ TheOne(c) = x  BY <1>2, <1>7, <1>8, <2>1
  <2>3. PICK y : y = other_path(paths, TheOne(c)) /\ y \in paths /\ y # x  BY <1>b, <2>2
  <2>4. paths = {x, y}  BY <1>0, <1>7, <2>1, <2>3
  <2>5. r3.wasm = x /\ r3.previous_wasm = y /\ r3.artifact_paths = paths  BY <1>3, <2>2, <2>3
  <2> HIDE DEF r3
  <2> QED BY <2>1, <2>3, <2>4, <2>5
<1>12. Cardinality(paths) = 2 /\ Cardinality(b) = 1 /\ c = {} => Good(r4)
  <2> SUFFICES ASSUME Cardinality(paths) = 2, Cardinality(b) = 1, c = {}  PROVE Good(r4)  OBVIOUS
  <2>1. PICK x : b = {x}  BY <1>6
  <2>2. (\E y \in paths : y # x) /\ x \in paths /\ TheOne(b) = x  BY <1>2, <1>7, <1>8, <2>1
  <2>3. PICK y : y = other_path(paths, TheOne(b)) /\ y \in paths /\ y # x  BY <1>b, <2>2
  <2>4. paths = {x, y}  BY <1>0, <1>7, <2>1, <2>3
  <2>5. r4.wasm = y /\ r4.previous_wasm = x /\ r4.artifact_paths = paths  BY <1>3, <2>2, <2>3
  <2> HIDE DEF r4
  <2> QED BY <2>1, <2>3, <2>4, <2>5
<1> HIDE DEF Good, r2, r3, r4
<1>13. Good(assign_artifact_roles(args))  BY <1>1, <1>9, <1>10, <1>11, <1>12, <1>z
<1> QED BY <1>13 DEF Good, paths, c, b

\* What is taken from the tokens, with the roles and what flags and phrases say besides.
Completed(req, taken) ==
    [assign_artifact_roles(taken) EXCEPT
       !.base_fees = flag_value(taken, "--base-fees"),
       !.use_rpc = has_flag(taken, "--rpc") \/ PositionOf(req, "rpc") > 0,
       !.rpc_url = IF flag_value(taken, "--rpc-url") = Absent THEN @ ELSE flag_value(taken, "--rpc-url"),
       !.network_passphrase = flag_value(taken, "--network-passphrase"),
       !.envelope = IF flag_value(taken, "--envelope") = Absent THEN @ ELSE flag_value(taken, "--envelope"),
       !.typed_args = {f.value : f \in {g \in ToSet(taken.explicit_flags) : g.name = "--args" /\ g.value # Absent}},
       !.profile = extract_profile(req),
       !.function = extract_function(req)]

LEMMA ArgsAreCompleted ==
    ASSUME NEW req, IsRequest(req)
    PROVE  \E taken : /\ Taken(req, taken) /\ extract_args(req) = Completed(req, taken)
                      /\ ApartIn(req) => PathsSoFar(req, Len(req), taken)
PROOF
<1> HIDE DEF IsRequest
<1> QED BY TokensAreTaken DEF extract_args, Completed, TakenState, RolesSoFar

\* Two artifacts are the candidate and the baseline as they were marked, or have no role.
LEMMA RolesAreOfTheRequest ==
    ASSUME NEW req, IsRequest(req), ApartIn(req), Cardinality(NamedIn(req, 1 .. Len(req))) = 2
    PROVE  LET args == extract_args(req)
           IN /\ args.artifact_paths = NamedIn(req, 1 .. Len(req))
              /\ \/ args.wasm = Absent /\ args.previous_wasm = Absent
                 \/ /\ args.artifact_paths = {args.wasm, args.previous_wasm} /\ args.wasm # args.previous_wasm
                    /\ MarkedIn(req, 1 .. Len(req), "candidate") \subseteq {args.wasm}
                    /\ MarkedIn(req, 1 .. Len(req), "baseline") \subseteq {args.previous_wasm}
PROOF
<1>1. PICK taken : Taken(req, taken) /\ PathsSoFar(req, Len(req), taken) /\ extract_args(req) = Completed(req, taken)
      BY ArgsAreCompleted
<1> DEFINE r == assign_artifact_roles(taken)
<1>2. DOMAIN r = Fields  BY <1>1, RolesKeepTheRest DEF Taken
<1>3. /\ r.artifact_paths = taken.artifact_paths
      /\ Cardinality(taken.artifact_paths) = 2 =>
            \/ r.wasm = Absent /\ r.previous_wasm = Absent
            \/ /\ taken.artifact_paths = {r.wasm, r.previous_wasm} /\ r.wasm # r.previous_wasm
               /\ taken.candidate_claims \subseteq {r.wasm} /\ taken.baseline_claims \subseteq {r.previous_wasm}
  <2>1. ApartIgnoringCase(taken.artifact_paths)  BY <1>1 DEF PathsSoFar, ApartIn
  <2> QED BY <1>1, <2>1, RolesAreAssigned DEF Taken, PathsSoFar
<1> HIDE DEF r
<1>4. /\ Completed(req, taken).artifact_paths = r.artifact_paths /\ Completed(req, taken).wasm = r.wasm
      /\ Completed(req, taken).previous_wasm = r.previous_wasm
      BY <1>2 DEF Completed, Fields, r
<1> QED BY <1>1, <1>3, <1>4 DEF PathsSoFar

\* The endpoint, the passphrase and the flags of the request, and nothing else.
LEMMA ArgsAreOfTheRequest ==
    ASSUME NEW req, IsRequest(req)
    PROVE  LET args == extract_args(req)
           IN /\ args.rpc_url \in {Absent} \cup TextsOf(req, "url") \cup SpelledOf(req, "--rpc-url")
              /\ args.network_passphrase \in {Absent} \cup SpelledOf(req, "--network-passphrase")
              /\ args.explicit_flags \in Seq(FlagsOf(req))
              /\ IsFiniteSet(args.typed_args)
              /\ args.profile = extract_profile(req)
PROOF
<1>1. PICK taken : Taken(req, taken) /\ extract_args(req) = Completed(req, taken)  BY ArgsAreCompleted
<1> DEFINE r == assign_artifact_roles(taken)
           typed == {f.value : f \in {g \in ToSet(taken.explicit_flags) : g.name = "--args" /\ g.value # Absent}}
<1>2. DOMAIN r = Fields /\ r.rpc_url = taken.rpc_url /\ r.explicit_flags = taken.explicit_flags
      BY <1>1, RolesKeepTheRest DEF Taken
<1> HIDE DEF r, typed
<1>3. /\ extract_args(req).rpc_url = IF flag_value(taken, "--rpc-url") = Absent THEN r.rpc_url ELSE flag_value(taken, "--rpc-url")
      /\ extract_args(req).network_passphrase = flag_value(taken, "--network-passphrase")
      /\ extract_args(req).explicit_flags = r.explicit_flags
      /\ extract_args(req).typed_args = typed
      /\ extract_args(req).profile = extract_profile(req)
      BY <1>1, <1>2 DEF Completed, Fields, r, typed
<1>4. /\ flag_value(taken, "--rpc-url") \in {Absent} \cup SpelledOf(req, "--rpc-url")
      /\ flag_value(taken, "--network-passphrase") \in {Absent} \cup SpelledOf(req, "--network-passphrase")
      BY <1>1, ValueIsGiven DEF Taken
<1>5. taken.rpc_url \in {Absent} \cup TextsOf(req, "url") /\ taken.explicit_flags \in Seq(FlagsOf(req))
      BY <1>1 DEF Taken
<1>6. IsFiniteSet(typed)
  <2> DEFINE flags == taken.explicit_flags
             at == {i \in 1 .. Len(flags) : flags[i].name = "--args" /\ flags[i].value # Absent}
  <2>1. Len(flags) \in Nat /\ DOMAIN flags = 1 .. Len(flags)  BY <1>5
  <2>2. IsFiniteSet(1 .. Len(flags))  BY <2>1, FS_Interval
  <2>3. IsFiniteSet(at)  BY <2>2, FS_Subset
  <2>4. typed = {flags[i].value : i \in at}  BY <2>1 DEF typed, ToSet
  <2> DEFINE f == [i \in at |-> flags[i].value]
  <2> HIDE DEF at
  <2>5. f \in Surjection(at, typed)  BY <2>4 DEF Surjection
  <2> QED BY <2>3, <2>5, FS_Surjection
<1> QED BY <1>2, <1>3, <1>4, <1>5, <1>6

\* A profile is named by the token after the word profile.
ProfileAt(req, name) ==
    \E i \in 2 .. Len(req) : req[i - 1].kind = "word" /\ req[i - 1].text = "profile" /\ req[i].text = name

LEMMA ProfileIsNamed ==
    ASSUME NEW req, IsRequest(req), extract_profile(req) # Absent  PROVE ProfileAt(req, extract_profile(req))
PROOF
<1> DEFINE at == {i \in DOMAIN req : req[i].kind = "word" /\ req[i].text = "profile"}
           p == PositionOf(req, "profile")
<1>1. Len(req) \in Nat /\ DOMAIN req = 1 .. Len(req)  BY DEF IsRequest
<1>2. p = IF at = {} THEN 0 ELSE FirstOf(at)  BY DEF PositionOf
<1>3. p # 0 /\ p # Len(req) /\ extract_profile(req) = req[p + 1].text  BY DEF extract_profile
<1>4. p \in at
  <2>1. at # {} /\ p = FirstOf(at)  BY <1>2, <1>3
  <2>2. at \subseteq 1 .. Len(req)  BY <1>1
  <2> HIDE DEF at, p
  <2> QED BY <1>1, <2>1, <2>2, FirstIsOne
<1>5. PICK k \in 1 .. Len(req) : k = p /\ req[k].kind = "word" /\ req[k].text = "profile"  BY <1>1, <1>4
<1>6. k # Len(req) /\ extract_profile(req) = req[k + 1].text  BY <1>3, <1>5
<1> HIDE DEF p
<1>7. k + 1 \in 2 .. Len(req) /\ (k + 1) - 1 = k
  <2>1. PICK n \in Nat : n = Len(req)  BY <1>1
  <2>2. k \in 1 .. n /\ k # n  BY <1>6, <2>1
  <2>3. k + 1 \in 2 .. n /\ (k + 1) - 1 = k  BY <2>2
  <2> QED BY <2>1, <2>3
<1> QED BY <1>5, <1>6, <1>7 DEF ProfileAt

-----------------------------------------------------------------------------
\* The registry

\* The arguments of the capabilities for reading that take no baseline.
OtherArguments ==
    {"--abi", "--abi-contract", "--all", "--args", "--args-json", "--base-fees", "--contract", "--disable", "--durability",
     "--end-ledger", "--envelope", "--fail-on", "--format", "--json", "--key-arg", "--key-xdr", "--list-rules", "--map-key",
     "--network", "--network-passphrase", "--network-profile", "--no-plugins", "--refresh", "--rpc", "--rpc-url", "--rules",
     "--start-ledger", "--topic", "--upgrade-safety", "--wasm", "<address>", "<contract-id>", "<file.wasm>", "<function>",
     "<name>", "<paths..>", "<target>", "<xdr|file>"}
Upgrades == {"diff", "diff_upgrade_safety", "release_assurance"}

\* An entry that can be planned and takes no baseline.
TakesNoBaseline(cap) == cap.safety = "mutating" \/ cap.args \in Seq(OtherArguments)

LEMMA NetIsOther == Net \in Seq(OtherArguments)
PROOF
<1>1. "--rpc-url" \in OtherArguments /\ "--network-passphrase" \in OtherArguments  BY DEF OtherArguments
<1> HIDE DEF OtherArguments
<1> QED BY <1>1 DEF Net

LEMMA ArtifactsTakeNone == \A id \in DOMAIN ArtifactCapabilities \ Upgrades : TakesNoBaseline(ArtifactCapabilities[id])
PROOF
<1> DEFINE S == OtherArguments
<1>1. {"--contract", "--format", "--network", "--network-profile", "--refresh", "<file.wasm>"} \subseteq S  BY DEF OtherArguments
<1> HIDE DEF S
<1>2. Net \in Seq(S)  BY NetIsOther DEF S
<1>3. ArtifactCapabilities.wasm_inspect.args \in Seq(S)
  <2>1. ArtifactCapabilities.wasm_inspect.args = <<"<file.wasm>", "--format">>  BY DEF ArtifactCapabilities, Cap
  <2>2. <<"<file.wasm>", "--format">> \in Seq(S)  BY <1>1
  <2> QED BY <2>1, <2>2
<1>4. ArtifactCapabilities.wasm_metadata.args \in Seq(S)
  <2>1. ArtifactCapabilities.wasm_metadata.args =
          <<"--contract">> \o Net \o <<"--network", "--network-profile", "--refresh", "--format">>
        BY DEF ArtifactCapabilities, Cap
  <2>2. <<"--contract">> \in Seq(S)  BY <1>1
  <2>3. <<"--network", "--network-profile", "--refresh", "--format">> \in Seq(S)  BY <1>1
  <2> QED BY <1>2, <2>1, <2>2, <2>3
<1>5. DOMAIN ArtifactCapabilities = {"wasm_inspect", "wasm_metadata", "diff", "diff_upgrade_safety"}  BY DEF ArtifactCapabilities
<1> QED BY <1>3, <1>4, <1>5 DEF TakesNoBaseline, S, Upgrades

LEMMA AssuranceTakesNone == \A id \in DOMAIN AssuranceCapabilities \ Upgrades : TakesNoBaseline(AssuranceCapabilities[id])
PROOF
<1> DEFINE S == OtherArguments
<1>1. {"--contract", "--disable", "--fail-on", "--format", "--list-rules", "--network", "--network-profile",
      "--no-plugins", "--rules", "--upgrade-safety", "--wasm", "<contract-id>", "<paths..>"} \subseteq S  BY DEF OtherArguments
<1> HIDE DEF S
<1>2. Net \in Seq(S)  BY NetIsOther DEF S
<1>3. AssuranceCapabilities.audit.args \in Seq(S)
  <2>1. AssuranceCapabilities.audit.args =
          <<"<paths..>", "--format", "--disable", "--rules", "--no-plugins", "--list-rules", "--fail-on">>
        BY DEF AssuranceCapabilities, Cap
  <2>2. <<"<paths..>", "--format", "--disable", "--rules", "--no-plugins", "--list-rules", "--fail-on">> \in Seq(S)  BY <1>1
  <2> QED BY <2>1, <2>2
<1>4. AssuranceCapabilities.verify.args \in Seq(S)
  <2>1. AssuranceCapabilities.verify.args =
          <<"--contract">> \o Net \o <<"--wasm", "--network", "--network-profile", "--format", "--upgrade-safety">>
        BY DEF AssuranceCapabilities, Cap
  <2>2. <<"--contract">> \in Seq(S)  BY <1>1
  <2>3. <<"--wasm", "--network", "--network-profile", "--format", "--upgrade-safety">> \in Seq(S)  BY <1>1
  <2> QED BY <1>2, <2>1, <2>2, <2>3
<1>5. AssuranceCapabilities.deployment_verify.args \in Seq(S)
  <2>1. AssuranceCapabilities.deployment_verify.args =
          <<"--contract", "--wasm", "--network">> \o Net \o <<"--network-profile", "--format">>
        BY DEF AssuranceCapabilities, Cap
  <2>2. <<"--contract", "--wasm", "--network">> \in Seq(S)  BY <1>1
  <2>3. <<"--network-profile", "--format">> \in Seq(S)  BY <1>1
  <2> QED BY <1>2, <2>1, <2>2, <2>3
<1>6. AssuranceCapabilities.health.args \in Seq(S)
  <2>1. AssuranceCapabilities.health.args =
          <<"--contract">> \o Net \o <<"--wasm", "--network", "--network-profile", "--format">>
        BY DEF AssuranceCapabilities, Cap
  <2>2. <<"--contract">> \in Seq(S)  BY <1>1
  <2>3. <<"--wasm", "--network", "--network-profile", "--format">> \in Seq(S)  BY <1>1
  <2> QED BY <1>2, <2>1, <2>2, <2>3
<1>7. AssuranceCapabilities.inspect.args \in Seq(S)
  <2>1. AssuranceCapabilities.inspect.args = <<"<contract-id>">> \o Net \o <<"--network-profile", "--format">>
        BY DEF AssuranceCapabilities, Cap
  <2>2. <<"<contract-id>">> \in Seq(S)  BY <1>1
  <2>3. <<"--network-profile", "--format">> \in Seq(S)  BY <1>1
  <2> QED BY <1>2, <2>1, <2>2, <2>3
<1>8. DOMAIN AssuranceCapabilities = {"audit", "verify", "deployment_verify", "health", "inspect", "release_assurance"}  BY DEF AssuranceCapabilities
<1> QED BY <1>3, <1>4, <1>5, <1>6, <1>7, <1>8 DEF TakesNoBaseline, S, Upgrades

LEMMA ChainTakesNone == \A id \in DOMAIN ChainCapabilities : TakesNoBaseline(ChainCapabilities[id])
PROOF
<1> DEFINE S == OtherArguments
<1>1. {"--abi", "--abi-contract", "--args", "--args-json", "--durability", "--end-ledger", "--format",
      "--key-arg", "--key-xdr", "--map-key", "--network-profile", "--start-ledger", "--topic", "<address>",
      "<contract-id>", "<function>"} \subseteq S  BY DEF OtherArguments
<1> HIDE DEF S
<1>2. Net \in Seq(S)  BY NetIsOther DEF S
<1>3. ChainCapabilities.storage_analyze.args \in Seq(S)
  <2>1. ChainCapabilities.storage_analyze.args =
          <<"<contract-id>">> \o Net \o <<"--key-xdr", "--map-key", "--key-arg", "--durability", "--abi-contract", "--format">>
        BY DEF ChainCapabilities, Cap
  <2>2. <<"<contract-id>">> \in Seq(S)  BY <1>1
  <2>3. <<"--key-xdr", "--map-key", "--key-arg", "--durability", "--abi-contract", "--format">> \in Seq(S)  BY <1>1
  <2> QED BY <1>2, <2>1, <2>2, <2>3
<1>4. ChainCapabilities.events.args \in Seq(S)
  <2>1. ChainCapabilities.events.args =
          <<"<contract-id>">> \o Net \o <<"--start-ledger", "--end-ledger", "--topic", "--abi", "--abi-contract", "--format">>
        BY DEF ChainCapabilities, Cap
  <2>2. <<"<contract-id>">> \in Seq(S)  BY <1>1
  <2>3. <<"--start-ledger", "--end-ledger", "--topic", "--abi", "--abi-contract", "--format">> \in Seq(S)  BY <1>1
  <2> QED BY <1>2, <2>1, <2>2, <2>3
<1>5. ChainCapabilities.call.args \in Seq(S)
  <2>1. ChainCapabilities.call.args =
          <<"<contract-id>", "<function>">> \o Net \o <<"--args", "--args-json", "--abi", "--abi-contract", "--format">>
        BY DEF ChainCapabilities, Cap
  <2>2. <<"<contract-id>", "<function>">> \in Seq(S)  BY <1>1
  <2>3. <<"--args", "--args-json", "--abi", "--abi-contract", "--format">> \in Seq(S)  BY <1>1
  <2> QED BY <1>2, <2>1, <2>2, <2>3
<1>6. ChainCapabilities.account.args \in Seq(S)
  <2>1. ChainCapabilities.account.args = <<"<address>">> \o Net \o <<"--network-profile", "--format">>
        BY DEF ChainCapabilities, Cap
  <2>2. <<"<address>">> \in Seq(S)  BY <1>1
  <2>3. <<"--network-profile", "--format">> \in Seq(S)  BY <1>1
  <2> QED BY <1>2, <2>1, <2>2, <2>3
<1>7. DOMAIN ChainCapabilities = {"storage_analyze", "events", "call", "account"}  BY DEF ChainCapabilities
<1> QED BY <1>3, <1>4, <1>5, <1>6, <1>7 DEF TakesNoBaseline, S

LEMMA LocalTakesNone == \A id \in DOMAIN LocalCapabilities : TakesNoBaseline(LocalCapabilities[id])
PROOF
<1> DEFINE S == OtherArguments
<1>1. {"--all", "--format", "--json", "--network", "--network-profile", "<name>", "<target>"} \subseteq S  BY DEF OtherArguments
<1> HIDE DEF S
<1>2. Net \in Seq(S)  BY NetIsOther DEF S
<1>3. LocalCapabilities.network_list.args \in Seq(S)
  <2>1. LocalCapabilities.network_list.args = <<"--format">>  BY DEF LocalCapabilities, Cap
  <2>2. <<"--format">> \in Seq(S)  BY <1>1
  <2> QED BY <2>1, <2>2
<1>4. LocalCapabilities.network_show.args \in Seq(S)
  <2>1. LocalCapabilities.network_show.args = <<"<name>", "--format">>  BY DEF LocalCapabilities, Cap
  <2>2. <<"<name>", "--format">> \in Seq(S)  BY <1>1
  <2> QED BY <2>1, <2>2
<1>5. LocalCapabilities.network_check.args \in Seq(S)
  <2>1. LocalCapabilities.network_check.args = <<"<name>", "--format">>  BY DEF LocalCapabilities, Cap
  <2>2. <<"<name>", "--format">> \in Seq(S)  BY <1>1
  <2> QED BY <2>1, <2>2
<1>6. LocalCapabilities.network_diagnose.args \in Seq(S)
  <2>1. LocalCapabilities.network_diagnose.args = <<"--network">> \o Net \o <<"--network-profile", "--format">>
        BY DEF LocalCapabilities, Cap
  <2>2. <<"--network">> \in Seq(S)  BY <1>1
  <2>3. <<"--network-profile", "--format">> \in Seq(S)  BY <1>1
  <2> QED BY <1>2, <2>1, <2>2, <2>3
<1>7. LocalCapabilities.doctor.args \in Seq(S)
  <2>1. LocalCapabilities.doctor.args = <<"--format", "--json">>  BY DEF LocalCapabilities, Cap
  <2>2. <<"--format", "--json">> \in Seq(S)  BY <1>1
  <2> QED BY <2>1, <2>2
<1>8. LocalCapabilities.plugin_doctor.args \in Seq(S)
  <2>1. LocalCapabilities.plugin_doctor.args = <<"<target>", "--all", "--format">>  BY DEF LocalCapabilities, Cap
  <2>2. <<"<target>", "--all", "--format">> \in Seq(S)  BY <1>1
  <2> QED BY <2>1, <2>2
<1>9. DOMAIN LocalCapabilities = {"network_list", "network_show", "network_check", "network_diagnose", "doctor", "plugin_doctor"}  BY DEF LocalCapabilities
<1> QED BY <1>3, <1>4, <1>5, <1>6, <1>7, <1>8, <1>9 DEF TakesNoBaseline, S

LEMMA TxTakesNone == \A id \in DOMAIN TxCapabilities : TakesNoBaseline(TxCapabilities[id])
PROOF
<1> DEFINE S == OtherArguments
<1>1. {"--abi", "--abi-contract", "--base-fees", "--envelope", "--format", "--network", "--network-profile",
      "--rpc", "<xdr|file>"} \subseteq S  BY DEF OtherArguments
<1> HIDE DEF S
<1>2. Net \in Seq(S)  BY NetIsOther DEF S
<1>3. TxCapabilities.fee_estimate.args \in Seq(S)
  <2>1. TxCapabilities.fee_estimate.args = Net \o <<"--network", "--base-fees", "--rpc", "--network-profile", "--format">>
        BY DEF TxCapabilities, Cap
  <2>2. <<"--network", "--base-fees", "--rpc", "--network-profile", "--format">> \in Seq(S)  BY <1>1
  <2> QED BY <1>2, <2>1, <2>2
<1>4. TxCapabilities.tx_decode.args \in Seq(S)
  <2>1. TxCapabilities.tx_decode.args = <<"<xdr|file>", "--format">>  BY DEF TxCapabilities, Cap
  <2>2. <<"<xdr|file>", "--format">> \in Seq(S)  BY <1>1
  <2> QED BY <2>1, <2>2
<1>5. TxCapabilities.tx_validate.args \in Seq(S)
  <2>1. TxCapabilities.tx_validate.args = <<"--envelope", "--format">>  BY DEF TxCapabilities, Cap
  <2>2. <<"--envelope", "--format">> \in Seq(S)  BY <1>1
  <2> QED BY <2>1, <2>2
<1>6. TxCapabilities.tx_simulate.args \in Seq(S)
  <2>1. TxCapabilities.tx_simulate.args =
          <<"--envelope">> \o Net \o <<"--abi", "--abi-contract", "--network-profile", "--format">>
        BY DEF TxCapabilities, Cap
  <2>2. <<"--envelope">> \in Seq(S)  BY <1>1
  <2>3. <<"--abi", "--abi-contract", "--network-profile", "--format">> \in Seq(S)  BY <1>1
  <2> QED BY <1>2, <2>1, <2>2, <2>3
<1>7. TxCapabilities.project_status.args \in Seq(S)
  <2>1. TxCapabilities.project_status.args = Net \o <<"--format", "--network-profile">>  BY DEF TxCapabilities, Cap
  <2>2. <<"--format", "--network-profile">> \in Seq(S)  BY <1>1
  <2> QED BY <1>2, <2>1, <2>2
<1>8. DOMAIN TxCapabilities = {"fee_estimate", "tx_decode", "tx_validate", "tx_simulate", "project_status"}  BY DEF TxCapabilities
<1> QED BY <1>3, <1>4, <1>5, <1>6, <1>7, <1>8 DEF TakesNoBaseline, S

LEMMA MutatingIsMutating == \A id \in DOMAIN MutatingCapabilities : MutatingCapabilities[id].safety = "mutating"
PROOF
<1>1. DOMAIN MutatingCapabilities = {"deploy", "invoke", "tx_sign", "tx_submit", "storage_extend", "storage_restore",
                                     "project_deploy", "identity_fund"}
      BY DEF MutatingCapabilities
<1>2. /\ MutatingCapabilities.deploy.safety = "mutating" /\ MutatingCapabilities.invoke.safety = "mutating"
      /\ MutatingCapabilities.tx_sign.safety = "mutating" /\ MutatingCapabilities.tx_submit.safety = "mutating"
      /\ MutatingCapabilities.storage_extend.safety = "mutating" /\ MutatingCapabilities.storage_restore.safety = "mutating"
      /\ MutatingCapabilities.project_deploy.safety = "mutating" /\ MutatingCapabilities.identity_fund.safety = "mutating"
      BY DEF MutatingCapabilities, Cap
<1> QED BY <1>1, <1>2

\* The flag that is picked is one of the two, when one of them is declared.
LEMMA FlagIsPicked ==
    ASSUME NEW flags, DOMAIN flags = 1 .. 2, NEW cap
    PROVE  \/ \A i \in 1 .. 2 : ~declares_arg(cap, flags[i]) /\ flag_for_any(cap, flags) = Absent
           \/ \E i \in 1 .. 2 : declares_arg(cap, flags[i]) /\ flag_for_any(cap, flags) = flags[i]
PROOF
<1> DEFINE declared == {i \in DOMAIN flags : declares_arg(cap, flags[i])}
<1>1. flag_for_any(cap, flags) = IF declared = {} THEN Absent ELSE flags[FirstOf(declared)]  BY DEF flag_for_any
<1>2. CASE declared = {}  BY <1>1, <1>2
<1>3. CASE declared # {}
  <2>1. declared \subseteq 1 .. 2  OBVIOUS
  <2>2. FirstOf(declared) \in declared
    <3> HIDE DEF declared
    <3> QED BY <1>3, <2>1, FirstIsOne
  <2>3. PICK k \in declared : k = FirstOf(declared)  BY <2>2
  <2>4. flag_for_any(cap, flags) = flags[k]  BY <1>1, <1>3, <2>3
  <2> QED BY <2>3, <2>4
<1> QED BY <1>2, <1>3

LEMMA ArtifactFlagsAre ==
    /\ DOMAIN BASELINE_FLAGS = 1 .. 2 /\ BASELINE_FLAGS[1] = "--previous-wasm" /\ BASELINE_FLAGS[2] = "--old-wasm"
    /\ DOMAIN CANDIDATE_FLAGS = 1 .. 2 /\ CANDIDATE_FLAGS[1] = "--wasm" /\ CANDIDATE_FLAGS[2] = "--new-wasm"
  BY DEF BASELINE_FLAGS, CANDIDATE_FLAGS

LEMMA StartOfJoined ==
    ASSUME NEW S, NEW s \in Seq(S), NEW v \in Seq(S), Len(s) >= 1
    PROVE  s \o v \in Seq(S) /\ Len(s \o v) = Len(s) + Len(v) /\ (s \o v)[1] = s[1]
PROOF
<1>1. /\ s \o v \in Seq(S) /\ Len(s \o v) = Len(s) + Len(v)
      /\ \A i \in 1 .. Len(s) + Len(v) : (s \o v)[i] = IF i <= Len(s) THEN s[i] ELSE v[i - Len(s)]
      BY ConcatProperties
<1>2. 1 \in 1 .. Len(s) + Len(v)  OBVIOUS
<1> QED BY <1>1, <1>2

LEMMA UpgradesTakeCandidates ==
    /\ declares_arg(ArtifactCapabilities.diff, "--new-wasm")
    /\ declares_arg(ArtifactCapabilities.diff_upgrade_safety, "--new-wasm")
    /\ declares_arg(AssuranceCapabilities.release_assurance, "--wasm")
PROOF
<1>1. ArtifactCapabilities.diff.args =
        <<"--old-wasm", "--new-wasm", "--format", "--upgrade-safety", "--max-size-bytes", "--max-growth-pct">>
      BY DEF ArtifactCapabilities, Cap
<1>2. ArtifactCapabilities.diff_upgrade_safety.args = <<"--old-wasm", "--new-wasm", "--format">>
      BY DEF ArtifactCapabilities, Cap
<1>3. AssuranceCapabilities.release_assurance.args =
        <<"--wasm">> \o Net \o <<"--previous-wasm", "--audit", "--disable", "--contract", "--network",
                                 "--max-size-bytes", "--max-growth-pct", "--format">>
      BY DEF AssuranceCapabilities, Cap
<1>4. AssuranceCapabilities.release_assurance.args[1] = "--wasm" /\ 1 \in DOMAIN AssuranceCapabilities.release_assurance.args
  <2> DEFINE S == {"--wasm", "--rpc-url", "--network-passphrase", "--previous-wasm", "--audit", "--disable", "--contract",
                   "--network", "--max-size-bytes", "--max-growth-pct", "--format"}
             s == <<"--wasm">>
             v == <<"--previous-wasm", "--audit", "--disable", "--contract", "--network", "--max-size-bytes",
                    "--max-growth-pct", "--format">>
  <2>1. s \in Seq(S) /\ Len(s) = 1 /\ s[1] = "--wasm"  OBVIOUS
  <2>2. Net \in Seq(S) /\ Len(Net) = 2  BY DEF Net
  <2>3. v \in Seq(S) /\ Len(v) = 8  OBVIOUS
  <2>4. AssuranceCapabilities.release_assurance.args = (s \o Net) \o v  BY <1>3
  <2> HIDE DEF S, s, v
  <2>5. s \o Net \in Seq(S) /\ Len(s \o Net) = Len(s) + Len(Net) /\ (s \o Net)[1] = s[1]
    <3>1. Len(s) >= 1  BY <2>1
    <3> QED BY <2>1, <2>2, <3>1, StartOfJoined, Zenon
  <2> DEFINE p == s \o Net
  <2>6. p \in Seq(S) /\ Len(p) = 3 /\ p[1] = "--wasm"  BY <2>1, <2>2, <2>5
  <2> HIDE DEF p
  <2>7. p \o v \in Seq(S) /\ Len(p \o v) = Len(p) + Len(v) /\ (p \o v)[1] = p[1]
    <3>1. Len(p) >= 1  BY <2>6
    <3> QED BY <2>3, <2>6, <3>1, StartOfJoined, Zenon
  <2>8. AssuranceCapabilities.release_assurance.args = p \o v  BY <2>4 DEF p
  <2> DEFINE q == p \o v
  <2>9. q \in Seq(S) /\ Len(q) = 11 /\ q[1] = "--wasm"  BY <2>3, <2>6, <2>7
  <2> HIDE DEF q
  <2>10. DOMAIN q = 1 .. 11  BY <2>9
  <2> QED BY <2>8, <2>9, <2>10 DEF q
<1> QED BY <1>1, <1>2, <1>4 DEF declares_arg

LEMMA RegistryIs ==
    /\ DOMAIN ArtifactCapabilities = {"wasm_inspect", "wasm_metadata", "diff", "diff_upgrade_safety"}
    /\ DOMAIN AssuranceCapabilities = {"audit", "verify", "deployment_verify", "health", "inspect", "release_assurance"}
    /\ DOMAIN ChainCapabilities = {"storage_analyze", "events", "call", "account"}
    /\ DOMAIN LocalCapabilities = {"network_list", "network_show", "network_check", "network_diagnose", "doctor", "plugin_doctor"}
    /\ DOMAIN TxCapabilities = {"fee_estimate", "tx_decode", "tx_validate", "tx_simulate", "project_status"}
    /\ DOMAIN MutatingCapabilities = {"deploy", "invoke", "tx_sign", "tx_submit", "storage_extend", "storage_restore",
                                      "project_deploy", "identity_fund"}
  BY DEF ArtifactCapabilities, AssuranceCapabilities, ChainCapabilities, LocalCapabilities, TxCapabilities, MutatingCapabilities

LEMMA IntentIsInRegistry ==
    ASSUME NEW id \in DOMAIN INTENT_KEYWORDS  PROVE \E g \in CAPABILITIES : id \in DOMAIN g /\ find(id) = g[id]
PROOF
<1>1. DOMAIN INTENT_KEYWORDS = {"deploy", "invoke", "tx_submit", "tx_sign", "storage_extend", "storage_restore", "project_deploy",
                                "identity_fund", "release_assurance", "diff_upgrade_safety", "verify", "health", "storage_analyze",
                                "events", "audit", "network_check", "network_list", "plugin_doctor", "doctor", "wasm_metadata",
                                "wasm_inspect", "inspect", "call", "diff", "project_status", "fee_estimate", "tx_simulate"}
      BY DEF INTENT_KEYWORDS
<1>2. \E g \in CAPABILITIES : id \in DOMAIN g  BY <1>1, RegistryIs DEF CAPABILITIES
<1> QED BY <1>2 DEF find

\* A capability for reading that takes a baseline is one of three, and takes a candidate too.
LEMMA BaselineIsForUpgrades ==
    ASSUME NEW id \in DOMAIN INTENT_KEYWORDS, find(id).safety = "read_only", flag_for_any(find(id), BASELINE_FLAGS) # Absent
    PROVE  /\ id \in Upgrades
           /\ \E i \in 1 .. 2 : flag_for_any(find(id), BASELINE_FLAGS) = BASELINE_FLAGS[i]
           /\ \E i \in 1 .. 2 : flag_for_any(find(id), CANDIDATE_FLAGS) = CANDIDATE_FLAGS[i]
PROOF
<1>1. PICK k \in 1 .. 2 : declares_arg(find(id), BASELINE_FLAGS[k]) /\ flag_for_any(find(id), BASELINE_FLAGS) = BASELINE_FLAGS[k]
      BY FlagIsPicked, ArtifactFlagsAre
<1>2. PICK g \in CAPABILITIES : id \in DOMAIN g /\ find(id) = g[id]  BY IntentIsInRegistry
<1>3. id \in Upgrades
  <2> SUFFICES ASSUME id \notin Upgrades  PROVE FALSE  OBVIOUS
  <2>1. TakesNoBaseline(g[id]) \/ g[id].safety = "mutating"
        BY <1>2, ArtifactsTakeNone, AssuranceTakesNone, ChainTakesNone, LocalTakesNone, TxTakesNone, MutatingIsMutating
        DEF CAPABILITIES
  <2>2. find(id).args \in Seq(OtherArguments)  BY <1>2, <2>1 DEF TakesNoBaseline
  <2>3. BASELINE_FLAGS[k] \in OtherArguments  BY <1>1, <2>2 DEF declares_arg
  <2> QED BY <2>3, ArtifactFlagsAre DEF OtherArguments
<1>4. declares_arg(find(id), CANDIDATE_FLAGS[1]) \/ declares_arg(find(id), CANDIDATE_FLAGS[2])
  <2>1. CASE id \in {"diff", "diff_upgrade_safety"}
    <3>1. g = ArtifactCapabilities  BY <1>2, <2>1, RegistryIs DEF CAPABILITIES
    <3> QED BY <1>2, <2>1, <3>1, UpgradesTakeCandidates, ArtifactFlagsAre
  <2>2. CASE id = "release_assurance"
    <3>1. g = AssuranceCapabilities  BY <1>2, <2>2, RegistryIs DEF CAPABILITIES
    <3> QED BY <1>2, <2>2, <3>1, UpgradesTakeCandidates, ArtifactFlagsAre
  <2> QED BY <1>3, <2>1, <2>2 DEF Upgrades
<1>5. \E i \in 1 .. 2 : flag_for_any(find(id), CANDIDATE_FLAGS) = CANDIDATE_FLAGS[i]  BY <1>4, FlagIsPicked, ArtifactFlagsAre
<1> QED BY <1>1, <1>3, <1>5

-----------------------------------------------------------------------------
\* The command

\* A loop that stays in V has run at every position.
IsRun(f, b, n, G) == f[0] = b /\ \A i \in 1..n : f[i] = G[<<i, f[i - 1]>>]

LEMMA LoopRuns ==
    ASSUME NEW V, NEW b \in V, NEW n \in Nat, NEW G \in [(1..n) \X V -> V]
    PROVE  \E f \in [0..n -> V] : IsRun(f, b, n, G)
PROOF
<1> DEFINE Runs(f, k) == f \in [0..k -> V] /\ f[0] = b /\ \A i \in 1..k : f[i] = G[<<i, f[i - 1]>>]
           P == {k \in 0..n : \E f : Runs(f, k)}
<1>1. 0 \in P
  <2>1. Runs([i \in 0..0 |-> b], 0)  OBVIOUS
  <2> HIDE DEF Runs
  <2>2. \E f : Runs(f, 0)  BY <2>1, Zenon
  <2>3. 0 \in 0..n  OBVIOUS
  <2> QED BY <2>2, <2>3
<1>2. ASSUME NEW k \in 0..(n - 1), k \in P  PROVE k + 1 \in P
  <2>1. PICK f : Runs(f, k)  BY <1>2
  <2> DEFINE g == [i \in 0..(k + 1) |-> IF i = k + 1 THEN G[<<k + 1, f[k]>>] ELSE f[i]]
  <2>2. k \in Nat /\ k + 1 \in 1..n /\ k \in 0..k /\ k + 1 \in 0..n  OBVIOUS
  <2>3. f[k] \in V /\ G[<<k + 1, f[k]>>] \in V  BY <2>1, <2>2
  <2>4. g \in [0..(k + 1) -> V]  BY <2>1, <2>2, <2>3
  <2>5. g[0] = b  BY <2>1, <2>2
  <2>6. ASSUME NEW i \in 1..(k + 1)  PROVE g[i] = G[<<i, g[i - 1]>>]
    <3>1. CASE i = k + 1
      <4>1. g[i] = G[<<k + 1, f[k]>>] /\ g[i - 1] = f[k]  BY <2>2, <3>1
      <4> QED BY <3>1, <4>1
    <3>2. CASE i # k + 1
      <4>1. i \in 1..k /\ g[i] = f[i] /\ g[i - 1] = f[i - 1]  BY <2>2, <3>2
      <4> HIDE DEF g
      <4> QED BY <2>1, <4>1
    <3> QED BY <3>1, <3>2
  <2> HIDE DEF g
  <2>7. Runs(g, k + 1)  BY <2>4, <2>5, <2>6
  <2> QED BY <2>2, <2>7
<1>3. n \in P
  <2> HIDE DEF P
  <2>1. 0..n \subseteq P  BY <1>1, <1>2, Induction
  <2> QED BY <2>1
<1>4. PICK f : Runs(f, n)  BY <1>3
<1> QED BY <1>4 DEF IsRun


LEMMA FlagsPassThrough ==
    ASSUME NEW F, NEW args, args.explicit_flags \in Seq(F)
    PROVE  PassThrough(args) \in Seq({f \in F : f.name \notin PLANNER_MANAGED_FLAGS})
PROOF
<1> DEFINE ps == args.explicit_flags
           E == {f \in F : f.name \notin PLANNER_MANAGED_FLAGS}
           n == Len(ps)
           next(kept, i) == IF ps[i].name \in PLANNER_MANAGED_FLAGS THEN kept ELSE Append(kept, ps[i])
           Step(h) == [i \in 0 .. n |-> IF i = 0 THEN <<>> ELSE next(h[i - 1], i)]
<1>1. n \in Nat /\ DOMAIN ps = 1 .. n /\ \A i \in 1 .. n : ps[i] \in F  OBVIOUS
<1> HIDE DEF n, ps
<1>2. \A kept \in Seq(E) : \A i \in 1 .. n : next(kept, i) \in Seq(E)
  <2> SUFFICES ASSUME NEW kept \in Seq(E), NEW i \in 1 .. n  PROVE next(kept, i) \in Seq(E)  OBVIOUS
  <2>1. CASE ps[i].name \notin PLANNER_MANAGED_FLAGS
    <3>1. ps[i] \in E  BY <1>1, <2>1
    <3> QED BY <2>1, <3>1
  <2>2. CASE ps[i].name \in PLANNER_MANAGED_FLAGS  BY <2>2
  <2> QED BY <2>1, <2>2
<1>3. <<>> \in Seq(E)  OBVIOUS
<1> HIDE DEF next, E
<1>4. \E h : h = Step(h)
  <2> DEFINE G == [x \in (1 .. n) \X Seq(E) |-> next(x[2], x[1])]
  <2>1. G \in [(1 .. n) \X Seq(E) -> Seq(E)]  BY <1>2
  <2>2. \A i \in 1 .. n, v \in Seq(E) : G[<<i, v>>] = next(v, i)  OBVIOUS
  <2> HIDE DEF G
  <2>4. PICK f \in [0 .. n -> Seq(E)] : IsRun(f, <<>>, n, G)  BY <1>1, <1>3, <2>1, LoopRuns
  <2>5. f[0] = <<>> /\ \A i \in 1 .. n : f[i] = G[<<i, f[i - 1]>>]  BY <2>4 DEF IsRun
  <2>6. ASSUME NEW i \in 1 .. n  PROVE f[i] = next(f[i - 1], i)
    <3>1. i - 1 \in 0 .. n  BY <1>1
    <3>2. f[i - 1] \in Seq(E)  BY <3>1
    <3> QED BY <2>2, <2>5, <3>2
  <2>7. ASSUME NEW i \in 0 .. n  PROVE f[i] = IF i = 0 THEN <<>> ELSE next(f[i - 1], i)
    <3>1. CASE i = 0  BY <2>5, <3>1
    <3>2. CASE i # 0
      <4>1. i \in 1 .. n  BY <1>1, <3>2
      <4> QED BY <2>6, <3>2, <4>1
    <3> QED BY <3>1, <3>2
  <2>8. f = [i \in 0 .. n |-> f[i]]  OBVIOUS
  <2>9. f = Step(f)  BY <2>7, <2>8
  <2> QED BY <2>9
<1>5. PICK h : h = Step(h) /\ PassThrough(args) = h[n]  BY <1>4 DEF PassThrough, n, next, ps
<1>6. h[0] = <<>> /\ \A i \in 1 .. n : h[i] = next(h[i - 1], i)
  <2>1. 0 \in 0 .. n /\ \A i \in 1 .. n : i \in 0 .. n /\ i # 0  BY <1>1
  <2> QED BY <1>5, <2>1
<1> HIDE DEF Step
<1> DEFINE P == {i \in 0 .. n : h[i] \in Seq(E)}
<1>7. 0 \in P
  <2>1. 0 \in 0 .. n /\ h[0] = <<>>  BY <1>1, <1>6
  <2> QED BY <1>3, <2>1
<1>8. ASSUME NEW i \in 0 .. (n - 1), i \in P  PROVE i + 1 \in P
  <2>1. i + 1 \in 1 .. n /\ i + 1 \in 0 .. n /\ (i + 1) - 1 = i  BY <1>1
  <2>2. h[i + 1] = next(h[i], i + 1)  BY <1>6, <2>1
  <2> QED BY <1>2, <1>8, <2>1, <2>2
<1> HIDE DEF P
<1>9. 0 .. n \subseteq P  BY <1>1, <1>7, <1>8, Induction
<1> QED BY <1>1, <1>5, <1>9 DEF P, E

IsList(p) == p \in Seq(ToSet(p))

LEMMA Joined ==
    ASSUME NEW s, NEW t, IsList(s), IsList(t)
    PROVE  IsList(s \o t) /\ ToSet(s \o t) = ToSet(s) \cup ToSet(t)
PROOF
<1> DEFINE E == ToSet(s) \cup ToSet(t)
           q == s \o t
<1>1. s \in Seq(E) /\ t \in Seq(E)  BY DEF IsList
<1> HIDE DEF E
<1>2. /\ q \in Seq(E) /\ Len(q) = Len(s) + Len(t) /\ Len(s) \in Nat /\ Len(t) \in Nat
      /\ \A i \in 1 .. Len(s) : q[i] = s[i]
      /\ \A i \in (Len(s) + 1) .. (Len(s) + Len(t)) : q[i] = t[i - Len(s)]
      BY <1>1, ConcatProperties
<1>3. DOMAIN q = 1 .. (Len(s) + Len(t)) /\ DOMAIN s = 1 .. Len(s) /\ DOMAIN t = 1 .. Len(t)  BY <1>1, <1>2
<1> HIDE DEF q
<1>4. ToSet(q) \subseteq E
  <2> SUFFICES ASSUME NEW i \in DOMAIN q  PROVE q[i] \in E  BY DEF ToSet
  <2> QED BY <1>2, <1>3
<1>5. ToSet(s) \subseteq ToSet(q)
  <2> SUFFICES ASSUME NEW i \in DOMAIN s  PROVE \E j \in DOMAIN q : q[j] = s[i]  BY DEF ToSet
  <2>1. i \in DOMAIN q /\ q[i] = s[i]  BY <1>2, <1>3
  <2> QED BY <2>1
<1>6. ToSet(t) \subseteq ToSet(q)
  <2> SUFFICES ASSUME NEW i \in DOMAIN t  PROVE \E j \in DOMAIN q : q[j] = t[i]  BY DEF ToSet
  <2>1. i + Len(s) \in DOMAIN q /\ i + Len(s) \in (Len(s) + 1) .. (Len(s) + Len(t)) /\ (i + Len(s)) - Len(s) = i
        BY <1>2, <1>3
  <2>2. q[i + Len(s)] = t[i]  BY <1>2, <2>1
  <2> QED BY <2>1, <2>2
<1>7. ToSet(q) = E  BY <1>4, <1>5, <1>6 DEF E
<1> QED BY <1>2, <1>7 DEF IsList, E, q

\* A part of the command whose words under some flags are among given ones.
Only(p, flags, words) == IsList(p) /\ \A w \in ToSet(p) : w.flag \in flags => w \in words

LEMMA GivenIs ==
    ASSUME NEW flag, NEW value
    PROVE  /\ IsList(Given(flag, value)) /\ ToSet(Given(flag, value)) \subseteq {Word(flag, value)}
           /\ value # Absent => ToSet(Given(flag, value)) = {Word(flag, value)}
           /\ Word(flag, value).flag = flag /\ Word(flag, value).value = value
PROOF
<1> DEFINE w == Word(flag, value)
<1>1. w.flag = flag /\ w.value = value  BY DEF Word
<1> HIDE DEF w
<1>2. ToSet(<<>>) = {} /\ <<>> \in Seq({})  BY DEF ToSet
<1>3. ToSet(<<w>>) = {w} /\ <<w>> \in Seq({w})
  <2>1. <<w>> \in Seq({w}) /\ DOMAIN <<w>> = {1} /\ <<w>>[1] = w  OBVIOUS
  <2> QED BY <2>1 DEF ToSet
<1> QED BY <1>1, <1>2, <1>3 DEF Given, IsList, w

LEMMA OnlyJoined ==
    ASSUME NEW flags, NEW words, NEW s, NEW t, Only(s, flags, words), Only(t, flags, words)
    PROVE  Only(s \o t, flags, words) /\ ToSet(s) \cup ToSet(t) \subseteq ToSet(s \o t)
PROOF
<1>1. IsList(s \o t) /\ ToSet(s \o t) = ToSet(s) \cup ToSet(t)  BY Joined DEF Only
<1> HIDE DEF IsList
<1> QED BY <1>1 DEF Only

EndpointFlags == {"--rpc-url", "--network-passphrase"}
ArtifactFlags == {"--wasm", "--new-wasm", "--previous-wasm", "--old-wasm"}

LEMMA GivenOnly ==
    ASSUME NEW flags, NEW words, NEW flag, flag \notin flags, NEW value  PROVE Only(Given(flag, value), flags, words)
PROOF
<1>1. IsList(Given(flag, value)) /\ ToSet(Given(flag, value)) \subseteq {Word(flag, value)} /\ Word(flag, value).flag = flag
      BY GivenIs
<1> QED BY <1>1 DEF Only

\* The flags of the other words.
RestFlags == {Absent, "--contract", "--envelope", "--args", "--base-fees", "--rpc", "--format"}

LEMMA FlagsAreApart ==
    /\ EndpointFlags \cap RestFlags = {} /\ ArtifactFlags \cap RestFlags = {} /\ EndpointFlags \cap ArtifactFlags = {}
    /\ EndpointFlags \cup ArtifactFlags \subseteq PLANNER_MANAGED_FLAGS
  BY AbsentAssumption DEF EndpointFlags, ArtifactFlags, RestFlags, PLANNER_MANAGED_FLAGS

\* Only the words of the endpoint and of the artifacts are under their flags.
LEMMA WordsAreThere ==
    ASSUME NEW id, NEW cap, NEW args, NEW F, args.explicit_flags \in Seq(F), IsFiniteSet(args.typed_args)
    PROVE  LET argv == ArgvWords(id, cap, args)
               e == EndpointWords(id, cap, args)
               a == ArtifactWords(cap, args)
           IN /\ IsList(argv)
              /\ ToSet(e) \cup ToSet(a) \subseteq ToSet(argv)
              /\ \A w \in ToSet(argv) : w.flag \in EndpointFlags \cup ArtifactFlags => w \in ToSet(e) \cup ToSet(a)
              /\ args.base_fees # Absent => \E w \in ToSet(argv) : w.flag = "--base-fees"
              /\ args.profile # Absent => Word(Absent, args.profile) \in ToSet(argv)
PROOF
<1> DEFINE pass == PassThrough(args)
           p1 == [i \in DOMAIN pass |-> Word(pass[i].name, pass[i].value)]
           p2 == Given(IF flag_for(cap, "--contract") THEN "--contract" ELSE Absent, args.contract)
           p3 == ArtifactWords(cap, args)
           p4 == Given(Absent, args.source_path)
           p5 == Given(Absent, args.function)
           p6 == Given(Absent, args.profile)
           p7 == Given("--envelope", args.envelope)
           p8 == [i \in 1..Cardinality(args.typed_args) |-> Word("--args", SetToSeq(args.typed_args)[i])]
           p9 == Given("--base-fees", args.base_fees)
           p10 == IF args.use_rpc \/ LiveFee(id, args) THEN <<Word("--rpc", Absent)>> ELSE <<>>
           e == EndpointWords(id, cap, args)
           p12 == IF cap.json /\ flag_value(args, "--format") # "pretty" THEN <<Word("--format", "json")>> ELSE <<>>
           Fine(p) == Only(p, EndpointFlags \cup ArtifactFlags, ToSet(e) \cup ToSet(p3))
<1>0. ArgvWords(id, cap, args) = p1 \o p2 \o p3 \o p4 \o p5 \o p6 \o p7 \o p8 \o p9 \o p10 \o e \o p12
      BY Zenon DEF ArgvWords
<1>a. \A f, v : Word(f, v).flag = f  BY DEF Word
<1>b. ASSUME NEW w  PROVE IsList(<<w>>) /\ ToSet(<<w>>) = {w} /\ IsList(<<>>) /\ ToSet(<<>>) = {}
  <2>1. <<w>> \in Seq({w}) /\ DOMAIN <<w>> = {1} /\ <<w>>[1] = w  OBVIOUS
  <2>2. ToSet(<<w>>) = {w}  BY <2>1 DEF ToSet
  <2>3. ToSet(<<>>) = {}  BY DEF ToSet
  <2> QED BY <2>1, <2>2, <2>3 DEF IsList
<1>1. Fine(p1)
  <2> DEFINE G == {f \in F : f.name \notin PLANNER_MANAGED_FLAGS}
  <2>1. pass \in Seq(G)  BY FlagsPassThrough
  <2> HIDE DEF pass, G
  <2>2. Len(pass) \in Nat /\ DOMAIN pass = 1 .. Len(pass) /\ \A i \in 1 .. Len(pass) : pass[i] \in G  BY <2>1
  <2>3. PICK n \in Nat : n = Len(pass) /\ DOMAIN pass = 1 .. n  BY <2>2
  <2>4. p1 = [i \in 1 .. n |-> Word(pass[i].name, pass[i].value)]  BY <2>3
  <2>5. ToSet(p1) = {Word(pass[i].name, pass[i].value) : i \in 1 .. n}  BY <2>4 DEF ToSet
  <2>6. p1 \in Seq(ToSet(p1))
    <3>1. \A i \in 1 .. n : Word(pass[i].name, pass[i].value) \in ToSet(p1)  BY <2>5
    <3> DEFINE W == ToSet(p1)
    <3> HIDE DEF W
    <3>2. [i \in 1 .. n |-> Word(pass[i].name, pass[i].value)] \in Seq(W)  BY <2>3, <3>1 DEF W
    <3> QED BY <2>4, <3>2 DEF W
  <2>7. \A i \in 1 .. n : pass[i].name \notin PLANNER_MANAGED_FLAGS  BY <2>2, <2>3 DEF G
  <2> QED BY <1>a, <2>5, <2>6, <2>7, FlagsAreApart DEF Only, IsList
<1>2. Fine(p2)  BY GivenOnly, FlagsAreApart DEF RestFlags
<1>3. Fine(p3)
  <2> DEFINE old == Given(flag_for_any(cap, BASELINE_FLAGS), args.previous_wasm)
             new == Given(flag_for_any(cap, CANDIDATE_FLAGS), args.wasm)
  <2>1. IsList(old) /\ IsList(new)  BY GivenIs
  <2>2. p3 = new \o old \/ p3 = old \o new  BY DEF ArtifactWords
  <2> HIDE DEF old, new, p3, e
  <2>3. IsList(p3)  BY <2>1, <2>2, Joined
  <2> QED BY <2>3 DEF Only
<1>4. Fine(p4) /\ Fine(p5) /\ Fine(p6)  BY GivenOnly, FlagsAreApart DEF RestFlags
<1>5. Fine(p7) /\ Fine(p9)  BY GivenOnly, FlagsAreApart DEF RestFlags
<1>6. Fine(p8)
  <2>1. PICK n \in Nat : n = Cardinality(args.typed_args)  BY FS_CardinalityType
  <2> DEFINE s == SetToSeq(args.typed_args)
  <2> HIDE DEF s
  <2>2. p8 = [i \in 1 .. n |-> Word("--args", s[i])]  BY <2>1 DEF s
  <2>3. ToSet(p8) = {Word("--args", s[i]) : i \in 1 .. n}  BY <2>2 DEF ToSet
  <2>4. \A i \in 1 .. n : Word("--args", s[i]) \in ToSet(p8)  BY <2>3
  <2> DEFINE W == ToSet(p8)
  <2> HIDE DEF W
  <2>5. [i \in 1 .. n |-> Word("--args", s[i])] \in Seq(W)  BY <2>1, <2>4 DEF W
  <2>6. IsList(p8)  BY <2>2, <2>5 DEF W, IsList
  <2> QED BY <1>a, <2>3, <2>6, FlagsAreApart DEF Only, RestFlags
<1>7. Fine(p10) /\ Fine(p12)
  <2>1. Fine(<<Word("--rpc", Absent)>>) /\ Fine(<<Word("--format", "json")>>) /\ Fine(<<>>)
        BY <1>a, <1>b, FlagsAreApart DEF Only, RestFlags
  <2> QED BY <2>1
<1>8. Fine(e)
  <2> DEFINE u == Word("--rpc-url", IF args.rpc_url = Absent THEN TESTNET_RPC ELSE args.rpc_url)
             v == Word("--network-passphrase", IF args.network_passphrase = Absent THEN TESTNET_PASSPHRASE ELSE args.network_passphrase)
  <2>1. e = <<u, v>> \/ e = <<>>  BY DEF EndpointWords
  <2> HIDE DEF u, v, e
  <2>2. <<u, v>> \in Seq({u, v}) /\ DOMAIN <<u, v>> = {1, 2} /\ <<u, v>>[1] = u /\ <<u, v>>[2] = v  OBVIOUS
  <2>3. ToSet(<<u, v>>) = {u, v}  BY <2>2 DEF ToSet
  <2>4. IsList(<<u, v>>)  BY <2>2, <2>3 DEF IsList
  <2>5. IsList(e)  BY <1>b, <2>1, <2>4
  <2> QED BY <2>5 DEF Only
<1> HIDE DEF pass, p1, p2, p3, p4, p5, p6, p7, p8, p9, p10, e, p12, Fine
<1>9. ASSUME NEW s, NEW t, Fine(s), Fine(t)  PROVE Fine(s \o t) /\ ToSet(s) \cup ToSet(t) \subseteq ToSet(s \o t)
      BY <1>9, OnlyJoined DEF Fine
<1> DEFINE q3 == p1 \o p2 \o p3
           q8 == q3 \o p4 \o p5 \o p6 \o p7 \o p8
           q9 == q8 \o p9
           q11 == q9 \o p10 \o e
<1>10. Fine(q3) /\ ToSet(p3) \subseteq ToSet(q3)
  <2>1. Fine(p1 \o p2)  BY <1>1, <1>2, <1>9
  <2> QED BY <1>3, <1>9, <2>1
<1> HIDE DEF q3
<1>11. Fine(q8) /\ ToSet(q3) \cup ToSet(p6) \subseteq ToSet(q8)
  <2>1. Fine(q3 \o p4) /\ ToSet(q3) \subseteq ToSet(q3 \o p4)  BY <1>4, <1>9, <1>10
  <2>2. Fine(q3 \o p4 \o p5) /\ ToSet(q3) \subseteq ToSet(q3 \o p4 \o p5)  BY <1>4, <1>9, <2>1
  <2>3. Fine(q3 \o p4 \o p5 \o p6) /\ ToSet(q3) \cup ToSet(p6) \subseteq ToSet(q3 \o p4 \o p5 \o p6)  BY <1>4, <1>9, <2>2
  <2>4. Fine(q3 \o p4 \o p5 \o p6 \o p7) /\ ToSet(q3) \cup ToSet(p6) \subseteq ToSet(q3 \o p4 \o p5 \o p6 \o p7)  BY <1>5, <1>9, <2>3
  <2> QED BY <1>6, <1>9, <2>4
<1> HIDE DEF q8
<1>12. Fine(q9) /\ ToSet(q8) \cup ToSet(p9) \subseteq ToSet(q9)  BY <1>5, <1>9, <1>11
<1> HIDE DEF q9
<1>13. Fine(q11) /\ ToSet(q9) \cup ToSet(e) \subseteq ToSet(q11)
  <2>1. Fine(q9 \o p10) /\ ToSet(q9) \subseteq ToSet(q9 \o p10)  BY <1>7, <1>9, <1>12
  <2> QED BY <1>8, <1>9, <2>1
<1> HIDE DEF q11
<1>14. Fine(q11 \o p12) /\ ToSet(q11) \subseteq ToSet(q11 \o p12)  BY <1>7, <1>9, <1>13
<1>15. ArgvWords(id, cap, args) = q11 \o p12  BY <1>0 DEF q11, q9, q8, q3
<1>16. args.base_fees # Absent => \E x \in ToSet(p9) : x.flag = "--base-fees"
  <2>1. args.base_fees # Absent => ToSet(p9) = {Word("--base-fees", args.base_fees)}  BY GivenIs DEF p9
  <2> QED BY <1>a, <2>1
<1>17. ToSet(e) \cup ToSet(p3) \cup ToSet(p6) \cup ToSet(p9) \subseteq ToSet(q11 \o p12)
      BY <1>10, <1>11, <1>12, <1>13, <1>14
<1>18. args.profile # Absent => Word(Absent, args.profile) \in ToSet(p6)  BY GivenIs DEF p6
<1> QED BY <1>14, <1>15, <1>16, <1>17, <1>18 DEF Fine, Only, e, p3

\* The artifacts' words are under the artifacts' flags.
LEMMA ArtifactWordsAre ==
    ASSUME NEW cap, NEW args
    PROVE  LET bf == flag_for_any(cap, BASELINE_FLAGS)
               cf == flag_for_any(cap, CANDIDATE_FLAGS)
               a == ArtifactWords(cap, args)
           IN /\ ToSet(a) \subseteq {Word(bf, args.previous_wasm), Word(cf, args.wasm)}
              /\ args.previous_wasm # Absent => Word(bf, args.previous_wasm) \in ToSet(a)
              /\ args.wasm # Absent => Word(cf, args.wasm) \in ToSet(a)
              /\ bf \in {Absent} \cup ArtifactFlags /\ cf \in {Absent} \cup ArtifactFlags
PROOF
<1> DEFINE bf == flag_for_any(cap, BASELINE_FLAGS)
           cf == flag_for_any(cap, CANDIDATE_FLAGS)
           old == Given(bf, args.previous_wasm)
           new == Given(cf, args.wasm)
           a == ArtifactWords(cap, args)
<1>1. bf \in {Absent} \cup ArtifactFlags /\ cf \in {Absent} \cup ArtifactFlags
  <2>1. \A i \in 1 .. 2 : BASELINE_FLAGS[i] \in ArtifactFlags /\ CANDIDATE_FLAGS[i] \in ArtifactFlags
    <3>1. 1 .. 2 = {1, 2}  OBVIOUS
    <3> QED BY <3>1, ArtifactFlagsAre DEF ArtifactFlags
  <2> QED BY <2>1, FlagIsPicked, ArtifactFlagsAre
<1>2. a = new \o old \/ a = old \o new  BY DEF ArtifactWords
<1> HIDE DEF bf, cf, a
<1>3. /\ IsList(old) /\ ToSet(old) \subseteq {Word(bf, args.previous_wasm)}
      /\ args.previous_wasm # Absent => ToSet(old) = {Word(bf, args.previous_wasm)}
      /\ IsList(new) /\ ToSet(new) \subseteq {Word(cf, args.wasm)}
      /\ args.wasm # Absent => ToSet(new) = {Word(cf, args.wasm)}
      BY GivenIs
<1> HIDE DEF old, new
<1>4. ToSet(a) = ToSet(old) \cup ToSet(new)
  <2>1. ToSet(new \o old) = ToSet(new) \cup ToSet(old)  BY <1>3, Joined
  <2>2. ToSet(old \o new) = ToSet(old) \cup ToSet(new)  BY <1>3, Joined
  <2> QED BY <1>2, <2>1, <2>2
<1> QED BY <1>1, <1>3, <1>4 DEF a, bf, cf

\* The command that is run follows from the request, and the endpoint is pinned.
SpawnInv == pc = "spawn" => request \in Requests /\ planned = plan(request) /\ planned.run

LEMMA SpawnFollows == AgentInit => SpawnInv
  BY DEF AgentInit, SpawnInv

LEMMA SpawnStays == ASSUME SpawnInv, [AgentNext]_agentVars  PROVE SpawnInv'
PROOF
<1>1. ASSUME NEW req \in Requests, AskAgent(req)  PROVE SpawnInv'
  <2>1. request' = req /\ planned' = plan(req) /\ (pc' = "spawn" => planned'.run)  BY <1>1 DEF AskAgent
  <2> QED BY <2>1 DEF SpawnInv
<1>2. CASE Spawn \/ Poll \/ Decide \/ Join  BY <1>2 DEF Spawn, Poll, Decide, Join, SpawnInv
<1>3. CASE UNCHANGED <<pc, request, planned>>  BY <1>3 DEF SpawnInv
<1>4. /\ \A code \in ExitCodes, json \in BOOLEAN : ChildExits(code, json) => UNCHANGED <<pc, request, planned>>
      /\ \A json \in BOOLEAN : HeirEnds(json) => UNCHANGED <<pc, request, planned>>
      BY DEF ChildExits, HeirEnds
<1>5. DeadlinePasses \/ ChildForks \/ UNCHANGED agentVars => UNCHANGED <<pc, request, planned>>
      BY DEF DeadlinePasses, ChildForks, agentVars
<1> QED BY <1>1, <1>2, <1>3, <1>4, <1>5 DEF AgentNext

\* An entry that can be planned and asks a network declares the endpoint.
DeclaresEndpoint(cap) == cap.network => declares_arg(cap, "--rpc-url")

LEMMA SequencesAreLists == ASSUME NEW S, NEW q \in Seq(S)  PROVE IsList(q)
PROOF
<1>1. DOMAIN q = 1 .. Len(q)  OBVIOUS
<1>2. q \in [1 .. Len(q) -> ToSet(q)]  BY <1>1 DEF ToSet
<1> QED BY <1>1, <1>2 DEF IsList

LEMMA TuplesAreLists ==
    /\ IsList(<<>>)
    /\ \A a : IsList(<<a>>)
    /\ \A a, b : IsList(<<a, b>>)
    /\ \A a, b, c : IsList(<<a, b, c>>)
    /\ \A a, b, c, d : IsList(<<a, b, c, d>>)
    /\ \A a, b, c, d, e : IsList(<<a, b, c, d, e>>)
    /\ \A a, b, c, d, e, f : IsList(<<a, b, c, d, e, f>>)
    /\ \A a, b, c, d, e, f, g, h : IsList(<<a, b, c, d, e, f, g, h>>)
PROOF
<1>0. IsList(<<>>)
  <2>1. <<>> \in Seq({})  OBVIOUS
  <2> QED BY <2>1, SequencesAreLists
<1>1. ASSUME NEW a  PROVE IsList(<<a>>)
  <2>1. <<a>> \in Seq({a})  OBVIOUS
  <2> QED BY <2>1, SequencesAreLists
<1>2. ASSUME NEW a, NEW b  PROVE IsList(<<a, b>>)
  <2>1. <<a, b>> \in Seq({a, b})  OBVIOUS
  <2> QED BY <2>1, SequencesAreLists
<1>3. ASSUME NEW a, NEW b, NEW c  PROVE IsList(<<a, b, c>>)
  <2>1. <<a, b, c>> \in Seq({a, b, c})  OBVIOUS
  <2> QED BY <2>1, SequencesAreLists
<1>4. ASSUME NEW a, NEW b, NEW c, NEW d  PROVE IsList(<<a, b, c, d>>)
  <2>1. <<a, b, c, d>> \in Seq({a, b, c, d})  OBVIOUS
  <2> QED BY <2>1, SequencesAreLists
<1>5. ASSUME NEW a, NEW b, NEW c, NEW d, NEW e  PROVE IsList(<<a, b, c, d, e>>)
  <2>1. <<a, b, c, d, e>> \in Seq({a, b, c, d, e})  OBVIOUS
  <2> QED BY <2>1, SequencesAreLists
<1>6. ASSUME NEW a, NEW b, NEW c, NEW d, NEW e, NEW f  PROVE IsList(<<a, b, c, d, e, f>>)
  <2>1. <<a, b, c, d, e, f>> \in Seq({a, b, c, d, e, f})  OBVIOUS
  <2> QED BY <2>1, SequencesAreLists
<1>8. ASSUME NEW a, NEW b, NEW c, NEW d, NEW e, NEW f, NEW g, NEW h  PROVE IsList(<<a, b, c, d, e, f, g, h>>)
  <2>1. <<a, b, c, d, e, f, g, h>> \in Seq({a, b, c, d, e, f, g, h})  OBVIOUS
  <2> QED BY <2>1, SequencesAreLists
<1> QED BY <1>0, <1>1, <1>2, <1>3, <1>4, <1>5, <1>6, <1>8

LEMMA EndpointIsDeclared ==
    ASSUME NEW s, NEW v, IsList(s), IsList(v), NEW cap, cap.args = s \o Net \o v \/ cap.args = Net \o v
    PROVE  DeclaresEndpoint(cap)
PROOF
<1>1. IsList(Net) /\ "--rpc-url" \in ToSet(Net)
  <2>1. DOMAIN Net = {1, 2} /\ Net[1] = "--rpc-url"  BY DEF Net
  <2> QED BY <2>1, NetIsOther, SequencesAreLists DEF ToSet
<1>2. IsList(s \o Net) /\ "--rpc-url" \in ToSet(s \o Net) /\ "--rpc-url" \in ToSet(Net \o v)  BY <1>1, Joined
<1>3. "--rpc-url" \in ToSet(s \o Net \o v)  BY <1>2, Joined
<1>4. "--rpc-url" \in ToSet(cap.args) => DeclaresEndpoint(cap)  BY DEF ToSet, DeclaresEndpoint, declares_arg
<1> QED BY <1>2, <1>3, <1>4

LEMMA ArtifactEndpoints == \A id \in DOMAIN ArtifactCapabilities : DeclaresEndpoint(ArtifactCapabilities[id])
PROOF
<1>1. /\ ArtifactCapabilities.wasm_inspect.network = FALSE
      /\ ArtifactCapabilities.diff.network = FALSE
      /\ ArtifactCapabilities.diff_upgrade_safety.network = FALSE
      BY DEF ArtifactCapabilities, Cap
<1>2. DeclaresEndpoint(ArtifactCapabilities.wasm_metadata)
  <2>1. ArtifactCapabilities.wasm_metadata.args =
          <<"--contract">> \o Net \o <<"--network", "--network-profile", "--refresh", "--format">>
        BY DEF ArtifactCapabilities, Cap
  <2>2. IsList(<<"--contract">>)  BY TuplesAreLists
  <2>3. IsList(<<"--network", "--network-profile", "--refresh", "--format">>)  BY TuplesAreLists
  <2> QED BY <2>1, <2>2, <2>3, EndpointIsDeclared
<1>3. DOMAIN ArtifactCapabilities = {"wasm_inspect", "wasm_metadata", "diff", "diff_upgrade_safety"}
      BY DEF ArtifactCapabilities
<1> QED BY <1>1, <1>2, <1>3 DEF DeclaresEndpoint

LEMMA AssuranceEndpoints == \A id \in DOMAIN AssuranceCapabilities : DeclaresEndpoint(AssuranceCapabilities[id])
PROOF
<1>1. AssuranceCapabilities.audit.network = FALSE
      BY DEF AssuranceCapabilities, Cap
<1>2. DeclaresEndpoint(AssuranceCapabilities.verify)
  <2>1. AssuranceCapabilities.verify.args =
          <<"--contract">> \o Net \o <<"--wasm", "--network", "--network-profile", "--format", "--upgrade-safety">>
        BY DEF AssuranceCapabilities, Cap
  <2>2. IsList(<<"--contract">>)  BY TuplesAreLists
  <2>3. IsList(<<"--wasm", "--network", "--network-profile", "--format", "--upgrade-safety">>)  BY TuplesAreLists
  <2> QED BY <2>1, <2>2, <2>3, EndpointIsDeclared
<1>3. DeclaresEndpoint(AssuranceCapabilities.deployment_verify)
  <2>1. AssuranceCapabilities.deployment_verify.args =
          <<"--contract", "--wasm", "--network">> \o Net \o <<"--network-profile", "--format">>
        BY DEF AssuranceCapabilities, Cap
  <2>2. IsList(<<"--contract", "--wasm", "--network">>)  BY TuplesAreLists
  <2>3. IsList(<<"--network-profile", "--format">>)  BY TuplesAreLists
  <2> QED BY <2>1, <2>2, <2>3, EndpointIsDeclared
<1>4. DeclaresEndpoint(AssuranceCapabilities.health)
  <2>1. AssuranceCapabilities.health.args =
          <<"--contract">> \o Net \o <<"--wasm", "--network", "--network-profile", "--format">>
        BY DEF AssuranceCapabilities, Cap
  <2>2. IsList(<<"--contract">>)  BY TuplesAreLists
  <2>3. IsList(<<"--wasm", "--network", "--network-profile", "--format">>)  BY TuplesAreLists
  <2> QED BY <2>1, <2>2, <2>3, EndpointIsDeclared
<1>5. DeclaresEndpoint(AssuranceCapabilities.inspect)
  <2>1. AssuranceCapabilities.inspect.args =
          <<"<contract-id>">> \o Net \o <<"--network-profile", "--format">>
        BY DEF AssuranceCapabilities, Cap
  <2>2. IsList(<<"<contract-id>">>)  BY TuplesAreLists
  <2>3. IsList(<<"--network-profile", "--format">>)  BY TuplesAreLists
  <2> QED BY <2>1, <2>2, <2>3, EndpointIsDeclared
<1>6. DeclaresEndpoint(AssuranceCapabilities.release_assurance)
  <2>1. AssuranceCapabilities.release_assurance.args =
          <<"--wasm">> \o Net \o <<"--previous-wasm", "--audit", "--disable", "--contract", "--network", "--max-size-bytes",
                             "--max-growth-pct", "--format">>
        BY DEF AssuranceCapabilities, Cap
  <2>2. IsList(<<"--wasm">>)  BY TuplesAreLists
  <2>3. IsList(<<"--previous-wasm", "--audit", "--disable", "--contract", "--network", "--max-size-bytes",
                             "--max-growth-pct", "--format">>)  BY TuplesAreLists
  <2> QED BY <2>1, <2>2, <2>3, EndpointIsDeclared
<1>7. DOMAIN AssuranceCapabilities = {"audit", "verify", "deployment_verify", "health", "inspect", "release_assurance"}
      BY DEF AssuranceCapabilities
<1> QED BY <1>1, <1>2, <1>3, <1>4, <1>5, <1>6, <1>7 DEF DeclaresEndpoint

LEMMA ChainEndpoints == \A id \in DOMAIN ChainCapabilities : DeclaresEndpoint(ChainCapabilities[id])
PROOF
<1>1. DeclaresEndpoint(ChainCapabilities.storage_analyze)
  <2>1. ChainCapabilities.storage_analyze.args =
          <<"<contract-id>">> \o Net \o <<"--key-xdr", "--map-key", "--key-arg", "--durability", "--abi-contract", "--format">>
        BY DEF ChainCapabilities, Cap
  <2>2. IsList(<<"<contract-id>">>)  BY TuplesAreLists
  <2>3. IsList(<<"--key-xdr", "--map-key", "--key-arg", "--durability", "--abi-contract", "--format">>)  BY TuplesAreLists
  <2> QED BY <2>1, <2>2, <2>3, EndpointIsDeclared
<1>2. DeclaresEndpoint(ChainCapabilities.events)
  <2>1. ChainCapabilities.events.args =
          <<"<contract-id>">> \o Net \o <<"--start-ledger", "--end-ledger", "--topic", "--abi", "--abi-contract", "--format">>
        BY DEF ChainCapabilities, Cap
  <2>2. IsList(<<"<contract-id>">>)  BY TuplesAreLists
  <2>3. IsList(<<"--start-ledger", "--end-ledger", "--topic", "--abi", "--abi-contract", "--format">>)  BY TuplesAreLists
  <2> QED BY <2>1, <2>2, <2>3, EndpointIsDeclared
<1>3. DeclaresEndpoint(ChainCapabilities.call)
  <2>1. ChainCapabilities.call.args =
          <<"<contract-id>", "<function>">> \o Net \o <<"--args", "--args-json", "--abi", "--abi-contract", "--format">>
        BY DEF ChainCapabilities, Cap
  <2>2. IsList(<<"<contract-id>", "<function>">>)  BY TuplesAreLists
  <2>3. IsList(<<"--args", "--args-json", "--abi", "--abi-contract", "--format">>)  BY TuplesAreLists
  <2> QED BY <2>1, <2>2, <2>3, EndpointIsDeclared
<1>4. DeclaresEndpoint(ChainCapabilities.account)
  <2>1. ChainCapabilities.account.args =
          <<"<address>">> \o Net \o <<"--network-profile", "--format">>
        BY DEF ChainCapabilities, Cap
  <2>2. IsList(<<"<address>">>)  BY TuplesAreLists
  <2>3. IsList(<<"--network-profile", "--format">>)  BY TuplesAreLists
  <2> QED BY <2>1, <2>2, <2>3, EndpointIsDeclared
<1>5. DOMAIN ChainCapabilities = {"storage_analyze", "events", "call", "account"}
      BY DEF ChainCapabilities
<1> QED BY <1>1, <1>2, <1>3, <1>4, <1>5 DEF DeclaresEndpoint

LEMMA LocalEndpoints == \A id \in DOMAIN LocalCapabilities \ {"network_check"} : DeclaresEndpoint(LocalCapabilities[id])
PROOF
<1>1. /\ LocalCapabilities.network_list.network = FALSE
      /\ LocalCapabilities.network_show.network = FALSE
      /\ LocalCapabilities.doctor.network = FALSE
      /\ LocalCapabilities.plugin_doctor.network = FALSE
      BY DEF LocalCapabilities, Cap
<1>2. DeclaresEndpoint(LocalCapabilities.network_diagnose)
  <2>1. LocalCapabilities.network_diagnose.args =
          <<"--network">> \o Net \o <<"--network-profile", "--format">>
        BY DEF LocalCapabilities, Cap
  <2>2. IsList(<<"--network">>)  BY TuplesAreLists
  <2>3. IsList(<<"--network-profile", "--format">>)  BY TuplesAreLists
  <2> QED BY <2>1, <2>2, <2>3, EndpointIsDeclared
<1>3. DOMAIN LocalCapabilities = {"network_list", "network_show", "network_check", "network_diagnose", "doctor", "plugin_doctor"}
      BY DEF LocalCapabilities
<1> QED BY <1>1, <1>2, <1>3 DEF DeclaresEndpoint

LEMMA TxEndpoints == \A id \in DOMAIN TxCapabilities : DeclaresEndpoint(TxCapabilities[id])
PROOF
<1>1. /\ TxCapabilities.tx_decode.network = FALSE
      /\ TxCapabilities.tx_validate.network = FALSE
      BY DEF TxCapabilities, Cap
<1>2. DeclaresEndpoint(TxCapabilities.fee_estimate)
  <2>1. TxCapabilities.fee_estimate.args =
          Net \o <<"--network", "--base-fees", "--rpc", "--network-profile", "--format">>
        BY DEF TxCapabilities, Cap
  <2>2. IsList(<<>>)  BY TuplesAreLists
  <2>3. IsList(<<"--network", "--base-fees", "--rpc", "--network-profile", "--format">>)  BY TuplesAreLists
  <2> QED BY <2>1, <2>2, <2>3, EndpointIsDeclared
<1>3. DeclaresEndpoint(TxCapabilities.tx_simulate)
  <2>1. TxCapabilities.tx_simulate.args =
          <<"--envelope">> \o Net \o <<"--abi", "--abi-contract", "--network-profile", "--format">>
        BY DEF TxCapabilities, Cap
  <2>2. IsList(<<"--envelope">>)  BY TuplesAreLists
  <2>3. IsList(<<"--abi", "--abi-contract", "--network-profile", "--format">>)  BY TuplesAreLists
  <2> QED BY <2>1, <2>2, <2>3, EndpointIsDeclared
<1>4. DeclaresEndpoint(TxCapabilities.project_status)
  <2>1. TxCapabilities.project_status.args =
          Net \o <<"--format", "--network-profile">>
        BY DEF TxCapabilities, Cap
  <2>2. IsList(<<>>)  BY TuplesAreLists
  <2>3. IsList(<<"--format", "--network-profile">>)  BY TuplesAreLists
  <2> QED BY <2>1, <2>2, <2>3, EndpointIsDeclared
<1>5. DOMAIN TxCapabilities = {"fee_estimate", "tx_decode", "tx_validate", "tx_simulate", "project_status"}
      BY DEF TxCapabilities
<1> QED BY <1>1, <1>2, <1>3, <1>4, <1>5 DEF DeclaresEndpoint

\* The check of a saved profile alone asks a network and takes no endpoint.
LEMMA NetworksAreDeclared ==
    ASSUME NEW id \in DOMAIN INTENT_KEYWORDS, find(id).safety = "read_only"
    PROVE  /\ id # "network_check" => DeclaresEndpoint(find(id))
           /\ id = "network_check" => ~flag_for(find(id), "--rpc-url")
PROOF
<1>1. PICK g \in CAPABILITIES : id \in DOMAIN g /\ find(id) = g[id]  BY IntentIsInRegistry
<1>2. ASSUME id # "network_check"  PROVE DeclaresEndpoint(find(id))
  <2>1. CASE g = MutatingCapabilities
    <3>1. find(id).safety = "mutating"  BY <1>1, <2>1, MutatingIsMutating
    <3> QED BY <3>1
  <2> QED BY <1>1, <1>2, <2>1, ArtifactEndpoints, AssuranceEndpoints, ChainEndpoints, LocalEndpoints, TxEndpoints DEF CAPABILITIES
<1>3. ASSUME id = "network_check"  PROVE ~flag_for(find(id), "--rpc-url")
  <2>1. g = LocalCapabilities  BY <1>1, <1>3, RegistryIs DEF CAPABILITIES
  <2>2. LocalCapabilities.network_check.args = <<"<name>", "--format">>  BY DEF LocalCapabilities, Cap
  <2>3. find(id).args = <<"<name>", "--format">>  BY <1>1, <1>3, <2>1, <2>2
  <2>4. ~declares_arg(find(id), "--rpc-url")  BY <2>3 DEF declares_arg
  <2> QED BY <2>4 DEF flag_for
<1> QED BY <1>2, <1>3

\* What is planned reads. If it asks a network, it goes to the endpoint that the request
\* spelled out or to testnet, it takes the fees of the request, or it checks a saved profile
\* that the request names.
LEMMA PlanIsPinned ==
    ASSUME NEW req \in Requests, plan(req).run
    PROVE  LET p == plan(req)
               Values(flag) == {p.argv[i].value : i \in {j \in DOMAIN p.argv : p.argv[j].flag = flag}}
           IN /\ find(p.id).safety = "read_only"
              /\ \A url \in Values("--rpc-url") \ {TESTNET_RPC} :
                    /\ url \in TextsOf(req, "url") \cup SpelledOf(req, "--rpc-url")
                    /\ Values("--network-passphrase") \subseteq SpelledOf(req, "--network-passphrase")
              /\ find(p.id).network =>
                    \/ p.id # "network_check" /\ Values("--rpc-url") # {}
                    \/ p.id = "fee_estimate" /\ Values("--base-fees") # {}
                    \/ /\ p.id = "network_check" /\ Values("--rpc-url") \cup Values("--network-passphrase") = {}
                       /\ \E name \in Values(Absent) : ProfileAt(req, name)
PROOF
<1> DEFINE p == plan(req)
           id == p.id
           cap == find(id)
           args == extract_args(req)
           argv == ArgvWords(id, cap, args)
           e == EndpointWords(id, cap, args)
           Values(flag) == {p.argv[i].value : i \in {j \in DOMAIN p.argv : p.argv[j].flag = flag}}
           url == IF args.rpc_url = Absent THEN TESTNET_RPC ELSE args.rpc_url
           phrase == IF args.network_passphrase = Absent THEN TESTNET_PASSPHRASE ELSE args.network_passphrase
           called == cap.network /\ flag_for(cap, "--rpc-url") /\ ~(id = "fee_estimate" /\ args.base_fees # Absent /\ ~args.use_rpc)
<1>1. /\ cap.safety = "read_only" /\ p = build_argv(id, args)
      /\ id \in DOMAIN INTENT_KEYWORDS /\ validate_args(id, args) = Absent
      BY PlanSays
<1>2. /\ p.argv = argv
      /\ \A i \in 1 .. Len(NetworkGate(cap, args)) : ~NetworkGate(cap, args)[i].bad
  <2>1. build_argv(id, args).run = TRUE \/ build_argv(id, args).run # FALSE  BY <1>1
  <2>2. /\ build_argv(id, args) = [run |-> TRUE, code |-> Absent, id |-> id, argv |-> argv]
        /\ \A i \in 1 .. Len(NetworkGate(cap, args)) : ~NetworkGate(cap, args)[i].bad
        BY <1>1, <2>1, ArgvOrRefusal
  <2> QED BY <1>1, <2>2
<1>3. /\ args.rpc_url \in {Absent} \cup TextsOf(req, "url") \cup SpelledOf(req, "--rpc-url")
      /\ args.network_passphrase \in {Absent} \cup SpelledOf(req, "--network-passphrase")
      /\ args.explicit_flags \in Seq(FlagsOf(req)) /\ IsFiniteSet(args.typed_args)
      /\ args.profile # Absent => ProfileAt(req, args.profile)
  <2>1. IsRequest(req)  BY RequestsAssumption DEF IsRequest
  <2> QED BY <2>1, ArgsAreOfTheRequest, ProfileIsNamed
<1>4. /\ IsList(argv) /\ ToSet(e) \subseteq ToSet(argv) /\ \A w \in ToSet(argv) : w.flag \in EndpointFlags => w \in ToSet(e)
      /\ args.base_fees # Absent => \E w \in ToSet(argv) : w.flag = "--base-fees"
      /\ args.profile # Absent => Word(Absent, args.profile) \in ToSet(argv)
  <2>1. \A w \in ToSet(ArtifactWords(cap, args)) : w.flag \notin EndpointFlags
    <3>1. \A f, v : Word(f, v).flag = f  BY DEF Word
    <3> QED BY <3>1, ArtifactWordsAre, FlagsAreApart DEF RestFlags
  <2> QED BY <1>3, <2>1, WordsAreThere
<1>5. /\ called => ToSet(e) = {Word("--rpc-url", url), Word("--network-passphrase", phrase)}
      /\ ~called => ToSet(e) = {}
  <2>1. \A u, v : ToSet(<<u, v>>) = {u, v}
    <3> SUFFICES ASSUME NEW u, NEW v  PROVE ToSet(<<u, v>>) = {u, v}  OBVIOUS
    <3>1. DOMAIN <<u, v>> = {1, 2} /\ <<u, v>>[1] = u /\ <<u, v>>[2] = v  OBVIOUS
    <3> QED BY <3>1 DEF ToSet
  <2>2. ToSet(<<>>) = {}  BY DEF ToSet
  <2>3. e = IF called THEN <<Word("--rpc-url", url), Word("--network-passphrase", phrase)>> ELSE <<>>
        BY DEF EndpointWords
  <2> HIDE DEF e, called, url, phrase
  <2>4. CASE called
    <3>1. e = <<Word("--rpc-url", url), Word("--network-passphrase", phrase)>>  BY <2>3, <2>4
    <3> QED BY <2>1, <2>4, <3>1
  <2>5. CASE ~called  BY <2>2, <2>3, <2>5
  <2> QED BY <2>4, <2>5
<1>6. called => args.rpc_url \in {Absent, TESTNET_RPC} \/ args.network_passphrase # Absent
  <2> DEFINE g == NetworkGate(cap, args)
  <2>1. Len(g) = 4 /\ g[4].bad = (/\ cap.network /\ flag_for(cap, "--rpc-url") /\ args.rpc_url \notin {Absent, TESTNET_RPC}
                                  /\ args.network_passphrase = Absent)
        BY DEF NetworkGate
  <2>2. \A i \in 1 .. Len(g) : ~g[i].bad  BY <1>2
  <2> HIDE DEF g
  <2>3. 4 \in 1 .. Len(g)  BY <2>1
  <2>4. ~g[4].bad  BY <2>2, <2>3, Zenon
  <2> QED BY <2>1, <2>4
<1>7. \A f, v : Word(f, v).flag = f /\ Word(f, v).value = v  BY DEF Word
<1>8. \A flag : Values(flag) = {w.value : w \in {x \in ToSet(argv) : x.flag = flag}}  BY <1>2 DEF ToSet
<1> HIDE DEF p, argv, e, args, cap, id, Values, url, phrase, called
<1>9. ASSUME NEW v \in Values("--rpc-url")  PROVE called /\ v = url
  <2>1. PICK w \in ToSet(argv) : w.flag = "--rpc-url" /\ w.value = v  BY <1>8
  <2>2. w \in ToSet(e)  BY <1>4, <2>1 DEF EndpointFlags
  <2> QED BY <1>5, <1>7, <2>1, <2>2
<1>10. ASSUME NEW v \in Values("--network-passphrase")  PROVE called /\ v = phrase
  <2>1. PICK w \in ToSet(argv) : w.flag = "--network-passphrase" /\ w.value = v  BY <1>8
  <2>2. w \in ToSet(e)  BY <1>4, <2>1 DEF EndpointFlags
  <2> QED BY <1>5, <1>7, <2>1, <2>2
<1>11. ASSUME NEW v \in Values("--rpc-url") \ {TESTNET_RPC}
       PROVE  /\ v \in TextsOf(req, "url") \cup SpelledOf(req, "--rpc-url")
              /\ Values("--network-passphrase") \subseteq SpelledOf(req, "--network-passphrase")
  <2>1. args.rpc_url # Absent /\ args.rpc_url # TESTNET_RPC /\ v = args.rpc_url /\ called  BY <1>9, <1>11 DEF url
  <2>2. phrase \in SpelledOf(req, "--network-passphrase")  BY <1>3, <1>6, <2>1 DEF phrase
  <2> QED BY <1>3, <1>10, <2>1, <2>2
<1>12. ASSUME cap.network, id # "network_check"
       PROVE  Values("--rpc-url") # {} \/ (id = "fee_estimate" /\ Values("--base-fees") # {})
  <2>1. flag_for(cap, "--rpc-url")  BY <1>1, <1>12, NetworksAreDeclared DEF DeclaresEndpoint, flag_for, cap
  <2>2. CASE called
    <3>1. Word("--rpc-url", url) \in ToSet(argv)  BY <1>4, <1>5, <2>2
    <3> QED BY <1>7, <1>8, <3>1
  <2>3. CASE ~called
    <3>1. id = "fee_estimate" /\ args.base_fees # Absent  BY <1>12, <2>1, <2>3 DEF called
    <3> QED BY <1>4, <1>8, <3>1
  <2> QED BY <2>2, <2>3
<1>13. ASSUME id = "network_check"
       PROVE  /\ Values("--rpc-url") \cup Values("--network-passphrase") = {}
              /\ \E name \in Values(Absent) : ProfileAt(req, name)
  <2>1. ~called  BY <1>1, <1>13, NetworksAreDeclared DEF called, cap
  <2>2. args.profile # Absent  BY <1>1, <1>13, AbsentAssumption DEF validate_args
  <2>3. args.profile \in Values(Absent)  BY <1>4, <1>7, <1>8, <2>2
  <2> QED BY <1>3, <1>9, <1>10, <2>1, <2>2, <2>3
<1> QED BY <1>1, <1>11, <1>12, <1>13 DEF p, id, cap, Values

\* No request makes the agent write, or talk to an endpoint nobody spelled out; what asks a
\* network without an endpoint checks a saved profile that the request names.
THEOREM AgentIsPinned == AgentSpec => []ReadOnlyAndPinned
PROOF
<1>1. SpawnInv => ReadOnlyAndPinned
  <2> SUFFICES ASSUME SpawnInv, pc = "spawn"
               PROVE  /\ find(planned.id).safety = "read_only"
                      /\ \A url \in ValuesOf("--rpc-url") \ {TESTNET_RPC} :
                            /\ url \in Texts("url") \cup Spelled("--rpc-url")
                            /\ ValuesOf("--network-passphrase") \subseteq Spelled("--network-passphrase")
                      /\ find(planned.id).network =>
                            \/ planned.id # "network_check" /\ ValuesOf("--rpc-url") # {}
                            \/ planned.id = "fee_estimate" /\ ValuesOf("--base-fees") # {}
                            \/ ChecksNamedProfile
      BY DEF ReadOnlyAndPinned
  <2>1. request \in Requests /\ planned = plan(request) /\ plan(request).run  BY DEF SpawnInv
  <2> DEFINE p == plan(request)
             Values(flag) == {p.argv[i].value : i \in {j \in DOMAIN p.argv : p.argv[j].flag = flag}}
  <2>2. /\ find(p.id).safety = "read_only"
        /\ \A url \in Values("--rpc-url") \ {TESTNET_RPC} :
              /\ url \in TextsOf(request, "url") \cup SpelledOf(request, "--rpc-url")
              /\ Values("--network-passphrase") \subseteq SpelledOf(request, "--network-passphrase")
        /\ find(p.id).network =>
              \/ p.id # "network_check" /\ Values("--rpc-url") # {}
              \/ p.id = "fee_estimate" /\ Values("--base-fees") # {}
              \/ /\ p.id = "network_check" /\ Values("--rpc-url") \cup Values("--network-passphrase") = {}
                 /\ \E name \in Values(Absent) : ProfileAt(request, name)
        BY <2>1, PlanIsPinned
  <2>3. planned = p  BY <2>1
  <2>4. \A flag : ValuesOf(flag) = Values(flag)  BY <2>3, Zenon DEF ValuesOf
  <2>5. \A kind : Texts(kind) = TextsOf(request, kind)  BY Zenon DEF Texts, TextsOf
  <2>6. \A flag : Spelled(flag) = SpelledOf(request, flag)  BY Zenon DEF Spelled, SpelledOf
  <2>7. /\ planned.id = "network_check" /\ ValuesOf("--rpc-url") \cup ValuesOf("--network-passphrase") = {}
        /\ \E name \in ValuesOf(Absent) : ProfileAt(request, name)
        => ChecksNamedProfile
        BY DEF ChecksNamedProfile, ProfileAt
  <2> HIDE DEF p, Values
  <2> QED BY <2>2, <2>3, <2>4, <2>5, <2>6, <2>7
<1> QED BY <1>1, SpawnFollows, SpawnStays, PTL DEF AgentSpec

\* A capability that takes a baseline is not asked for before both artifacts have their roles.
LEMMA UpgradesNeedRoles ==
    ASSUME NEW id \in Upgrades, NEW args, validate_args(id, args) = Absent
    PROVE  args.wasm # Absent
PROOF
<1> SUFFICES ASSUME args.wasm = Absent  PROVE FALSE  OBVIOUS
<1>1. CASE id \in {"diff", "diff_upgrade_safety"}
  <2>1. validate_args(id, args) \in {"ambiguous_roles", "missing_argument"}  BY <1>1 DEF validate_args
  <2> QED BY <2>1, AbsentAssumption
<1>2. CASE id = "release_assurance"
  <2>1. validate_args(id, args) \in {"ambiguous_roles", "missing_argument"}  BY <1>2 DEF validate_args
  <2> QED BY <2>1, AbsentAssumption
<1> QED BY <1>1, <1>2 DEF Upgrades

\* Of two artifacts the command has one under each kind of flag, as they were marked.
LEMMA PlanKeepsRoles ==
    ASSUME NEW req \in Requests, plan(req).run, ApartIn(req), Cardinality(NamedIn(req, 1 .. Len(req))) = 2
    PROVE  LET p == plan(req)
               Values(flag) == {p.argv[i].value : i \in {j \in DOMAIN p.argv : p.argv[j].flag = flag}}
           IN \E new, old :
                 /\ NamedIn(req, 1 .. Len(req)) = {new, old} /\ new # old
                 /\ MarkedIn(req, 1 .. Len(req), "candidate") \subseteq {new}
                 /\ MarkedIn(req, 1 .. Len(req), "baseline") \subseteq {old}
                 /\ Values("--wasm") \cup Values("--new-wasm") = {new}
                 /\ Values("--previous-wasm") \cup Values("--old-wasm") = {old}
PROOF
<1> DEFINE p == plan(req)
           id == p.id
           cap == find(id)
           args == extract_args(req)
           argv == ArgvWords(id, cap, args)
           e == EndpointWords(id, cap, args)
           a == ArtifactWords(cap, args)
           bf == flag_for_any(cap, BASELINE_FLAGS)
           cf == flag_for_any(cap, CANDIDATE_FLAGS)
           new == args.wasm
           old == args.previous_wasm
           Values(flag) == {p.argv[i].value : i \in {j \in DOMAIN p.argv : p.argv[j].flag = flag}}
<1>1. /\ cap.safety = "read_only" /\ p = build_argv(id, args) /\ id \in DOMAIN INTENT_KEYWORDS
      /\ validate_args(id, args) = Absent
      BY PlanSays
<1>2. p.argv = argv /\ \A i \in 1 .. Len(ArgumentGate(cap, args)) : ~ArgumentGate(cap, args)[i].bad
  <2>1. /\ build_argv(id, args) = [run |-> TRUE, code |-> Absent, id |-> id, argv |-> argv]
        /\ \A i \in 1 .. Len(ArgumentGate(cap, args)) : ~ArgumentGate(cap, args)[i].bad
        BY <1>1, ArgvOrRefusal
  <2> QED BY <1>1, <2>1
<1>3. IsRequest(req)  BY RequestsAssumption DEF IsRequest
<1>4. args.explicit_flags \in Seq(FlagsOf(req)) /\ IsFiniteSet(args.typed_args)  BY <1>3, ArgsAreOfTheRequest
<1>5. /\ args.artifact_paths = NamedIn(req, 1 .. Len(req))
      /\ \/ new = Absent /\ old = Absent
         \/ /\ args.artifact_paths = {new, old} /\ new # old
            /\ MarkedIn(req, 1 .. Len(req), "candidate") \subseteq {new}
            /\ MarkedIn(req, 1 .. Len(req), "baseline") \subseteq {old}
      BY <1>3, RolesAreOfTheRequest
<1>6. bf # Absent
  <2> DEFINE g == ArgumentGate(cap, args)
  <2>1. Len(g) = 2 /\ (g[1].bad <=> Cardinality(args.artifact_paths) > artifact_capacity(cap))  BY DEF ArgumentGate
  <2>2. \A i \in 1 .. Len(g) : ~g[i].bad  BY <1>2
  <2> HIDE DEF g
  <2>3. 1 \in 1 .. Len(g)  BY <2>1
  <2>4. ~g[1].bad  BY <2>2, <2>3, Zenon
  <2>5. Cardinality(args.artifact_paths) = 2  BY <1>5
  <2>6. bf = Absent => artifact_capacity(cap) \in {0, 1}  BY DEF artifact_capacity
  <2>7. ~(2 > artifact_capacity(cap))  BY <2>1, <2>4, <2>5
  <2>8. 2 > 0 /\ 2 > 1  OBVIOUS
  <2> HIDE DEF bf, args, cap
  <2> QED BY <2>6, <2>7, <2>8
<1>7. /\ id \in Upgrades /\ bf \in {"--previous-wasm", "--old-wasm"} /\ cf \in {"--wasm", "--new-wasm"}
  <2>1. /\ id \in Upgrades
        /\ \E i \in 1 .. 2 : bf = BASELINE_FLAGS[i]
        /\ \E i \in 1 .. 2 : cf = CANDIDATE_FLAGS[i]
        BY <1>1, <1>6, BaselineIsForUpgrades
  <2> HIDE DEF bf, cf, id
  <2> QED BY <2>1, ArtifactFlagsAre
<1>8. new # Absent  BY <1>1, <1>7, UpgradesNeedRoles
<1>9. old # Absent
  <2>1. \A i : Absent \notin ArtifactAt(req, i)  BY DEF ArtifactAt
  <2>2. Absent \notin NamedIn(req, 1 .. Len(req))  BY <2>1 DEF NamedIn
  <2> QED BY <1>5, <1>8, <2>2
<1>10. ToSet(a) = {Word(bf, old), Word(cf, new)}  BY <1>8, <1>9, ArtifactWordsAre
<1>11. \A f, v : Word(f, v).flag = f /\ Word(f, v).value = v  BY DEF Word
<1>12. \A w \in ToSet(e) : w.flag \in EndpointFlags
  <2> DEFINE u == Word("--rpc-url", IF args.rpc_url = Absent THEN TESTNET_RPC ELSE args.rpc_url)
             v == Word("--network-passphrase", IF args.network_passphrase = Absent THEN TESTNET_PASSPHRASE ELSE args.network_passphrase)
  <2>1. e = <<u, v>> \/ e = <<>>  BY DEF EndpointWords
  <2>2. u.flag \in EndpointFlags /\ v.flag \in EndpointFlags  BY <1>11 DEF EndpointFlags
  <2> HIDE DEF u, v, e
  <2>3. DOMAIN <<u, v>> = {1, 2} /\ <<u, v>>[1] = u /\ <<u, v>>[2] = v /\ DOMAIN <<>> = {}  OBVIOUS
  <2> QED BY <2>1, <2>2, <2>3 DEF ToSet
<1>13. /\ ToSet(a) \subseteq ToSet(argv)
       /\ \A w \in ToSet(argv) : w.flag \in ArtifactFlags => w \in ToSet(a)
  <2>1. /\ ToSet(e) \cup ToSet(a) \subseteq ToSet(argv)
        /\ \A w \in ToSet(argv) : w.flag \in EndpointFlags \cup ArtifactFlags => w \in ToSet(e) \cup ToSet(a)
        BY <1>4, WordsAreThere
  <2> QED BY <1>12, <2>1, FlagsAreApart
<1>14. \A flag : Values(flag) = {w.value : w \in {x \in ToSet(argv) : x.flag = flag}}  BY <1>2 DEF ToSet
<1> HIDE DEF p, argv, e, a, args, cap, id, Values, bf, cf, new, old
<1>15. \A flag \in ArtifactFlags : \A v : v \in Values(flag) <=> (flag = bf /\ v = old) \/ (flag = cf /\ v = new)
  <2> SUFFICES ASSUME NEW flag \in ArtifactFlags, NEW v  PROVE v \in Values(flag) <=> (flag = bf /\ v = old) \/ (flag = cf /\ v = new)
      OBVIOUS
  <2>1. v \in Values(flag) <=> \E w \in ToSet(argv) : w.flag = flag /\ w.value = v  BY <1>14
  <2>2. (\E w \in ToSet(argv) : w.flag = flag /\ w.value = v) <=> \E w \in ToSet(a) : w.flag = flag /\ w.value = v
    <3>1. ASSUME NEW w \in ToSet(argv), w.flag = flag, w.value = v
          PROVE  \E x \in ToSet(a) : x.flag = flag /\ x.value = v
      <4>1. w.flag \in ArtifactFlags  BY <3>1
      <4>2. w \in ToSet(a)  BY <1>13, <4>1
      <4> QED BY <3>1, <4>2
    <3>2. ASSUME NEW w \in ToSet(a), w.flag = flag, w.value = v
          PROVE  \E x \in ToSet(argv) : x.flag = flag /\ x.value = v
      <4>1. w \in ToSet(argv)  BY <1>13
      <4> QED BY <3>2, <4>1
    <3> QED BY <3>1, <3>2
  <2>3. (\E w \in ToSet(a) : w.flag = flag /\ w.value = v) <=> (flag = bf /\ v = old) \/ (flag = cf /\ v = new)  BY <1>10, <1>11
  <2> QED BY <2>1, <2>2, <2>3
<1>16. Values("--wasm") \cup Values("--new-wasm") = {new}
  <2>1. "--wasm" \in ArtifactFlags /\ "--new-wasm" \in ArtifactFlags  BY DEF ArtifactFlags
  <2>2. "--wasm" # bf /\ "--new-wasm" # bf  BY <1>7
  <2>3. \A v : v \in Values("--wasm") <=> "--wasm" = cf /\ v = new
    <3>1. \A v : v \in Values("--wasm") <=> ("--wasm" = bf /\ v = old) \/ ("--wasm" = cf /\ v = new)  BY <1>15, <2>1
    <3> QED BY <2>2, <3>1
  <2>4. \A v : v \in Values("--new-wasm") <=> "--new-wasm" = cf /\ v = new
    <3>1. \A v : v \in Values("--new-wasm") <=> ("--new-wasm" = bf /\ v = old) \/ ("--new-wasm" = cf /\ v = new)  BY <1>15, <2>1
    <3> QED BY <2>2, <3>1
  <2>5. \A v : v \in Values("--wasm") \cup Values("--new-wasm") <=> v = new  BY <1>7, <2>3, <2>4
  <2> QED BY <2>5
<1>17. Values("--previous-wasm") \cup Values("--old-wasm") = {old}
  <2>1. "--previous-wasm" \in ArtifactFlags /\ "--old-wasm" \in ArtifactFlags  BY DEF ArtifactFlags
  <2>2. "--previous-wasm" # cf /\ "--old-wasm" # cf  BY <1>7
  <2>3. \A v : v \in Values("--previous-wasm") <=> "--previous-wasm" = bf /\ v = old
    <3>1. \A v : v \in Values("--previous-wasm") <=> ("--previous-wasm" = bf /\ v = old) \/ ("--previous-wasm" = cf /\ v = new)  BY <1>15, <2>1
    <3> QED BY <2>2, <3>1
  <2>4. \A v : v \in Values("--old-wasm") <=> "--old-wasm" = bf /\ v = old
    <3>1. \A v : v \in Values("--old-wasm") <=> ("--old-wasm" = bf /\ v = old) \/ ("--old-wasm" = cf /\ v = new)  BY <1>15, <2>1
    <3> QED BY <2>2, <3>1
  <2>5. \A v : v \in Values("--previous-wasm") \cup Values("--old-wasm") <=> v = old  BY <1>7, <2>3, <2>4
  <2> QED BY <2>5
<1>18. /\ NamedIn(req, 1 .. Len(req)) = {new, old} /\ new # old
       /\ MarkedIn(req, 1 .. Len(req), "candidate") \subseteq {new}
       /\ MarkedIn(req, 1 .. Len(req), "baseline") \subseteq {old}
       BY <1>5, <1>8
<1> QED BY <1>16, <1>17, <1>18 DEF p, Values

\* No request makes the agent compare an upgrade backwards, of two artifacts whose names
\* differ in more than capitals.
THEOREM RolesStayWithArtifacts == AgentSpec => []RolesAreKept
PROOF
<1>1. SpawnInv => RolesAreKept
  <2> SUFFICES ASSUME SpawnInv, pc = "spawn", ApartIgnoringCase(Artifacts(request)), Cardinality(Artifacts(request)) = 2
               PROVE  /\ Artifacts(request) = Under(CANDIDATE_FLAGS) \cup Under(BASELINE_FLAGS)
                      /\ Under(CANDIDATE_FLAGS) \cap Under(BASELINE_FLAGS) = {}
                      /\ Marked(request, "candidate") \subseteq Under(CANDIDATE_FLAGS)
                      /\ Marked(request, "baseline") \subseteq Under(BASELINE_FLAGS)
      BY DEF RolesAreKept, RolesOfTwo
  <2>1. request \in Requests /\ planned = plan(request) /\ plan(request).run  BY DEF SpawnInv
  <2>2. DOMAIN request = 1 .. Len(request)  BY <2>1, RequestsAssumption
  <2> DEFINE all == 1 .. Len(request)
  <2>3. Artifacts(request) = NamedIn(request, all)  BY <2>2, Zenon DEF Artifacts, NamedIn
  <2>4. \A role : Marked(request, role) = MarkedIn(request, all, role)  BY <2>2, Zenon DEF Marked, MarkedIn
  <2>5. /\ Under(CANDIDATE_FLAGS) = ValuesOf("--wasm") \cup ValuesOf("--new-wasm")
        /\ Under(BASELINE_FLAGS) = ValuesOf("--previous-wasm") \cup ValuesOf("--old-wasm")
    <3>1. 1 .. 2 = {1, 2}  OBVIOUS
    <3> QED BY <3>1, ArtifactFlagsAre DEF Under
  <2> DEFINE p == plan(request)
             Values(flag) == {p.argv[i].value : i \in {j \in DOMAIN p.argv : p.argv[j].flag = flag}}
  <2>6. PICK new, old :
           /\ NamedIn(request, all) = {new, old} /\ new # old
           /\ MarkedIn(request, all, "candidate") \subseteq {new}
           /\ MarkedIn(request, all, "baseline") \subseteq {old}
           /\ Values("--wasm") \cup Values("--new-wasm") = {new}
           /\ Values("--previous-wasm") \cup Values("--old-wasm") = {old}
    <3>1. ApartIn(request)  BY <2>3 DEF ApartIn
    <3>2. Cardinality(NamedIn(request, all)) = 2  BY <2>3
    <3> QED BY <2>1, <3>1, <3>2, PlanKeepsRoles, Zenon
  <2>7. \A flag : ValuesOf(flag) = Values(flag)  BY <2>1, Zenon DEF ValuesOf
  <2> HIDE DEF p, Values, all
  <2>8. Under(CANDIDATE_FLAGS) = {new} /\ Under(BASELINE_FLAGS) = {old}  BY <2>5, <2>6, <2>7
  <2> QED BY <2>3, <2>4, <2>6, <2>8
<1> QED BY <1>1, SpawnFollows, SpawnStays, PTL DEF AgentSpec

-----------------------------------------------------------------------------
(* Storage keys and footprints. *)

\* What is kept of a list of keys: each of them, once.
IsRidOfDoubles(list, r) == ToSet(r) = ToSet(list) /\ \A i, j \in DOMAIN r : r[i] = r[j] => i = j

LEMMA FirstsAreKept ==
    ASSUME NEW E, NEW list \in Seq(E)
    PROVE  FirstOfEach(list) \in Seq(E) /\ IsRidOfDoubles(list, FirstOfEach(list))
PROOF
<1> DEFINE n == Len(list)
           Next_(v, i) == IF list[i] \in ToSet(v) THEN v ELSE Append(v, list[i])
           Loop(h) == [i \in 0 .. n |-> IF i = 0 THEN <<>> ELSE IF list[i] \in ToSet(h[i - 1]) THEN h[i - 1] ELSE Append(h[i - 1], list[i])]
<1>1. n \in Nat /\ DOMAIN list = 1 .. n /\ \A i \in 1 .. n : list[i] \in E  OBVIOUS
<1> HIDE DEF n
<1>2. \E h : h = Loop(h)
  <2> DEFINE G == [x \in (1 .. n) \X Seq(E) |-> Next_(x[2], x[1])]
  <2>1. G \in [(1 .. n) \X Seq(E) -> Seq(E)]
    <3>1. ASSUME NEW i \in 1 .. n, NEW v \in Seq(E)  PROVE Next_(v, i) \in Seq(E)
      <4>1. list[i] \in E  BY <1>1
      <4>2. Append(v, list[i]) \in Seq(E)  BY <4>1, AppendProperties
      <4> QED BY <4>2
    <3> HIDE DEF Next_
    <3> QED BY <3>1
  <2>2. \A i \in 1 .. n, v \in Seq(E) : G[<<i, v>>] = Next_(v, i)  OBVIOUS
  <2> HIDE DEF G
  <2>3. <<>> \in Seq(E)  OBVIOUS
  <2>4. PICK f \in [0 .. n -> Seq(E)] : IsRun(f, <<>>, n, G)  BY <1>1, <2>1, <2>3, LoopRuns
  <2>5. f[0] = <<>> /\ \A i \in 1 .. n : f[i] = G[<<i, f[i - 1]>>]  BY <2>4 DEF IsRun
  <2>6. \A i \in 1 .. n : f[i] = Next_(f[i - 1], i)
    <3> SUFFICES ASSUME NEW i \in 1 .. n  PROVE f[i] = Next_(f[i - 1], i)  OBVIOUS
    <3> HIDE DEF Next_
    <3>1. i - 1 \in 0 .. n  BY <1>1
    <3>2. f[i - 1] \in Seq(E)  BY <2>4, <3>1
    <3> QED BY <2>2, <2>5, <3>2
  <2>7. \A i \in 0 .. n : f[i] = Loop(f)[i]
    <3> SUFFICES ASSUME NEW i \in 0 .. n  PROVE f[i] = Loop(f)[i]  OBVIOUS
    <3>1. CASE i = 0  BY <2>5, <3>1
    <3>2. CASE i # 0
      <4>1. i \in 1 .. n  BY <1>1, <3>2
      <4> QED BY <2>6, <3>2, <4>1
    <3> QED BY <3>1, <3>2
  <2>8. f = [i \in 0 .. n |-> f[i]]  BY <2>4
  <2>9. f = Loop(f)  BY <2>7, <2>8
  <2> QED BY <2>9
<1>3. PICK h : h = Loop(h) /\ FirstOfEach(list) = h[n]  BY <1>2 DEF FirstOfEach, n
<1>4. h[0] = <<>> /\ \A i \in 1 .. n : h[i] = Next_(h[i - 1], i)
  <2>1. 0 \in 0 .. n /\ \A i \in 1 .. n : i \in 0 .. n /\ i # 0  BY <1>1
  <2> QED BY <1>3, <2>1
<1> HIDE DEF Loop
<1> DEFINE P == {i \in 0 .. n : /\ h[i] \in Seq(E) /\ ToSet(h[i]) = {list[k] : k \in 1 .. i}
                                /\ \A j, k \in DOMAIN h[i] : h[i][j] = h[i][k] => j = k}
<1>5. 0 \in P
  <2>1. 1 .. 0 = {} /\ 0 \in 0 .. n  BY <1>1
  <2>2. ToSet(<<>>) = {} /\ DOMAIN <<>> = {} /\ <<>> \in Seq(E)  BY DEF ToSet
  <2>3. {list[k] : k \in 1 .. 0} = {}  BY <2>1
  <2> QED BY <1>4, <2>1, <2>2, <2>3
<1>6. ASSUME NEW i \in 0 .. (n - 1), i \in P  PROVE i + 1 \in P
  <2>1. i + 1 \in 1 .. n /\ i + 1 \in 0 .. n /\ (i + 1) - 1 = i /\ i \in Nat  BY <1>1
  <2> DEFINE v == h[i]
             e == list[i + 1]
  <2>2. v \in Seq(E) /\ ToSet(v) = {list[k] : k \in 1 .. i} /\ \A j, k \in DOMAIN v : v[j] = v[k] => j = k  BY <1>6
  <2>3. h[i + 1] = IF e \in ToSet(v) THEN v ELSE Append(v, e)  BY <1>4, <2>1
  <2>4. e \in E  BY <1>1, <2>1
  <2>5. {list[k] : k \in 1 .. (i + 1)} = {list[k] : k \in 1 .. i} \cup {e}
    <3>1. 1 .. (i + 1) = (1 .. i) \cup {i + 1}  BY <2>1
    <3> QED BY <3>1
  <2> HIDE DEF v, e
  <2>6. CASE e \in ToSet(v)
    <3>1. h[i + 1] = v /\ ToSet(v) = {list[k] : k \in 1 .. (i + 1)}  BY <2>2, <2>3, <2>5, <2>6
    <3> QED BY <2>1, <2>2, <3>1
  <2>7. CASE e \notin ToSet(v)
    <3> DEFINE a == Append(v, e)
    <3>1. /\ a \in Seq(E) /\ Len(a) = Len(v) + 1 /\ a[Len(v) + 1] = e
          /\ \A j \in 1 .. Len(v) : a[j] = v[j]
          BY <2>2, <2>4, AppendProperties
    <3>2. DOMAIN a = (1 .. Len(v)) \cup {Len(v) + 1} /\ DOMAIN v = 1 .. Len(v) /\ Len(v) \in Nat  BY <2>2, <3>1
    <3>3. h[i + 1] = a  BY <2>3, <2>7
    <3> HIDE DEF a
    <3>4. ToSet(a) = ToSet(v) \cup {e}  BY <3>1, <3>2 DEF ToSet
    <3>5. \A j \in 1 .. Len(v) : v[j] # e  BY <2>7, <3>2 DEF ToSet
    <3>6. ASSUME NEW j \in DOMAIN a, NEW k \in DOMAIN a, a[j] = a[k]  PROVE j = k  BY <2>2, <3>1, <3>2, <3>5, <3>6
    <3>7. ToSet(a) = {list[k] : k \in 1 .. (i + 1)}  BY <2>2, <2>5, <3>4
    <3> QED BY <2>1, <3>1, <3>3, <3>6, <3>7
  <2> QED BY <2>6, <2>7
<1> HIDE DEF P
<1>7. 0 .. n \subseteq P  BY <1>1, <1>5, <1>6, Induction
<1>8. n \in P  BY <1>1, <1>7
<1>9. h[n] \in Seq(E) /\ ToSet(h[n]) = {list[k] : k \in 1 .. n} /\ \A j, k \in DOMAIN h[n] : h[n][j] = h[n][k] => j = k
      BY <1>8 DEF P
<1>10. ToSet(list) = {list[k] : k \in 1 .. n}  BY <1>1 DEF ToSet
<1> QED BY <1>3, <1>9, <1>10 DEF IsRidOfDoubles

\* A key that is read is the one the text holds.
LEMMA KeyIsRead ==
    ASSUME NEW text, IsText(text)
    PROVE  LET key == decode_ledger_key(text)
           IN key.ok \in BOOLEAN /\ (key.ok => key.val = text.bytes.val)
PROOF
<1>1. Trimmed(text) = [form |-> text.form, blanks |-> FALSE, bytes |-> text.bytes]  BY DEF Trimmed
<1>2. CASE text.form = "base64"
  <2>1. STANDARD_decode(Trimmed(text)) = Ok(text.bytes)  BY <1>1, <1>2 DEF STANDARD_decode
  <2> QED BY <2>1 DEF decode_ledger_key, Ok, Fail
<1>3. CASE text.form = "hex"
  <2>1. STANDARD_decode(Trimmed(text)) = Ok(Garbage)  BY <1>1, <1>3 DEF STANDARD_decode
  <2> QED BY <2>1 DEF decode_ledger_key, Ok, Fail, Garbage, Bytes
<1>4. CASE text.form \notin {"base64", "hex"}
  <2>1. STANDARD_decode(Trimmed(text)) = Fail  BY <1>1, <1>4 DEF STANDARD_decode
  <2> QED BY <2>1 DEF decode_ledger_key, hex_bytes_if_valid, Ok, Fail
<1> QED BY <1>2, <1>3, <1>4

\* A list of keys is read when every text of it is.
LEMMA KeysAreRead ==
    ASSUME NEW texts, IsTextList(texts)
    PROVE  LET keys == All(Map(decode_ledger_key, texts))
           IN /\ keys.ok <=> \A i \in 1 .. Len(texts) : decode_ledger_key(texts[i]).ok
              /\ keys.ok => keys.val = [i \in 1 .. Len(texts) |-> texts[i].bytes.val]
PROOF
<1> DEFINE n == Len(texts)
           read == [i \in 1 .. n |-> decode_ledger_key(texts[i])]
<1>1. n \in Nat /\ DOMAIN texts = 1 .. n /\ \A i \in 1 .. n : IsText(texts[i])
  <2>1. texts \in Seq(ToSet(texts)) /\ \A t \in ToSet(texts) : IsText(t)  BY DEF IsTextList
  <2> QED BY <2>1
<1>2. Map(decode_ledger_key, texts) = read  BY <1>1 DEF Map
<1>3. \A i \in 1 .. n : read[i].ok => read[i].val = texts[i].bytes.val
  <2> SUFFICES ASSUME NEW i \in 1 .. n, decode_ledger_key(texts[i]).ok
               PROVE  decode_ledger_key(texts[i]).val = texts[i].bytes.val
      OBVIOUS
  <2>1. IsText(texts[i])  BY <1>1
  <2> QED BY <2>1, KeyIsRead
<1>4. DOMAIN read = 1 .. n /\ \A i \in 1 .. n : read[i] = decode_ledger_key(texts[i])  OBVIOUS
<1> HIDE DEF n, read
<1>5. All(read) = IF \A i \in 1 .. n : read[i].ok THEN Ok([i \in 1 .. n |-> read[i].val]) ELSE Fail  BY <1>4 DEF All
<1>6. CASE \A i \in 1 .. n : read[i].ok
  <2>1. [i \in 1 .. n |-> read[i].val] = [i \in 1 .. n |-> texts[i].bytes.val]  BY <1>3, <1>6
  <2>2. All(read) = Ok([i \in 1 .. n |-> texts[i].bytes.val])  BY <1>5, <1>6, <2>1
  <2>3. All(read).ok = TRUE /\ All(read).val = [i \in 1 .. n |-> texts[i].bytes.val]  BY <2>2 DEF Ok
  <2> QED BY <1>2, <1>4, <1>6, <2>3 DEF n
<1>7. CASE ~\A i \in 1 .. n : read[i].ok
  <2>1. All(read).ok = FALSE  BY <1>5, <1>7 DEF Fail
  <2> QED BY <1>2, <1>4, <1>7, <2>1 DEF n
<1> QED BY <1>6, <1>7

\* One more text makes a list of texts again.
TextsWith(list, text) ==
    LET more == Append(list, text)
    IN /\ IsTextList(more) /\ Len(more) = Len(list) + 1 /\ more[Len(list) + 1] = text
       /\ \A i \in 1 .. Len(list) : more[i] = list[i]

LEMMA OneMoreText == ASSUME NEW list, IsTextList(list), NEW text, IsText(text)  PROVE TextsWith(list, text)
PROOF
<1> DEFINE S == ToSet(list) \cup {text}
           more == Append(list, text)
<1>1. list \in Seq(ToSet(list)) /\ \A t \in ToSet(list) : IsText(t)  BY DEF IsTextList
<1>2. list \in Seq(S) /\ text \in S  BY <1>1
<1> HIDE DEF S
<1>3. /\ more \in Seq(S) /\ Len(more) = Len(list) + 1 /\ more[Len(list) + 1] = text
      /\ \A i \in 1 .. Len(list) : more[i] = list[i]
      BY <1>2, AppendProperties
<1>4. DOMAIN more = 1 .. Len(more) /\ Len(more) \in Nat /\ \A i \in 1 .. Len(more) : more[i] \in S  BY <1>3
<1> HIDE DEF more
<1>5. ToSet(more) \subseteq S  BY <1>4 DEF ToSet
<1>6. more \in Seq(ToSet(more))
  <2>1. \A i \in 1 .. Len(more) : more[i] \in ToSet(more)  BY <1>4 DEF ToSet
  <2>2. more = [i \in 1 .. Len(more) |-> more[i]]  BY <1>3
  <2> QED BY <1>4, <2>1, <2>2
<1>7. \A t \in ToSet(more) : IsText(t)  BY <1>1, <1>5 DEF S
<1>8. IsTextList(more)  BY <1>6, <1>7 DEF IsTextList
<1> QED BY <1>3, <1>8 DEF TextsWith, more

\* A footprint is the keys of its texts, each once; keys that are read make one.
LEMMA FootprintOfTexts ==
    ASSUME NEW texts, IsTextList(texts)
    PROVE  LET merged == merge_footprint_keys(texts)
           IN /\ merged.ok => /\ ToSet(merged.val) = {texts[i].bytes.val : i \in DOMAIN texts}
                              /\ \A i, j \in DOMAIN merged.val : merged.val[i] = merged.val[j] => i = j
              /\ texts # <<>> /\ (\A i \in 1 .. Len(texts) : decode_ledger_key(texts[i]).ok) => merged.ok
PROOF
<1> DEFINE n == Len(texts)
           keys == All(Map(decode_ledger_key, texts))
           held == [i \in 1 .. n |-> texts[i].bytes.val]
           E == {texts[i].bytes.val : i \in 1 .. n}
           merged == merge_footprint_keys(texts)
<1>1. /\ keys.ok <=> \A i \in 1 .. n : decode_ledger_key(texts[i]).ok
      /\ keys.ok => keys.val = held
      BY KeysAreRead
<1>2. n \in Nat /\ DOMAIN texts = 1 .. n /\ (texts # <<>> => n > 0)
  <2>1. texts \in Seq(ToSet(texts))  BY DEF IsTextList
  <2> QED BY <2>1
<1>3. merged = IF keys.ok /\ FirstOfEach(keys.val) # <<>> THEN Ok(FirstOfEach(keys.val)) ELSE Fail
      BY DEF merge_footprint_keys
<1> HIDE DEF n, keys, merged
<1>4. held \in Seq(E) /\ ToSet(held) = E /\ DOMAIN held = 1 .. n
  <2>1. held \in [1 .. n -> E] /\ DOMAIN held = 1 .. n  OBVIOUS
  <2>2. ToSet(held) = E  BY <2>1 DEF ToSet
  <2> HIDE DEF held, E
  <2> QED BY <1>2, <2>1, <2>2
<1> HIDE DEF held
<1>5. FirstOfEach(held) \in Seq(E) /\ IsRidOfDoubles(held, FirstOfEach(held))  BY <1>4, FirstsAreKept
<1>6. \A v : Ok(v).ok = TRUE /\ Ok(v).val = v  BY DEF Ok
<1>7. Fail.ok = FALSE  BY DEF Fail
<1>8. ASSUME merged.ok  PROVE merged.val = FirstOfEach(held)  BY <1>1, <1>3, <1>6, <1>7, <1>8
<1>9. ASSUME texts # <<>>, \A i \in 1 .. n : decode_ledger_key(texts[i]).ok  PROVE merged.ok
  <2>1. keys.ok /\ keys.val = held  BY <1>1, <1>9
  <2>2. ToSet(FirstOfEach(held)) = E  BY <1>4, <1>5 DEF IsRidOfDoubles
  <2>3. texts[1].bytes.val \in E  BY <1>2, <1>9
  <2> HIDE DEF E
  <2>4. ToSet(<<>>) = {}  BY DEF ToSet
  <2>5. FirstOfEach(held) # <<>>  BY <2>2, <2>3, <2>4
  <2> QED BY <1>3, <1>6, <2>1, <2>5
<1> QED BY <1>2, <1>4, <1>5, <1>8, <1>9 DEF IsRidOfDoubles, n, merged

\* The texts that storage commands make.
LEMMA KeyTextIsRead ==
    ASSUME NEW contract, NEW key, NEW durability, encode_ledger_key(contract, key, durability).ok
    PROVE  LET text == encode_ledger_key(contract, key, durability).val
           IN IsText(text) /\ decode_ledger_key(text).ok
PROOF
<1> DEFINE text == Text("base64", Bytes("ledgerkey", [contract |-> parse_contract_id_bytes(contract).val, key |-> key, durability |-> durability]))
           bytes == Bytes("ledgerkey", [contract |-> parse_contract_id_bytes(contract).val, key |-> key, durability |-> durability])
<1>1. encode_ledger_key(contract, key, durability).val = text
      BY DEF encode_ledger_key, Ok, Fail
<1>2. text = [form |-> "base64", blanks |-> FALSE, bytes |-> bytes]  BY DEF Text
<1>3. bytes.type = "ledgerkey"  BY DEF Bytes
<1> HIDE DEF text, bytes
<1>4. IsText(text) /\ text.form = "base64" /\ ~text.blanks  BY <1>2 DEF IsText
<1>5. Trimmed(text) = text  BY <1>2 DEF Trimmed
<1>6. STANDARD_decode(text) = Ok(bytes)  BY <1>2 DEF STANDARD_decode
<1>7. decode_ledger_key(text).ok  BY <1>3, <1>5, <1>6 DEF decode_ledger_key, Ok
<1> QED BY <1>1, <1>4, <1>7

LEMMA MapKeyIsRead ==
    ASSUME NEW req, MapKeyText(req).ok
    PROVE  IsText(MapKeyText(req).val) /\ decode_ledger_key(MapKeyText(req).val).ok
PROOF
<1>1. PICK key, dur : MapKeyText(req) = encode_ledger_key(req.contract, key, dur)
  <2>1. MapKeyText(req) # Fail  BY DEF Fail
  <2> QED BY <2>1 DEF MapKeyText
<1> QED BY <1>1, KeyTextIsRead

\* What analyze accepts can be extended.
LEMMA AnalyzedKeys ==
    ASSUME NEW req \in KeyRequests, resolve_storage_analyze_keys(req).ok
    PROVE  LET keys == resolve_storage_analyze_keys(req).val
           IN IsTextList(keys) /\ (keys # <<>> => merge_footprint_keys(keys).ok)
PROOF
<1> DEFINE xs == req.key_xdr
           given == All(Map(decode_ledger_key, xs))
<1>1. IsTextList(xs)  BY TextsAssumption
<1>2. given.ok /\ \/ resolve_storage_analyze_keys(req) = Ok(Append(xs, MapKeyText(req).val)) /\ MapKeyText(req).ok
                  \/ resolve_storage_analyze_keys(req) = Ok(xs)
  <2>1. resolve_storage_analyze_keys(req) # Fail  BY DEF Fail
  <2> QED BY <2>1 DEF resolve_storage_analyze_keys
<1>3. \A v : Ok(v).val = v  BY DEF Ok
<1> HIDE DEF xs
<1>0. given.ok <=> \A i \in 1 .. Len(xs) : decode_ledger_key(xs[i]).ok  BY <1>1, KeysAreRead
<1> HIDE DEF given
<1>4. \A i \in 1 .. Len(xs) : decode_ledger_key(xs[i]).ok
  <2>1. given.ok  BY <1>2
  <2> QED BY <1>0, <2>1
<1>5. CASE resolve_storage_analyze_keys(req) = Ok(xs)
  <2>1. resolve_storage_analyze_keys(req).val = xs  BY <1>3, <1>5
  <2> QED BY <1>1, <1>4, <2>1, FootprintOfTexts
<1>6. CASE resolve_storage_analyze_keys(req) = Ok(Append(xs, MapKeyText(req).val)) /\ MapKeyText(req).ok
  <2> DEFINE text == MapKeyText(req).val
             ys == Append(xs, text)
  <2>1. IsText(text) /\ decode_ledger_key(text).ok  BY <1>6, MapKeyIsRead
  <2> HIDE DEF text
  <2>2. xs \in Seq(ToSet(xs)) /\ \A t \in ToSet(xs) : IsText(t)  BY <1>1 DEF IsTextList
  <2>3. TextsWith(xs, text)  BY <2>1, <1>1, OneMoreText
  <2>4. IsTextList(ys) /\ Len(ys) = Len(xs) + 1 /\ ys[Len(xs) + 1] = text /\ \A i \in 1 .. Len(xs) : ys[i] = xs[i]
        BY <2>3 DEF TextsWith
  <2> HIDE DEF ys
  <2>5. \A i \in 1 .. Len(ys) : decode_ledger_key(ys[i]).ok
    <3>1. Len(xs) \in Nat  BY <2>2
    <3>2. \A i \in 1 .. Len(ys) : i \in 1 .. Len(xs) \/ i = Len(xs) + 1  BY <2>4, <3>1
    <3> QED BY <1>4, <2>1, <2>4, <3>2
  <2>6. resolve_storage_analyze_keys(req).val = ys  BY <1>3, <1>6 DEF ys, text
  <2> QED BY <2>4, <2>5, <2>6, FootprintOfTexts
<1> QED BY <1>2, <1>5, <1>6

\* A key that read accepts is a text.
LEMMA ReadKeyIsText ==
    ASSUME NEW req \in KeyRequests, resolve_storage_read_key(req).ok
    PROVE  IsText(resolve_storage_read_key(req).val)
PROOF
<1> DEFINE xs == req.key_xdr
           res == resolve_storage_read_key(req)
           inst == encode_ledger_key(req.contract, ScVal("instance"), "persistent")
<1>1. xs # <<>> => IsText(xs[1])
  <2>1. xs \in Seq(ToSet(xs)) /\ \A text \in ToSet(xs) : IsText(text)  BY TextsAssumption DEF IsTextList
  <2> HIDE DEF xs
  <2>2. xs # <<>> => xs[1] \in ToSet(xs)  BY <2>1
  <2> QED BY <2>1, <2>2
<1>2. res = Fail \/ (res = Ok(xs[1]) /\ xs # <<>>) \/ res = inst \/ res = MapKeyText(req)
      BY DEF resolve_storage_read_key
<1>3. inst.ok => IsText(inst.val)  BY KeyTextIsRead
<1>4. MapKeyText(req).ok => IsText(MapKeyText(req).val)  BY MapKeyIsRead
<1>5. res.ok /\ Fail.ok = FALSE /\ \A v : Ok(v).val = v  BY DEF Ok, Fail
<1> HIDE DEF xs, res, inst
<1> QED BY <1>1, <1>2, <1>3, <1>4, <1>5 DEF res

\* An entry is understood alike in both layouts.
LEMMA EntryIsUnderstood ==
    ASSUME NEW raw, NEW want, raw.layout \in {"standard", "live"}
    PROVE  extract(raw, want) = WantedOf(want, raw.data)
PROOF
<1>1. Ok(raw.data).ok = TRUE /\ Ok(raw.data).val = raw.data /\ ParseError.ok = FALSE  BY DEF Ok, ParseError, Fail
<1>2. CASE raw.layout = "standard"
  <2>1. extract_standard(raw, want) = WantedOf(want, raw.data)  BY <1>1, <1>2 DEF extract_standard, EntryData
  <2>2. extract_live(raw, want) = ParseError  BY <1>1, <1>2 DEF extract_live, EntryData
  <2> QED BY <2>1, <2>2 DEF extract
<1>3. CASE raw.layout = "live"
  <2>1. extract_standard(raw, want) = ParseError  BY <1>1, <1>3 DEF extract_standard, EntryData
  <2>2. extract_live(raw, want) = WantedOf(want, raw.data)  BY <1>1, <1>3 DEF extract_live, EntryData
  <2> QED BY <2>1, <2>2 DEF extract
<1> QED BY <1>2, <1>3

\* An extension has the keys of its texts.
LEMMA ExtensionIsAsked ==
    ASSUME NEW req, IsTextList(req.keys), build_extend_footprint_tx(req).ok
    PROVE  LET keys == build_extend_footprint_tx(req).val
           IN /\ ToSet(keys) = {req.keys[i].bytes.val : i \in DOMAIN req.keys}
              /\ \A i, j \in DOMAIN keys : keys[i] = keys[j] => i = j
PROOF
<1> DEFINE texts == req.keys
           merged == merge_footprint_keys(texts)
<1>1. build_extend_footprint_tx(req) = merged /\ merged.ok
  <2>1. build_extend_footprint_tx(req) # Fail  BY DEF Fail
  <2> QED BY <2>1 DEF build_extend_footprint_tx
<1> HIDE DEF texts
<1>2. /\ merged.ok => /\ ToSet(merged.val) = {texts[i].bytes.val : i \in DOMAIN texts}
                      /\ \A i, j \in DOMAIN merged.val : merged.val[i] = merged.val[j] => i = j
  <2>1. IsTextList(texts)  BY DEF texts
  <2> QED BY <2>1, FootprintOfTexts
<1> QED BY <1>1, <1>2 DEF texts

-----------------------------------------------------------------------------
\* What is in the user's hands is a text, and what read and analyze answered are texts.
HandsHoldTexts == hand = [text |-> hand.text, of |-> hand.of] /\ IsText(hand.text)
AnswersAreTexts ==
    /\ told.cmd = "read" /\ told.res.ok => IsText(told.res.val)
    /\ told.cmd = "analyze" /\ told.res.ok => IsTextList(told.res.val)
KeysInv == HandsHoldTexts /\ AnswersAreTexts /\ FootprintIsAsked

LEMMA KeysInitially == ValuesInit => KeysInv
PROOF
<1> SUFFICES ASSUME ValuesInit  PROVE KeysInv  OBVIOUS
<1>1. hand = [text |-> NoText, of |-> NoArg] /\ told.cmd = "none"  BY DEF ValuesInit, Silence
<1>2. IsText(NoText)  BY DEF IsText, NoText, Text
<1> QED BY <1>1, <1>2 DEF KeysInv, HandsHoldTexts, AnswersAreTexts, FootprintIsAsked

\* A command that is none of these says nothing about keys.
LEMMA SilentSteps ==
    ASSUME told'.cmd \notin {"read", "analyze", "extend", "entry"}, HandsHoldTexts'  PROVE KeysInv'
  BY DEF KeysInv, AnswersAreTexts, FootprintIsAsked

LEMMA KeysStep == ASSUME KeysInv, [KeysNext]_valueVars  PROVE KeysInv'
PROOF
<1>h. hand = [text |-> hand.text, of |-> hand.of] /\ IsText(hand.text)  BY DEF KeysInv, HandsHoldTexts
<1>1. CASE Rewrite
  <2>1. PICK form, blanks : hand' = [text |-> [form |-> form, blanks |-> blanks, bytes |-> hand.text.bytes], of |-> hand.of]
        BY <1>1 DEF Rewrite
  <2>2. told'.cmd = "copy"  BY <1>1 DEF Rewrite, Say
  <2>3. HandsHoldTexts'  BY <2>1 DEF HandsHoldTexts, IsText
  <2> QED BY <2>2, <2>3, SilentSteps
<1>2. CASE CopyKey
  <2>1. told'.cmd = "copy"  BY <1>2 DEF CopyKey, Say
  <2>2. PICK text : hand' = [text |-> text, of |-> NoArg] /\ told.res.ok
                    /\ ((told.cmd = "read" /\ text = told.res.val) \/ (told.cmd = "analyze" /\ text \in ToSet(told.res.val)))
        BY <1>2 DEF CopyKey
  <2>3. IsText(text)  BY <2>2 DEF KeysInv, AnswersAreTexts, IsTextList
  <2>4. HandsHoldTexts'  BY <2>2, <2>3 DEF HandsHoldTexts
  <2> QED BY <2>1, <2>4, SilentSteps
<1>3. CASE StorageReadKey
  <2>1. PICK req \in KeyRequests : told' = [cmd |-> "read", req |-> req, res |-> resolve_storage_read_key(req)] /\ hand' = hand
        BY <1>3 DEF StorageReadKey, Say
  <2>2. told'.cmd = "read" /\ told'.res = resolve_storage_read_key(req)  BY <2>1
  <2>3. resolve_storage_read_key(req).ok => IsText(resolve_storage_read_key(req).val)  BY ReadKeyIsText
  <2> QED BY <1>h, <2>1, <2>2, <2>3 DEF KeysInv, HandsHoldTexts, AnswersAreTexts, FootprintIsAsked
<1>4. CASE StorageAnalyzeKeys
  <2>1. PICK req \in KeyRequests :
            told' = [cmd |-> "analyze", req |-> req, res |-> resolve_storage_analyze_keys(req)] /\ hand' = hand
        BY <1>4 DEF StorageAnalyzeKeys, Say
  <2> DEFINE res == resolve_storage_analyze_keys(req)
  <2>2. res.ok => IsTextList(res.val) /\ (res.val # <<>> => merge_footprint_keys(res.val).ok)  BY AnalyzedKeys
  <2>3. told'.cmd = "analyze" /\ told'.res = res  BY <2>1
  <2> HIDE DEF res
  <2>4. HandsHoldTexts'  BY <1>h, <2>1 DEF HandsHoldTexts
  <2> QED BY <2>2, <2>3, <2>4 DEF KeysInv, AnswersAreTexts, FootprintIsAsked
<1>5. CASE ExtendKeys
  <2>1. PICK list \in FootprintLists, extend_to \in 0..1, source \in BOOLEAN :
            LET req == [keys |-> Append(list, hand.text), extend_to |-> extend_to, source |-> source]
            IN told' = [cmd |-> "extend", req |-> req, res |-> build_extend_footprint_tx(req)] /\ hand' = hand
        BY <1>5 DEF ExtendKeys, Say
  <2> DEFINE req == [keys |-> Append(list, hand.text), extend_to |-> extend_to, source |-> source]
             res == build_extend_footprint_tx(req)
  <2>2. told'.cmd = "extend" /\ told'.req = req /\ told'.res = res  BY <2>1
  <2>3. IsTextList(req.keys)
    <3>1. IsTextList(list)  BY TextsAssumption
    <3>2. TextsWith(list, hand.text)  BY <1>h, <3>1, OneMoreText
    <3> QED BY <3>2 DEF TextsWith
  <2>4. HandsHoldTexts'  BY <1>h, <2>1 DEF HandsHoldTexts
  <2> HIDE DEF req
  <2>5. res.ok => /\ ToSet(res.val) = {req.keys[i].bytes.val : i \in DOMAIN req.keys}
                  /\ \A i, j \in DOMAIN res.val : res.val[i] = res.val[j] => i = j
        BY <2>3, ExtensionIsAsked
  <2> HIDE DEF res
  <2> QED BY <2>2, <2>4, <2>5 DEF KeysInv, AnswersAreTexts, FootprintIsAsked
<1>6. CASE RestoreKeys
  <2>1. told'.cmd = "restore" /\ hand' = hand  BY <1>6 DEF RestoreKeys, Say
  <2>2. HandsHoldTexts'  BY <1>h, <2>1 DEF HandsHoldTexts
  <2> QED BY <2>1, <2>2, SilentSteps
<1>7. CASE ReadEntry
  <2>1. PICK raw, want : told' = [cmd |-> "entry", req |-> [raw |-> raw, want |-> want], res |-> extract(raw, want)] /\ hand' = hand
        BY <1>7 DEF ReadEntry, Say
  <2>2. told'.cmd = "entry" /\ told'.req.raw = raw /\ told'.req.want = want /\ told'.res = extract(raw, want)  BY <2>1
  <2>3. raw.layout \in {"standard", "live"} => extract(raw, want) = WantedOf(want, raw.data)  BY EntryIsUnderstood
  <2>4. HandsHoldTexts'  BY <1>h, <2>1 DEF HandsHoldTexts
  <2> QED BY <2>2, <2>3, <2>4 DEF KeysInv, AnswersAreTexts, FootprintIsAsked
<1>8. CASE OtherCommand  BY <1>8, SilentSteps DEF OtherCommand, KeyCommands, HandsHoldTexts
<1>9. CASE UNCHANGED valueVars
  <2>1. hand' = hand /\ told' = told  BY <1>9 DEF valueVars
  <2> QED BY <2>1 DEF KeysInv, HandsHoldTexts, AnswersAreTexts, FootprintIsAsked
<1> QED BY <1>1, <1>2, <1>3, <1>4, <1>5, <1>6, <1>7, <1>8, <1>9 DEF KeysNext

(* A footprint has the keys that were asked for, each once, however each was written; the
   keys analyze accepts can be extended; and an entry is understood alike in both layouts,
   whatever other commands come in between (merge_footprint_keys, resolve_storage_*_keys). *)
THEOREM FootprintsAreAsked == KeysSpec => []FootprintIsAsked
PROOF
<1>1. KeysInv /\ [KeysNext]_valueVars => KeysInv'  BY KeysStep
<1>2. KeysInv => FootprintIsAsked  BY DEF KeysInv
<1> QED BY <1>1, <1>2, KeysInitially, PTL DEF KeysSpec

=============================================================================
