------------------------------ MODULE Networks ------------------------------
(***************************************************************************)
(* Which network a command talks to: .sdkt.toml, saved profiles, flags,    *)
(* the guard of mutating commands (sdkt-core config.rs, network_safety.rs; *)
(* sdkt-storage network.rs; sdkt-cli commands/network.rs), and what sdkt   *)
(* network check and diagnose report of it (commands/diagnostics.rs).      *)
(* A network is its passphrase. A URL is the network it serves, the words  *)
(* its text contains and the network its Horizon serves.                   *)
(***************************************************************************)
EXTENDS Integers, Sequences, FiniteSets

CONSTANTS ProfileNames,  \* names of saved profiles
          Profiles,      \* what may be saved under one: [rpc_url, passphrase]
          DotFiles,      \* .sdkt.toml: [state, network]
          Flags,         \* flags of a command: [rpc_url, passphrase, profile]
          TestnetUrl, FuturenetUrl,
          NoVal,         \* an option not given, an answer that did not come
          MaxProtocol    \* bound: protocol versions of the networks

\* An answer that did not come is none of those that come.
ASSUME NoValAssumption == NoVal \notin {"healthy", "unhealthy"}

VARIABLES dotfile,   \* .sdkt.toml
          profiles,  \* the profile files
          protocol,  \* the protocol version the networks run
          probe,     \* the network check or diagnose that runs
          said       \* its report

networkVars == <<dotfile, profiles, protocol, probe, said>>

Test == "Test SDF Network"
Public == "Public Global Stellar Network"
Future == "Test SDF Future Network"
NoProfile == [state |-> "none", network |-> NoVal]
Url(serves, marks) == [serves |-> serves, marks |-> marks, horizon |-> serves]

-----------------------------------------------------------------------------
\* Resolution.

DefaultNetwork == [rpc_url |-> TestnetUrl, passphrase |-> Test]

\* DevKitConfig::from_file: no file is the default, a malformed one an error, which
\* resolve_network_config takes for the default.
BaseNetwork == IF dotfile.state = "ok" THEN dotfile.network ELSE DefaultNetwork

apply_profile_overrides(base, profile, rpc_url, passphrase) ==
    LET named == IF profile = NoVal THEN base ELSE profile
    IN [rpc_url |-> IF rpc_url = NoVal THEN named.rpc_url ELSE rpc_url,
        passphrase |-> IF passphrase = NoVal THEN named.passphrase ELSE passphrase]

\* NetworkStore::get.
GetProfile(name) == profiles[name]

\* The resolved network, or NoVal for an error.
resolve_network_config(flags) ==
    IF flags.profile = NoVal
    THEN apply_profile_overrides(BaseNetwork, NoVal, flags.rpc_url, flags.passphrase)
    ELSE IF GetProfile(flags.profile).state # "ok" THEN NoVal
         ELSE apply_profile_overrides(BaseNetwork, GetProfile(flags.profile).network,
                                      flags.rpc_url, flags.passphrase)

network_is_explicit(flags) == flags.rpc_url # NoVal \/ flags.passphrase # NoVal \/ flags.profile # NoVal

rpc_host_is_mainnet(url) == "stellar.org" \in url.marks /\ url.marks \cap {"testnet", "futurenet"} = {}

\* Mutant: mainnet is known by its host alone.
guard_mutating_network_by_host(cfg, explicit) == rpc_host_is_mainnet(cfg.rpc_url) => explicit /\ cfg.passphrase = Public

guard_mutating_network(cfg, explicit) ==
    /\ cfg.passphrase = Public => explicit
    /\ rpc_host_is_mainnet(cfg.rpc_url) => cfg.passphrase = Public

\* resolve_rpc_client_mutating: NoVal when the resolution or the guard refuses.
resolve_rpc_client_mutating(flags) ==
    LET cfg == resolve_network_config(flags)
    IN IF cfg # NoVal /\ guard_mutating_network(cfg, network_is_explicit(flags)) THEN cfg ELSE NoVal

\* The name resolve_target_network derives, for a network resolved from flags.
derived_network_name(flags, cfg) ==
    IF flags.profile # NoVal THEN flags.profile
    ELSE CASE cfg.passphrase = Public \/ rpc_host_is_mainnet(cfg.rpc_url) -> "mainnet"
           [] cfg.passphrase = Future \/ "futurenet" \in cfg.rpc_url.marks -> "futurenet"
           [] cfg.passphrase = Test \/ "testnet" \in cfg.rpc_url.marks -> "testnet"
           [] OTHER -> "custom"

\* resolve_target_network: the network and the name it is reported under, or NoVal.
\* --network takes none of the other flags and has no endpoint for mainnet.
resolve_target_network(network, flags) ==
    IF network = NoVal
    THEN LET cfg == resolve_network_config(flags)
         IN IF cfg = NoVal THEN NoVal
            ELSE [network |-> cfg, network_name |-> derived_network_name(flags, cfg)]
    ELSE IF network_is_explicit(flags) THEN NoVal
         ELSE CASE network = "testnet" -> [network |-> [rpc_url |-> TestnetUrl, passphrase |-> Test],
                                           network_name |-> "testnet"]
                [] network = "futurenet" -> [network |-> [rpc_url |-> FuturenetUrl, passphrase |-> Future],
                                             network_name |-> "futurenet"]
                [] OTHER -> NoVal

-----------------------------------------------------------------------------
\* The profile store. A profile is written in place, so a crash leaves half a file.

ProfileIsValid(name, p) == name # "" /\ name # "a/b" /\ p.rpc_url # NoVal

NetworkAdd(name, p) ==
    /\ probe.pc = "idle"
    /\ ProfileIsValid(name, p)
    /\ profiles' = [profiles EXCEPT ![name] = [state |-> "ok", network |-> p]]
    /\ UNCHANGED <<dotfile, protocol, probe, said>>

CrashInAdd(name, p) ==
    /\ probe.pc = "idle"
    /\ ProfileIsValid(name, p)
    /\ profiles' = [profiles EXCEPT ![name] = [state |-> "torn", network |-> NoVal]]
    /\ UNCHANGED <<dotfile, protocol, probe, said>>

NetworkRemove(name) ==
    /\ probe.pc = "idle"
    /\ profiles[name].state # "none"
    /\ profiles' = [profiles EXCEPT ![name] = NoProfile]
    /\ UNCHANGED <<dotfile, protocol, probe, said>>

\* NetworkStore::list skips a file that does not parse; Show is GetProfile.
NetworkList ==
    /\ probe.pc = "idle"
    /\ said' = [said EXCEPT !.listed = {n \in ProfileNames : profiles[n].state = "ok"},
                            !.shown = {n \in ProfileNames : GetProfile(n).state = "ok"}]
    /\ UNCHANGED <<dotfile, profiles, protocol, probe>>

-----------------------------------------------------------------------------
\* network check and network diagnose: one request after another, each of which may
\* fail, while the networks may change to a new protocol version.

NoAnswers == [ledger |-> NoVal, health |-> NoVal, network |-> NoVal, root |-> NoVal, limits |-> NoVal]
NoProbe == [pc |-> "idle", cmd |-> "none", name |-> NoVal, cfg |-> NoVal, got |-> NoAnswers]
NothingSaid == [status |-> "none", exit |-> 0, name |-> NoVal, cfg |-> NoVal, got |-> NoAnswers, check |-> FALSE,
                listed |-> {}, shown |-> {}]

StartProbe(cmd, name, cfg, pc) ==
    /\ probe' = [NoProbe EXCEPT !.pc = pc, !.cmd = cmd, !.name = name, !.cfg = cfg]
    /\ UNCHANGED <<dotfile, profiles, protocol, said>>

Refused ==
    /\ said' = [NothingSaid EXCEPT !.status = "refused", !.exit = 1]
    /\ UNCHANGED <<dotfile, profiles, protocol, probe>>

NetworkCheck(name) ==
    /\ probe.pc = "idle"
    /\ LET cfg == resolve_network_config([rpc_url |-> NoVal, passphrase |-> NoVal, profile |-> name])
       IN IF cfg = NoVal THEN Refused ELSE StartProbe("check", name, cfg, "ledger")

run_network_diagnose(network, flags) ==
    /\ probe.pc = "idle"
    /\ LET target == resolve_target_network(network, flags)
       IN IF target = NoVal THEN Refused
          ELSE StartProbe("diagnose", target.network_name, target.network, "network")

\* What the endpoint answers now: its protocol version and, to getNetwork, its passphrase.
Answer(kind) ==
    CASE kind = "ledger" -> {[protocol |-> protocol]}
      [] kind = "health" -> {"healthy", "unhealthy"}
      [] kind = "network" -> {[protocol |-> protocol, passphrase |-> probe.cfg.rpc_url.serves]}
      [] kind = "root" -> {[protocol |-> protocol, passphrase |-> probe.cfg.rpc_url.horizon, latest |-> l] : l \in BOOLEAN}
      [] kind = "limits" -> {"values", "no_fields"}

\* probe_network_profile stops at a ledger that did not come; diagnose asks all, and for
\* limits only when the Horizon root names a latest ledger.
Following(kind, got) ==
    IF probe.cmd = "check"
    THEN CASE kind = "ledger" -> IF got.ledger = NoVal THEN "report" ELSE "health"
           [] kind = "health" -> "network"
           [] OTHER -> "report"
    ELSE CASE kind = "network" -> "ledger"
           [] kind = "ledger" -> "health"
           [] kind = "health" -> "root"
           [] kind = "root" -> IF got.root # NoVal /\ got.root.latest THEN "limits" ELSE "report"
           [] OTHER -> "report"

AskEndpoint ==
    /\ probe.pc \in DOMAIN NoAnswers
    /\ \E a \in Answer(probe.pc) \cup {NoVal} :
          LET got == [probe.got EXCEPT ![probe.pc] = a]
          IN probe' = [probe EXCEPT !.got = got, !.pc = Following(probe.pc, got)]
    /\ UNCHANGED <<dotfile, profiles, protocol, said>>

ProtocolUpgrade ==
    /\ protocol < MaxProtocol
    /\ protocol' = protocol + 1
    /\ UNCHANGED <<dotfile, profiles, probe, said>>

\* is_healthy: getNetwork may fail without harm.
is_healthy(got) == got.ledger # NoVal /\ got.health = "healthy"

\* Mutant: any network that answers is the one configured.
classify_identity_any(configured, network) == IF network = NoVal THEN "unknown" ELSE "match"

classify_identity(configured, network) ==
    IF network = NoVal THEN "unknown" ELSE IF network.passphrase = configured THEN "match" ELSE "mismatch"

classify_protocol(got) ==
    LET seen == {got[k].protocol : k \in {j \in {"network", "ledger", "root"} : got[j] # NoVal}}
    IN IF seen = {} THEN "unknown" ELSE IF Cardinality(seen) = 1 THEN "consistent" ELSE "inconsistent"

\* Diagnosis::status: only a getNetwork that failed makes the endpoint unreachable.
diagnosis_status(cfg, got) ==
    IF got.network = NoVal THEN "unreachable"
    ELSE IF \/ classify_identity(cfg.passphrase, got.network) = "mismatch"
            \/ classify_protocol(got) = "inconsistent"
            \/ got.health \notin {NoVal, "healthy"} THEN "degraded"
    ELSE "ok"

ReportNetwork ==
    /\ probe.pc = "report"
    /\ LET status == IF probe.cmd = "diagnose" THEN diagnosis_status(probe.cfg, probe.got)
                     ELSE IF is_healthy(probe.got) THEN "ok"
                     ELSE IF probe.got.ledger # NoVal THEN "degraded" ELSE "unreachable"
       IN said' = [said EXCEPT !.status = status, !.exit = IF status = "ok" THEN 0 ELSE 1,
                               !.name = probe.name, !.cfg = probe.cfg, !.got = probe.got,
                               !.check = probe.cmd = "check"]
    /\ probe' = NoProbe
    /\ UNCHANGED <<dotfile, profiles, protocol>>

-----------------------------------------------------------------------------
NetworksInit ==
    /\ dotfile \in DotFiles
    /\ profiles = [n \in ProfileNames |-> NoProfile]
    /\ protocol = 1
    /\ probe = NoProbe
    /\ said = NothingSaid

NetworksNext ==
    \/ \E n \in ProfileNames, p \in Profiles : NetworkAdd(n, p) \/ CrashInAdd(n, p)
    \/ \E n \in ProfileNames : NetworkRemove(n) \/ NetworkCheck(n)
    \/ \E network \in {"testnet", "mainnet", "futurenet", "nonet", NoVal}, f \in Flags : run_network_diagnose(network, f)
    \/ NetworkList \/ AskEndpoint \/ ProtocolUpgrade \/ ReportNetwork

-----------------------------------------------------------------------------
(* What sdkt network diagnose calls ok is the network it was pointed at: the endpoint
   serves the configured passphrase, at one protocol version in all it answered, and
   was not unhealthy; neither command calls an endpoint reachable that answered nothing
   about itself (Diagnosis::status and NetworkCheckOutcome::is_healthy). *)
ProbesAreTrue ==
    /\ said.status = "ok" /\ ~said.check =>
          /\ said.cfg.rpc_url.serves = said.cfg.passphrase
          /\ said.got.health # "unhealthy"
          /\ \A k \in {"ledger", "root"} : said.got[k] # NoVal => said.got[k].protocol = said.got.network.protocol
    /\ said.status \in {"ok", "degraded"} => said.got.ledger # NoVal \/ said.got.network # NoVal
=============================================================================
