# TLA+ verification of soroban-devkit

`sdkt` is a command-line toolkit for Soroban smart contracts: it builds, deploys,
invokes, inspects, audits and fuzzes them. This directory holds TLA+ models of
the parts of it where the order of steps, a lost answer or a crash decides
whether the tool tells the truth, the TLC runs that check them on small
instances, and TLAPS proofs of the results that matter most for every instance.

Every definition that models code is listed under `map` in `PROJECT.json` with
the lines it stands for. Node, ledger, wire, git, Soroban host and operating
system are outside the repository; their actions are marked external there.

## 1. The system

| Part | State it keeps | Operations | Talks to |
|---|---|---|---|
| `sdkt-rpc` client, submission, simulate, account, invoke | retry budget, poll clock, the signed envelope | `request`, `get_next_sequence`, `simulate_transaction`, `send_transaction`, `submit_and_wait`, `poll_transaction`, `invoke_contract` | a Soroban RPC node over HTTP |
| `sdkt-rpc` deploy | the two transactions of a deployment | `upload_wasm`, `create_contract`, `deploy_contract_with_args`, `deploy_contract_from_hash` | submission |
| `sdkt-core` deployment + `project deploy` in `sdkt-cli` | `.sdkt-deployments.json`, the copy a run holds | read, the deploy loop, atomic write, `--skip-deployed` | deploy, the existence probe of storage |
| `sdkt-core` project, package, build | the contract graph of `.sdkt.toml`, build artifacts | `resolve_deploy_order`, `topo_sort`, the walks of `build` and `project deploy` | build, deploy, lock |
| `sdkt-core` sync, fetch, lock | `sdkt.lock`, the checkout cache | `package fetch`, `package update`, `lock generate`, `lock verify` | git, the file system |
| `sdkt-storage` identity | keys, the `default` link | generate, import, remove, set default, resolve for signing | every signing command |
| `sdkt-storage` network, `sdkt-core` config and network_safety | profile files, `.sdkt.toml` | add, remove, list, resolve, the mainnet guard, check, diagnose | every command that talks to a network |
| `sdkt tx`, `call`, `invoke`, `deploy`; `sdkt-xdr` builder, sign, envelope | an envelope in a file between commands | build, validate, decode, simulate, sign, submit | networks, keystore |
| `sdkt-xdr` lib, typed; fees | none | encode, decode, storage keys, footprints, ledger entries, fee estimates | everybody |
| `sdkt-rpc` storage, `sdkt-storage` analyzer, snapshot, estimate | saved storage reports | check, analyze, diff, extend, restore, read, estimate | the RPC node |
| `sdkt-rpc` events, inspect, network_capture, transaction, wasm, account; `sdkt-storage` cache | a WASM cache on disk | inspect, verify, health, deployment verify, metadata, events, capture | the RPC node |
| `sdkt-wasm`, release assurance | none | parse ABIs, diff them, judge upgrades, generate clients, release reports | files, the reads above |
| `sdkt-audit` plugin store | plugin directories, bundles | install, update, remove, pack, verify, doctor | native and WASM plugins |
| `sdkt-audit` rules, registry, loaders | the rule registry of one run | scan, run rules, gate, SARIF | the plugin store |
| `sdkt-agent`, `sdkt-core` registry | an intent, a plan, a child process | parse, plan, refuse, run with a deadline, answer | the CLI |
| `sdkt-fuzz` | the findings of a campaign, artifacts, evidence | generate, mutate, execute, classify, minimise, replay, compare states | the Soroban host |
| `sdkt-core` scaffold, format, package bundles; playground | none | file generation and formatting | the file system |

What is hard about it: a send that is retried although the first copy arrived; a
poll that gives up on a transaction that then settles; sequence numbers shared by
concurrent processes; two transactions that only together are a deployment;
record, lock, key, cache and plugin files that several processes read and write
back; processes that die between two system calls; remotes that move between two
commands and ledgers that close between two requests of one; a network that is
chosen anew at every step of a transaction's life; a child that ends just as its
deadline passes; and a minimiser whose earlier rejections go stale with every
reduction it accepts. `PROJECT.json` lists each of these at its line under `hazards`.

What makes each part correct:

- submission: an answer is a true statement about the ledger, and one comes;
- deployment: what the caller is told is enough to resume safely;
- workspace deployment: the record file names real contracts, loses nothing that
  was reported, and a resumed run deploys only what is missing;
- deploy order: dependencies first, everything once, the same order every time;
- dependencies: what a command reports as done verifies, and failure changes nothing;
- identities: no reported key is lost, and "default" signs with the chosen one;
- networks: nothing reaches mainnet unless the operator named it; a healthy report
  is of the network configured;
- transactions by hand: an envelope made as documented is accepted, and one that is
  not priced is announced as such;
- values: what is written is what is read back, a footprint holds the keys asked
  for, once each;
- reads: one report is of one ledger, and what is called verified was read of the
  contract while the command ran;
- releases: a caller of the first version still works after any chain of upgrades
  called compatible, and a PASS is earned by every section that ran;
- plugins and audit: what is listed loads, findings are those of the source, and
  the gate counts all of them;
- agent: what runs is read-only and on a network that the request named or testnet, the two artifacts of
  a comparison are not swapped, the answer is what the child did;
- fuzzing: a recorded finding is one, is minimal, replays, and has its file.

## 2. Plan

Done, in the order of importance:

1. `Submission` - one transaction from the sequence read to the answer.
2. `DeployPromise`, `Deploy` - the two-transaction deployment, shown to implement
   an abstract promise to its callers.
3. `ProjectDeploy` - the workspace loop over that promise and its record file.
4. `DeployOrder` - the order that loop walks, and the build that precedes it.
5. `DependencyLock` - fetch, update, build and generate over `sdkt.lock`.
6. `IdentityStore` - the keystore under every signing command.
7. `FuzzCampaign` - a campaign from the first case to the evidence file.
8. `Networks`, `TxTools` - which network a command talks to, the guard in front of
   mainnet, and the commands that make, sign and send envelopes behind it.
9. `StorageReads`, `ContractReads` - reads that take several requests while ledgers
   close, and the cache.
10. `PluginStore`, `Audit`, `Release` - plugins, findings, upgrade verdicts and the
    report that puts them together.
11. `Agent` - requests in plain words, from the tokens to the answer.
12. `StorageKeys`, `Values` - the conversions under all of them.

Next, again in order:

1. the fuzzer's chaining of state changes (`sequence.rs`) and `state_compare.rs`;
2. packing, publishing and unpacking of package bundles.

## 3. The modules

| Module | Extends | Models | Actions correspond to |
|---|---|---|---|
| `Submission` | | `client.rs`, `submission.rs`, `simulate.rs`, `account.rs`, `invoke.rs` of `sdkt-rpc` | one request each, with its two ways to fail; the node's own steps |
| `DeployPromise` | | nothing: it states what a deployment promises | the call starts, lands, returns |
| `Deploy` | `Submission` | `deploy.rs` | what happens between the two submissions |
| `ProjectDeploy` | `DeployPromise` | `deployment.rs` and the handler of `project deploy` | read, probe, deploy, write the temporary file, rename, kill |
| `DeployOrder` | | `project.rs`, `topo_sort`, `build.rs` | one alias validated, popped, built or resolved |
| `DependencyLock` | | `fetch.rs`, `sync.rs`, `lock.rs` and their handlers | one git call or one file write |
| `IdentityStore` | | `identity.rs` and the resolution in `main.rs` | one system call |
| `FuzzCampaign` | | `campaign.rs`, `minimizer.rs`, `oracle.rs`, `runner.rs`, `replay.rs`, `evidence.rs` | one execution on the host or one file write |
| `Networks` | | `config.rs`, `network_safety.rs`, `network.rs`, `commands/network.rs`, `commands/diagnostics.rs` | one profile command, or one request of check and diagnose |
| `TxTools` | `Networks` | `builder.rs`, `sign.rs`, `envelope.rs`, `tx_builder.rs`, `validation.rs`, the handlers of `tx`, `call`, `invoke`, `deploy` | one command, with every point where the network may not answer |
| `StorageKeys` | | keys and entries of `lib.rs`, footprints of `builder.rs`, typed arguments of `main.rs` | one command that makes or uses a key |
| `Values` | `StorageKeys` | `sdkt-xdr` `lib.rs`, `typed.rs`; both `fee.rs` | one conversion of what is in hand |
| `StorageReads` | | `storage.rs`, `analyzer.rs`, `snapshot.rs`, `estimate.rs` | one request of a storage command; a ledger closes |
| `ContractReads` | | `inspect.rs`, `wasm.rs`, `events.rs`, `account.rs`, `transaction.rs`, `network_capture.rs`, `cache.rs` | one request or one system call of the cache; a ledger closes |
| `PluginStore` | | `plugin_store.rs`, `plugin_doctor.rs` | one system call of a writing command; a reading command |
| `Audit` | | `audit.rs`, `rules.rs`, `registry.rs`, the loaders, the handler of `audit` | one stage of the command, one file audited |
| `Release` | | `spec.rs`, `spec_diff.rs`, `client_gen.rs`, `release-assurance` | one section of the report; the contract is upgraded |
| `Agent` | | `intent.rs`, `plan.rs`, `executor.rs`, `result.rs`, `registry.rs` | planning, one step of the executor, one step of the child |

`MC<module>` gives the constants their values for TLC, `<module>Proofs` holds
lemmas and theorems; those of `Submission` and `Deploy` are in `DeployProofs`, those
of `DeployOrder`, `PluginStore`, `Audit` and `Release` in `WorkspaceProofs`, those of
`Networks`, `TxTools`, `Agent` and `StorageKeys` in `CommandProofs`, and those of `StorageReads` and
`ContractReads` in `ChainReadsProofs`. Three MC modules put several parts side by side: `MCRelease`
(`PluginStore`, `Audit` through `MCAudit`, and `Release`), `MCChain` (`StorageReads`
and `ContractReads`), `MCTxTools` (`TxTools` with `Networks`, and `Values` through
`MCValues`). Their variable `part` says which part a behaviour is of; the other
parts stand still, so each is checked as if it were alone.

How they fit together. `Deploy` runs two `Submission`s per call and implements
`DeployPromise` (`KeepsPromise`: a transaction's answers are mapped to whether its
contract has landed). `ProjectDeploy` is built on the promise alone, so whatever
holds of it holds of the real deployment. `ProjectDeploy` assumes an order with
dependencies first; `OrderServesDeployment` in `WorkspaceProofs` proves that
every order `DeployOrder` returns is one. `TxTools` resolves every network through
the operators of `Networks`, over the same profiles and `.sdkt.toml` that the
commands of `Networks` change. `Release` takes the result of an audit as one of the
classes that `Audit` can end in.

Some choices a reader may ask about:

- An envelope and its hash are one value, and `request` builds its payload once,
  so a resend is the same transaction. `wire` counts copies of a send the client
  has stopped waiting for; the node may see them at any later time.
- The clock of a poll is a number of intervals; an answer may take any time up to
  the timeout.
- `DeployOrder` numbers the aliases. The queue of `topo_sort` is sorted after each
  push, so the model keeps it as a set and pops its least element. The iteration
  of the HashMap over the aliases is a free choice.
- `DependencyLock` represents a commit by its position in the history of its
  reference. A checkout remembers both its HEAD and what its reference last named,
  because the two differ after a failed or killed fetch. `fs::write` is two steps, an
  emptying and a filling from the start. A longer content that another process wrote in
  between keeps its end, and what does not parse is `Torn` (so is, in the model, the rare
  remainder that begins with a whole entry: it repeats that entry). A write that fails or
  is killed part of the way leaves any of `Prefixes`: TOML cut between two entries parses.
- `IdentityStore` keeps the open file of a process apart from the name it was
  opened under, because another process may delete the name in between.
- `FuzzCampaign` treats the host as a deterministic function that is not known:
  `judge` remembers the verdict on every execution that has been run, and the first
  run of an execution may bring any verdict the oracle can give. What an execution
  is - with or without authorization entries, in which environment, which calls -
  is exactly what the code hands to the host, so that two places in the code agree
  only if they really run the same thing. The ladder of an argument is its last
  rung, the floor: the intermediate values only change how often a pass is repeated.
- `Networks`: a URL is the network it serves and the words its text contains, which
  is all that the guard and the derived names look at; a mirror of mainnet under
  another host is a URL without those words.
- `TxTools`: a signature is the account and the passphrase it was made for. `used`
  is a history variable that only the properties read.
- `StorageReads` and `ContractReads` keep every past state of the chain, so that a
  property can ask whether some ledger looked as the report says. In `ContractReads`
  a ledger changes the executable of the contract or the tag of its owner, not both:
  they are two transactions, of two contracts. What a command may have read (`Readable`)
  is what the contract ran at one of its ledgers, or, because the tag is read in a later
  request, the tag of a later ledger than one at which the contract named it. Of events,
  a node answers with the earliest `PageLimit` of the range (`Pages`), and the code asks
  once.
- `StorageKeys` makes a word `WordBits` bits wide, so that every limit of a width is met.
  A text is its form and the bytes it holds; hex is also well-formed base64, of
  other bytes.
- `Agent`: a token is its shape, its text and the words that it adds for the choice
  of the capability. Of the registry the capabilities that a request can reach, and
  their neighbours, are in the model. `eq_ignore_ascii_case` compares the lower-case forms
  of two texts, a constant. A process that the command starts may inherit its pipes
  (`ChildForks`) and keeps them open until it ends (`HeirEnds`), the kill of the command
  notwithstanding.

In `DependencyLock`, `IdentityStore`, `FuzzCampaign`, `PluginStore` (variable
`setting`) and `ProjectDeploy` (`healthy`) the circumstances of a behaviour - may
system calls fail, may commands overlap, is the directory relative - are chosen in
the initial state and never change. One run thus covers several circumstances, and
a property can say which of them it needs.

## 4. The runs

Passing runs. All of them finish in a few minutes at most with two workers.

| Run | Instance | Shows |
|---|---|---|
| `submission` | two transactions of one account, one waiting; timeout of two intervals; sequence numbers up to 2 used by others | `SettledAnswersAreTrue`: a SUCCESS or FAILED of the poll is the ledger's verdict for ever. `SettledStaysSettled`: a rejection of the first send leaves nothing behind, an applied envelope is never queued again. `AlwaysAnswered`. |
| `deploy` | a full deployment and a create-only one with the same salt, one after the other | `KeepsPromise`: they implement `DeployPromise`. `PartialKeepsUpload`: `Partial` always has its code uploaded. `NoSelfInflictedBadSeq`: the create is never refused because of the upload's own sequence number. |
| `project_deploy` | two contracts, one depending on the other; two runs, the second with `--skip-deployed`; healthy or with every fault | `RecordsAreKept`: records name real contracts, and what was reported stays recorded. `DependenciesComeFirst`. `ReadableStaysReadable`. `ResumeDeploysOnlyMissing`. `RunsComplete`: runs end, and healthy ones complete. |
| `deploy_order` | every manifest of up to three contracts with up to two names each, valid or not | `OrderIsTheFirst`: the order respects the dependencies and is the first such order in the dictionary. `CyclesAreFound`: it exists exactly if there is no cycle. |
| `lock` | tag and rev, branch, annotated tag, path and version with a relative root, each for one process with faults; one rev with two overlapping processes | `LockIsTrue`: what a fetch or update reports as done verifies, and locked commits existed (the latter also when commands overlap). `NothingIsDestroyed`: a command that fails leaves the lock as it was or, cut short inside the write, pins nothing but what it fetched; contracts survive a sync. `NoRollback`. `CommandsEnd`. All but the second half of `LockIsTrue` are about one command at a time. |
| `identity` | two names, two keys, two processes; alone with and without faults, with a relative directory, or overlapping | `ReportedKeyIsStored`. `DefaultIsHonest`: "default" signs with the chosen identity, nobody who set a default is told there is none, no identity without a secret is left without a failure. |
| `fuzz` | two values of an argument; cases of up to three calls; two cases, two campaigns; three authorization modes, two environments; faults | `PlainFindingsArePreserved`, `StoppedIsMinimal`, `ArtifactsHold` (replays agree with what was recorded, evidence has its files), `CampaignsEnd` (the case only shrinks, and every campaign ends). |
| `release` | two plugin ids that collide in a directory name, damaged bundles, kills or two processes; every function body of up to four steps, trees of up to two files, four sets of plugins; some hundred ABIs and files damaged in each way, every class of audit, evidence and limit | `StoreIsSound`: what is listed loads and a damaged bundle changes nothing. `FindingsAreOfTheSource`: the scan sees the source in its order, and a file has the same findings alone and among others. `GateSeesEveryFinding`. `OldCallersWork`: through any chain of upgrades called compatible, functions and events keep their signatures and the types they reach. `ReleaseVerdictHolds`: a PASS is earned, and exit 0 hides nothing. |
| `chain` | three storage keys of different classes over four ledgers; six kinds of executable over three ledgers, two hashes, two writers of the cache; events of a window of one ledger before the last, one event to a page | `ReportsTellTheChain`: a storage report is of one ledger and the diff tells every change. `PlanRescues`: the plan of a diff extends what it names in time. `AnswersAreGrounded`: what is called verified, or not, was compared with code read of the contract during the command; a capture is of one ledger; events are the earliest of the window; cached metadata is of code read of the contract. |
| `tx_tools` | five `.sdkt.toml`s, two profiles, six sets of flags, three networks and a mirror of mainnet; two accounts, another program on one of them; arguments, texts, keys, ledger entries and fee requests of every kind with words of two bits | `NamedBeforeMainnet`: nothing is applied on mainnet unless a flag of the command that sends it, or the label it was signed under, named a network. `EnvelopesAreHonest`: envelopes made as documented are accepted, and the build warns exactly of those that are neither priced nor given a fee. `ProbesAreTrue`: what check and diagnose call ok is. `ReadBackIsWritten`: what decode shows was written. `FootprintIsAsked`: the keys asked for, once each. |
| `agent` | fifteen phrases with up to two free tokens, and with pairs of artifacts (also ones that differ in capitals alone), endpoints and profiles; every exit, signal and hang of the child and of a process with its pipes | `ReadOnlyAndPinned`: on an endpoint of the request or testnet, on fees of the request, or on the saved profile that the request names. `RolesAreKept`: two artifacts whose names differ in more than capitals are the candidate and the baseline, never against a mark of the request. `AnswerMatchesRun`. `AgentAnswers`: if nothing keeps the pipes open for ever. |

Why the bounds are enough to be interesting. Two transactions of one account are
the least that compete for a sequence number, a timeout of two intervals the
least with a sleep in it, two attempts are the code's own budget. Two runs are the
least of which one resumes or overwrites the other, two contracts the least with
an order. Three aliases give cycles of every length up to three, a contract next
to a cycle, and diamonds' halves. Two commits are the least in which a remote
moves. Two names are the least for one default to replace another, and a deleted
name to be made again with another key. Three calls give removals after an
accepted removal; one argument per call is enough, because the position of the
minimiser moves over calls and arguments in the same way, and
`MinimiserStopsAtMinimum` is proved for every arity. Two processes and one plugin
directory under two ids give every collision of the store. Four steps of a body are
a guard, a write, and a step before and after. Types that reach others through a
compound and through a member are the ways in which an upgrade can break a caller
that does not name the type. A ledger can close between every two requests of a
command, and three ledgers are enough for a command to be torn twice.
One signature is what an account of one key needs; a mirror, a private network and
the two public ones are the cases the guard tells apart. Words of two bits have
the limits of signed and unsigned numbers of every width, at the same places. Two free tokens behind a phrase are the least in which one changes what
another means. Each property has a mutant of the code under `mutants` that it
catches on the same instance.

Deadlock checking is off where the system may really stop: when all calls have
returned (`submission`, `deploy`, `project_deploy`), the campaigns are over (`fuzz`),
or the commands that the bounds allow have been given (`release`, `chain`,
`tx_tools`, `agent`).

One run expects a violation. `project_lost` states `ReportedIsRecorded`, and TLC
finds: a run for testnet and one for mainnet overlap; each writes back the whole
file it read at its start, and the later write drops the record that the other has
just persisted and reported. `findings` has the quotes.

Further disagreements between the code and what the repository says of it. Each is
stated as a definition next to the properties of its module; put in the place of
the invariants of the configuration named here, TLC refutes it.

| Definition | Where | What the code does, and what is said |
|---|---|---|
| `StatusReflectsFinalState` | `Submission`, `MCSubmission.cfg` | `client.rs:110`: a send is accepted, its answer is lost, the ledger applies it, and the retry is answered `tx_bad_seq`: the caller is told `Failed` for a transaction that succeeded. |
| `RecordProblemsOnlyWarn` | `ProjectDeploy`, `MCProjectDeploy.cfg` (as a property) | `main.rs:9291` exits with 1 when a record cannot be written. `deployment.rs:71-73`: the caller "warns but never fails the deployment on a record-write problem". |
| `BranchesCanUpdate` | `DependencyLock`, `MCDependencyLock.cfg` with `MCBranch` | `sync.rs:638`: every checkout that sdkt makes is on no branch, so the second update of a branch dependency is refused. `README.md:404`: "`tag`/`branch` update on drift". |
| `BuildsStay` | `DependencyLock`, `MCDependencyLock.cfg` (as a property) | `sync.rs:649` reads the lock, `lock.rs:376` writes it back whole: the contracts of a build that ends in between are undone, and `lock.rs:376` of two processes may leave the end of the longer content (`Torn`). `sync.rs:12-13`: "contract artifacts and deploy order are never touched". |
| `DefaultCanBeSet` | `IdentityStore`, `MCIdentityStore.cfg` with `MCCareful` | `identity.rs:206`: `exists()` follows the link, so a dangling default is neither cleared nor replaced. `error.rs:21`: "choose one with `sdkt identity default <name>`". |
| `FindingsArePreserved` | `FuzzCampaign`, `MCFuzzCampaign.cfg` with `MCAuthSettings` | `minimizer.rs:210`: candidates are judged without authorization entries, the result is observed with them. `minimizer.rs:14-17`: the "same reason code". |
| `UnguardedTransferIsCritical` | `Audit`, `MCRelease.cfg` | `rules.rs:131`: AUTH-004 compares a qualified name with bare ones and never fires on a method. `docs/reference/cli.md:899-900`: it reports "a method of a `#[contractimpl]` block". |
| `EventsAreAll` | `ContractReads`, `MCChain.cfg` | `events.rs:186-206` sends one `getEvents` without a limit and drops the cursor: events behind the node's first page are missing without a word. `events.rs:99-101` states the range that is asked for, and nothing that may be missing of it. |
| `VerifiedIsNeverTorn` | `ContractReads`, `MCChain.cfg` | `inspect.rs:327`: the tag of an external executable is read one request after the instance that names it. With an upgrade before it, a file is called deployed that the contract may have run at no ledger. |
| `LiveEntryIsReadable` | `StorageReads`, `MCChain.cfg` | `storage.rs:547` parses a full `LedgerEntry`; `storage.rs:35`: `LedgerEntryData` is "the shape Soroban RPC returns". |
| `GenerationNeverPanics` | `Release`, `MCRelease.cfg` | `client_gen.rs:253`: a `void` parameter passes the check and has no tag: `.expect("validated above")`. |
| `HealthyBundleInstalls` | `PluginStore`, `MCRelease.cfg` | A plugin whose artifact lies in a directory is packed, and the bundle is refused by install. |
| `HandoffWorks` | `TxTools`, `MCTxTools.cfg` | `sign.rs:61` lower-cases a `custom:` passphrase, and a network whose passphrase has capitals rejects the envelope. `sign.rs:31`: for "private / standalone networks by supplying an explicit passphrase". |
| `SubmitIsNamed` | `TxTools`, `MCTxTools.cfg` | `network_safety.rs:73`: with a `.sdkt.toml` of a mainnet mirror and the passphrase of testnet the guard sees no mainnet, and `tx submit` without flags sends an envelope that was signed for mainnet before. `docs/reference/cli.md:914`: mutating commands "refuse to target mainnet unless you explicitly select the network — via `--network-profile`, `--rpc-url`, or `--network-passphrase`". |
| `HexKeyIsRead` | `StorageKeys`, `MCTxTools.cfg` | `builder.rs:859` tries base64 first, and hex is base64 of other bytes; `builder.rs:835`: "base64 XDR or hex-encoded XDR bytes". |
| `CaseKeepsRoles` | `Agent`, `MCAgent.cfg` | `intent.rs:658-668`, `764-770` compare paths without regard to capitals: after `release check from A.wasm to a.wasm` one path is left, and the baseline is handed over as the candidate. `intent.rs:704-714`: roles are of "explicit claims only", since another choice "compares an upgrade backwards". |
| `AgentAlwaysAnswers` | `Agent`, `MCAgent.cfg` (as a property) | `executor.rs:149-151` reads both pipes to their end after the kill, and a process that inherited them keeps the agent waiting. `docs/reference/agent.md:26`: "child process, streams separated, timeout, no retry"; `agent.md:269`: "the child is killed, `evidence.timed_out` is true". |
| `NothingIsDropped` | `Agent`, `MCAgent.cfg` with `TypedRequests` | `intent.rs:596` looks a prefix without its colon up among prefixes with one, so a typed argument in a sentence is left out. `plan.rs:12-14`: "nothing is dropped silently". |

Also met while modelling, and visible in the models without a definition of their own:

- `deploy.rs:505` reports `Partial` when the create times out, and it may still
  land; `deploy.rs:25` speaks of a create that fails.
- `deploy.rs:492`: the `?` on the sequence refresh after a successful upload loses
  the uploaded hash that `Partial` would have carried.
- `main.rs:9261`: one `--salt` is used for all contracts of a workspace, whose ids
  then coincide.
- `package.rs:288` names any contract that could not be placed; the comment at
  `package.rs:245` says it is part of a cycle, but it may only depend on one.
- `sync.rs:193`, `sync.rs:652`, `lock.rs:373`, `lock.rs:617`: a relative root looks
  for checkouts in another place, entries that an update is not about lose their
  integrity, and `version` and `path` entries verify without being compared.
- `fetch.rs:207`: for an annotated tag the object of the tag is recorded, which no
  HEAD ever equals. `fetch.rs:288`: a checkout that was cloned and not checked out
  is taken for a complete one.
- `identity.rs:206`: a relative directory makes the link dangle from the start;
  `identity.rs:289`: of two overlapping generates of one name the later overwrites the key
  that the other has reported; `identity.rs:294`: after a kill between open and write an
  empty identity stays, whose name is taken and which cannot be read; `main.rs:7959`: the account and the key of a signer are
  two separate reads.
- a host error on one candidate of the minimiser ends the whole campaign
  (`minimizer.rs:230`); artifacts of earlier campaigns stay in the directory.
- Networks: a malformed `.sdkt.toml` silently becomes the testnet default; a profile
  is written in place, and `list` skips the half of a file that a kill leaves;
  diagnose reads the passphrase of Horizon and never compares it, calls a network
  ok whose health request failed, and degraded one that changed its protocol version
  between two requests.
- Envelopes: `append_signature` panics at the 21st signature; signing twice with one
  identity gives a signature too many; validate refuses a fee bump whose inner fee
  is below 100 stroops.
- Releases: `read_fuzz_evidence` passes evidence that its comment rejects; the growth
  limit compares a rounded percentage; an incompatible `--upgrade-safety` of verify
  and diff exits with 0; the provenance of captured cost parameters is the ledger of
  the last entry alone.
- Agent: of two contract ids or sources the last is taken; a single path is the
  candidate, also after `--previous-wasm` (`intent.rs:721`); a flag without a value is
  left out; the word "rpc" in a sentence becomes a flag; `--network-profile=` is
  overridden by the testnet default; a child killed by a signal is reported as not
  executed; `network check profile <name>` asks the network of the saved profile, whatever
  it is, and no endpoint of the request or the default (`ChecksNamedProfile`).
- Values: `bytes:+f` is taken for hex; the median fee of a quiet network times 0.10
  rounds to 0; `deploy.rs:180` adds fees without a check, `invoke.rs` with one.

## 5. Fairness

- `Submission`, `Deploy`: weak fairness of every client that has begun. The HTTP
  client has a timeout, so a request returns or fails, and the runtime resumes
  every sleep. Nothing is assumed of node and ledger.
- `ProjectDeploy`: weak fairness of every run, for the same reason; a kill is an
  alternative step and needs none. `RunsComplete` is about behaviours without
  faults, where the ledger also processes what was sent.
- `DependencyLock`, `FuzzCampaign`: weak fairness of the one step the program is at.
  Nothing there waits for anybody: a loop goes on until it is done, git and the
  compiler are child processes that end, the host has a budget.
- `Agent`: weak fairness of the executor, which polls its child and sleeps in
  between, and of the passing of its deadline. Nothing is assumed of the child: it
  may hang, and is then killed. Nor of the processes that inherit its pipes, which no
  kill reaches: `AgentAnswers` has `<>[]~heirs` as its premise instead, the behaviours
  in which none of them stays for ever; of the others see `AgentAlwaysAnswers` above.
- The other modules have no liveness property and no fairness.

## 6. The proofs

`theorems` in `PROJECT.json` lists the results. All are about any value of the
constants under the named assumptions, which TLC evaluates on every run.

- **Submission** (`PollPairAssumption`: the pair that `validate_poll_pair` accepts;
  `TxAssumption`). The answers are not inductive by themselves. `IInv` adds
  that before its first send a transaction has left no trace (`UnsentIsUntouched`)
  and that an answer and a used-up budget go with a finished call
  (`AnswerMeansDone`). A settled answer stays true because an applied transaction
  has used its sequence number; `SettledForGood` puts rejections and resends together.
- **Deploy**. `CallInv` says how far the two transactions can be for every result.
  With Submission's invariant it gives `PartialIsResumable`, and
  `DeployKeepsPromise`: each step is one of `DeployPromise` or leaves its state alone.
  `BadSeqIsForeign` needs `SequencesAreRead`: a sequence number was the account's next
  one when it was read, and a create reads it after the upload of its call has used
  one up. A create refused at its first attempt is thus overtaken by somebody else.
- **ProjectDeploy** (`OrderAssumption`, `RunsAssumption`). `SafeInv` holds for any
  number of runs, overlapping or killed: the file and every copy of it name only
  contracts that landed (`CopiesAreReal`), and a run's reports are a prefix of the
  order. Without overlap `SequentialInv` adds that the copy of the active run is
  the file or ahead of it (`CopyIsCurrent`), which is why nothing reported is lost
  (`RecordsStayKept`); `project_lost` shows that the assumption is needed. It is also
  why `--skip-deployed` starts only what is missing (`ResumeIsExact`): the loop asks
  the copy it read at its start, and only `DeployAlias` starts anything.
- **DeployOrder** (`NamesAssumption`: finitely many, numbered names). The invariant
  says that an in-degree is the number of dependencies not placed, the queue is
  exactly what has none left (`QueueIsExact`), each placed contract was the least
  possible (`OrderIsGreedy`), and nothing on a cycle is placed (`CyclesStayOut`).
  That the order is least among all topological ones follows from the first place
  where another one differs (`FirstOrder`). If the queue runs dry early, what is
  left is a set in which everybody depends on another: a cycle.
- **DependencyLock** (`ConstantsAssumption`). `IInv` has two halves. For overlapping
  commands, too, whatever is in a checkout, in a plan, fetched, about to be written
  or in the lock was once at the remote (`Provenance`): a lock that others tore does not
  parse and pins nothing, and one that was cut short pins a part of what was to be
  written (`PrefixPins`). With one command at a time (`Sequential`) a command that has
  not written still has the lock that it found; inside its write nobody else has filled
  the file, and a write that was cut short pins only what the command fetched
  (`WritesOutcomes`), which gives `NothingIsEverDestroyed`;
  what it fetched is the HEAD of the checkout that verify will look at, so
  `LockIsAlwaysTrue`, for dependencies whose recorded object can be a HEAD at all
  (`Comparable`: not annotated tags, see above); and no pin is ahead of its checkout's
  reference (`LockNotBehind`), which is why the next fetch cannot go back
  (`CommitsNeverGoBack`), also after a fetch that failed by halves.
- **IdentityStore**. For one command at a time: what a process has open, holds or
  is about to link is tied to what it has told. `DefaultStaysHonest` adds two facts:
  without failures an empty file is one that its creator is about to fill
  (`EmptyIsBeingWritten`, also for overlapping commands), and the link stays with the
  chosen identity, dangling while that is deleted, because the command that deletes
  it looks at the link only when the file is gone (`LinkStays`).
- **FuzzCampaign** (`ConstantsAssumption`: ladders end at a floor). `CaseInv` is
  type correctness with the positions of the minimiser. `Remembered` says that the
  host is deterministic; the rest builds on it. `PlainInv`: the case the minimiser
  holds preserves the finding in the very execution that the campaign will observe.
  `ScanInv`: as long as a pass has accepted nothing, everything before its position
  was tried on the calls as they are now, and rejected; so a pass that accepts
  nothing proves minimality. `SeenInv`: each finding was observed in the execution
  that a replay repeats. `DiskInv`: findings are of different cases, so no artifact
  overwrites another of its campaign. `ArtifactsAreSound` combines the last two.
- **TxTools** (`KeysAssumption`: identities have accounts; `LowerAssumption`: no text
  in lower case is the passphrase of mainnet). `MainnetIsNamed` is proved of
  `TxToolsSpec`, in which the commands of both modules interleave freely, so also
  with profiles and `.sdkt.toml` of any content. The invariant `FileIsSigned` looks
  at the envelope between the commands: if it carries a signature for mainnet, the
  operator named mainnet by the label of a `tx sign`, or by the flags of an `invoke
  --build-only` that the guard let through. A network accepts nothing without a
  signature for it; so what `tx submit` gets applied was named when it was signed
  (`NamedByLabel`), whatever endpoint it is sent to - by its own flags only if it has any,
  see `SubmitIsNamed` - and what `invoke` and `deploy` get applied was
  signed for the passphrase that the guard has seen.
  `DiagnosisIsTrue` (`NoValAssumption`: no answer is no health) is about the same
  specification: what a probe has got is what its endpoint says (`ProbeHears`), through
  every profile that is changed and every upgrade between two requests.
  `HandoffIsHonest` (`UrlsAssumption`: URLs serve a network, and flags name profiles
  that can exist; `FeeAssumption`) follows the envelope from command to command: as
  long as it counts as priced, it pays what the network asks and has the sequence
  after the one read (`Payable`), and its signatures are exactly those that were asked
  for (`Sealed`). It holds where lower-casing leaves the labels alone, which is the
  precondition in `EnvelopesAreHonest`; see `HandoffWorks` above.
- **StorageReads** (`StorageAssumption`: finitely many keys, a positive warning limit,
  a default horizon that a u32 holds). `StorageInv`: `past` is a sequence of which
  the last element is the chain (`Chronicle`); every batch that a command has is of the
  ledger it goes by (`BatchesAreOfOneLedger`), because `spans_ledgers` refuses any
  other; so the entries of a kept report are those of its ledger (`KeptReports`), and
  the diff is of two such reports. For `PlansRescue`, the extension asks for every
  expiring key of the plan and for the default horizon at least (`PlanIsCarried`),
  which rests on two lemmas about the operators: `PlansReachTheDefault`, and
  `CollectsEveryKey` (dropping repeated keys drops no key).
- **ContractReads** (`ContractAssumption`). `ReadInv` says of every stage of a command
  what it has learned so far (`ReaderHasSeen`). Instance and tag are two requests, and
  any number of ledgers may close between them, so the hash of an external executable is
  known only as `Readable`: named at one ledger of the command, and the tag of another
  that is not earlier (`TagHashIsReadable`); once readable, a hash stays so while ledgers
  close (`ReadableLater`). Captures compare the ledgers of their requests. Events are
  bounded by the window, of which the default start is kept from the request that gave
  it (`LooksBack`), and a page leaves out only what is later than all it shows.
  `cache_get` takes a file only if it parses, so that what a kill or the second writer of
  a temporary file leaves is not taken for metadata.

- **PluginStore** (`SourcesAssumption`: metadata has its four fields, a build gives a
  complete artifact). `StoreInv`: a command holds metadata and an artifact of some
  source (`JobIsWhole`, which for a bundle says that only one the doctor passes gets
  that far, `BundleIsOfASource`), so no command ever works with a damaged file, also
  while another overlaps. With one command at a time `Committing` says of each system
  call what the earlier ones left: the artifact is complete before the metadata names
  it, and the one that is cleaned up is another file. What a kill leaves is then either
  unlisted, or loads, or was being removed or overwritten.
- **Audit** (`TreesAssumption`, `PluginsAssumption`: bodies are sequences of tokens,
  plugins have an id and one of the severities). `AuditInv` ties each report to the
  file it is of, in the order of the files, and the registry it was made with, which
  in an audit of many is that of the file alone (`ReportsFollow`). `GateSees` follows,
  because the summary counts the findings again instead of adding up the counters.
  `FindingsOfTheSource` needs two lemmas about loops: after each statement the scan
  knows exactly what the ones before it say (a call, a division that is still the last
  binding, the uses since one); and a registry gives the same findings in both orders
  of registration if no plugin has the id of a built-in rule.
- **Release** (`FilesAssumption`: entries and members are sequences;
  `RequestsAssumption`: sizes are numbers, audits and campaigns end in one of their
  outcomes). `VerdictInv` says of each section what its status stands for, as
  long as the command goes on; what was deployed meanwhile is remembered in `ran`, so
  that it stays true through upgrades. `OldCallersKeepWorking` is an invariant about
  stacks: `Kept` (every function, event and type is there with the same definition) is
  reflexive and transitive, and `from_diff` calls compatible only what keeps it. For
  events that is `SameEvents`: prefix, format and, place by place, the name, location and
  type of each parameter are the whole of an event, so two events that
  `event_signature_eq` does not tell apart are one.
- **Agent** (`AbsentAssumption`: the value that is not there is not one of the texts it
  is compared with; `RequestsAssumption`: a request is a sequence of tokens with a text).
  `AgentInv` says what each point of the executor implies about child, deadline and
  answer: an exit seen by a poll stays one, and after a timeout the child is not running,
  but may have ended by itself. For `AgentIsPinned` the command follows from the request
  (`SpawnInv`), and the lemmas follow the endpoint flags through every stage of
  `build_argv`: what passes through is removed before the endpoint is added, which is
  the text of a URL, the value of a flag, or the testnet constants. That such an endpoint
  is there takes a look at every capability (`NetworksAreDeclared`): all that ask a network
  declare `--rpc-url`, except `network check`, which is given the name after the word
  profile (`ProfileIsNamed`).
  `RolesStayWithArtifacts` speaks of the artifacts as a reader of the request sees them,
  token by token, and of the roles that flags and words give them, for requests in which no
  two of them differ in capitals alone (`ApartIn`); a flag with its value
  in one token (`--wasm=c.wasm`) counts, a path that is the value of another flag does
  not. The loop of `extract_args` keeps `RolesSoFar`: the paths are the artifacts of the
  tokens taken, and every mark is among the claims, which may also come from file names
  and from words further off. Then `assign_artifact_roles` gives two paths both
  roles or none, and never against a claim (`RolesAreAssigned`); a capability that takes a
  baseline is refused without roles (`BaselineIsForUpgrades`, `UpgradesNeedRoles`), any
  other has no room for two artifacts; and the words passed through carry no artifact
  flag, so that the two which are added are the only ones (`WordsAreThere`).

- **StorageKeys** (`TextsAssumption`: keys are given in lists of texts). `KeysSpec` has
  the commands that make or use keys, and beside them `OtherCommand`, any command that
  leaves a text in the user's hands and answers for itself; TLC asserts of every step of
  `Values` that it is one or the other (`MCTxTools`). `KeysInv` says that what is in
  hand, and what read and analyze answered, are texts. What analyze accepts can be
  extended because each key it takes has been decoded or was just encoded
  (`AnalyzedKeys`); a footprint has each key once because the loop of
  `merge_footprint_keys` keeps of any list each member, once (`FirstsAreKept`).

The loops over tokens, statements, plugins, keys and requests are recursive functions over
positions. The prover cannot use the induction theorems of the library, so two lemmas
stand in for them: `Induction` (a set of positions that has 0 and with each its
successor has them all) from the well-foundedness of the naturals, and `LoopRuns` (a
loop defined by its first value and its step exists, and is the function so defined).

Only model-checked, and why:

- liveness (`AlwaysAnswered`, `RunsComplete`, `CommandsEnd`, `CampaignsEnd`,
  `AgentAnswers`): out of reach of the prover;
- `ReadBackIsWritten` of `Values`: its decoders recurse over nested values, with
  operators that the prover cannot take into its solvers.

## 7. What is not modelled

- Text: printing of reports, SARIF, templates, the wording of answers.
- Of the encoders: the bytes of XDR and StrKey, hashes and keys; an encoding is a
  value that remembers what it encodes. Labels of values by a contract's ABI.
- Tables of numbers: cost parameters, rule descriptions.
- Of `sdkt-fuzz`: how arguments are drawn and mutated (any argument of the right
  type is possible in the model), the second run of the determinism check, the
  network-faithful budget, differential comparison.
- Of the keystore: the copy fallback on platforms without symbolic links.
- Packing and unpacking of package bundles: one call each, over a directory that no
  other command writes.
- Scaffolding, output formats and the playground, which keep no state.
- Of `main.rs`: the declarations of commands and flags, the printing of results, and
  the handlers of the parts above.

Each part has its entry with the reason under `components`.
