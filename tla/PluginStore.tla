---------------------------- MODULE PluginStore ----------------------------
(***************************************************************************)
(* The plugin directory of sdkt-audit (plugin_store.rs), its bundles and   *)
(* its doctor (plugin_doctor.rs), under the `sdkt plugin` commands. An     *)
(* action is one system call that changes the store; a command that only   *)
(* reads is one action. An id is a sequence of characters, a file is what  *)
(* it holds.                                                               *)
(***************************************************************************)
EXTENDS Naturals, FiniteSets, SequencesExt

CONSTANTS Sources,      \* plugin directories of users: plugin.toml, artifact, extension
          Ids,          \* plugin ids that users type
          NoId,         \* no --id
          Keys,         \* signing keys
          NoKey,        \* no key, no signature
          Builds,       \* feature sets the binary may be compiled with
          Circumstances,\* [faults, overlap] a behaviour may be in
          Procs,        \* sdkt processes
          MaxCommands,  \* bound: commands of a behaviour
          HostAbi,      \* SDKT_AUDIT_ABI_MAJOR
          None, Torn,   \* what a file may be instead of complete
          NoBundle,     \* no bundle was made
          Toml          \* the entry plugin.toml of a directory

ASSUME StoreAssumption ==
    /\ NoId \notin Ids /\ NoKey \notin Keys
    /\ Builds \subseteq SUBSET {"native", "wasm"}
    /\ Circumstances \subseteq [faults : BOOLEAN, overlap : BOOLEAN]
    /\ MaxCommands \in Nat /\ HostAbi \in Nat

\* A plugin.toml has its four fields; a complete file is no damaged and no missing one.
ASSUME SourcesAssumption ==
    /\ \A s \in Sources : /\ s.meta = [id |-> s.meta.id, kind |-> s.meta.kind, artifact |-> s.meta.artifact,
                                        abi |-> s.meta.abi]
                          /\ s.meta.artifact # None /\ s.file \notin {None, Torn}
    /\ None # Torn

VARIABLES setting,   \* the circumstances of this behaviour
          build,     \* cargo features: which loaders there are
          store,     \* per directory: is it there, its plugin.toml, its files
          job,       \* per process: the command it is in
          linked,    \* processes whose open file still has its name
          bundle,    \* the .sdktplugin file, or NoBundle
          said,      \* per process: what the last command reported
          half,      \* directories with a removal or an overwrite begun and not ended
          commands   \* commands started

storeVars == <<setting, build, store, job, linked, bundle, said, half, commands>>

Sequential == ~setting.overlap

\* sanitize_id: an id becomes a directory name, and several ids the same one.
sanitize_id(id) ==
    [i \in DOMAIN id |-> IF id[i] \in {"/", "\\", ".", ":", " "} THEN "_" ELSE id[i]]

AllIds == Ids \cup {s.meta.id : s \in Sources}
Dirs == {sanitize_id(id) : id \in AllIds}
Artifacts == {s.meta.artifact : s \in Sources}
Binaries == {s.file : s \in Sources}

NoDir == [there |-> FALSE, toml |-> None, files |-> [a \in Artifacts |-> None]]
Idle == [pc |-> "idle", dir |-> <<>>, meta |-> None, file |-> None, prev |-> None, todo |-> {}]

-----------------------------------------------------------------------------
\* Metadata and loaders

\* validate_basic: an id, a known kind, an artifact inside the directory that
\* is no reserved name.
validate_basic(m) == m.id # <<>> /\ m.kind \in {"native", "wasm"} /\ m.artifact.safe

validate(m) == validate_basic(m) /\ m.abi = HostAbi

validate_kind_ext(m, ext) ==
    \/ m.kind = "native" /\ ext \in {"so", "dylib", "dll"}
    \/ m.kind = "wasm" /\ ext = "wasm"

\* PluginRule::load and WasmPluginRule::load: all symbols, then the version they
\* report, then init. "abi" is the one failure callers treat apart.
load_plugin(file) ==
    CASE file = Torn \/ file = None -> "error"
      [] file # Torn /\ file # None /\ ~file.exports -> "error"
      [] file # Torn /\ file # None /\ file.exports /\ file.abi # HostAbi -> "abi"
      [] OTHER -> IF file.init THEN "ok" ELSE "error"

\* read_meta: an unreadable or unparsable plugin.toml is no plugin.
read_meta(d) ==
    IF store[d].toml \notin {None, Torn} /\ validate_basic(store[d].toml)
    THEN store[d].toml ELSE None

\* list_in: whatever directory has metadata.
list_in == {read_meta(d) : d \in Dirs} \ {None}

-----------------------------------------------------------------------------
\* The doctor: the number of the first stage that fails, 0 when healthy

\* Stages 4 to 6: the version in the metadata and, where a loader can ask, in the
\* artifact; then the load; then a check of the sample. Only a WASM trap is
\* recognised there, by its message.
run_compatibility_load_and_check(m, file) ==
    CASE m.abi # HostAbi -> 4
      [] m.abi = HostAbi /\ m.kind \in build /\ file # Torn /\ file.abi # HostAbi -> 4
      [] OTHER -> IF m.kind \notin build \/ load_plugin(file) # "ok" THEN 5
                  ELSE IF m.kind = "wasm" /\ file.check = "trap" THEN 6
                  ELSE 0

\* run_directory_doctor on a directory of the store, which has no manifest.
run_directory_doctor(d) ==
    LET m == read_meta(d)
    IN CASE m = None -> 1
         [] m # None /\ store[d].files[m.artifact] = None -> 2
         [] m # None /\ store[d].files[m.artifact] # None /\ ~validate_kind_ext(m, m.artifact.ext) -> 2
         [] OTHER -> run_compatibility_load_and_check(m, store[d].files[m.artifact])

\* verify_bundle: every listed file has its digest, metadata and artifact are
\* listed, and a signature fits the manifest and the key asked for.
verify_bundle(b, key) ==
    /\ validate(b.meta)
    /\ b.digest = b.file
    /\ b.sig # NoKey => key \in {NoKey, b.sig}

\* verify_dir_manifest: the same for a bundle that was unpacked.
verify_dir_manifest(b) == b.digest = b.file

run_bundle_doctor(b) ==
    CASE ~validate_basic(b.meta) -> 1
      [] validate_basic(b.meta) /\ ~validate_kind_ext(b.meta, b.meta.artifact.ext) -> 2
      [] validate_basic(b.meta) /\ validate_kind_ext(b.meta, b.meta.artifact.ext)
            /\ ~(verify_bundle(b, NoKey) /\ verify_dir_manifest(b)) -> 3
      [] OTHER -> run_compatibility_load_and_check(b.meta, b.file)

-----------------------------------------------------------------------------
\* Commands

StoreInit ==
    /\ setting \in Circumstances
    /\ build \in Builds
    /\ store = [d \in Dirs |-> NoDir]
    /\ job = [p \in Procs |-> Idle]
    /\ linked = {}
    /\ bundle = NoBundle
    /\ said = [p \in Procs |-> "nothing"]
    /\ half = {}
    /\ commands = 0

Start(p) ==
    /\ job[p].pc = "idle"
    /\ Sequential => \A q \in Procs : job[q].pc = "idle"
    /\ commands < MaxCommands
    /\ commands' = commands + 1
    /\ UNCHANGED <<setting, build>>

Goto(p, where) == job' = [job EXCEPT ![p].pc = where]
Say(p, what) == said' = [said EXCEPT ![p] = what]
End(p, what) == job' = [job EXCEPT ![p] = Idle] /\ Say(p, what)

\* What stops install before the store is touched; the extension checked is that
\* of the source. The dry run needs the loader of that kind.
install_error(meta, file, ext, force) ==
    CASE ~validate(meta) -> "InvalidMetadata"
      [] validate(meta) /\ ~validate_kind_ext(meta, ext) -> "KindExtMismatch"
      [] validate(meta) /\ validate_kind_ext(meta, ext)
            /\ store[sanitize_id(meta.id)].there /\ ~force -> "AlreadyInstalled"
      [] OTHER -> IF meta.kind \in build /\ load_plugin(file) # "ok"
                  THEN "DryRunLoad" ELSE "none"

\* install up to the commit: checks, and the artifact that was there before.
install(p, s, id, force) ==
    LET meta == IF id = NoId THEN s.meta ELSE [s.meta EXCEPT !.id = id]
        error == install_error(meta, s.file, s.ext, force)
        d == sanitize_id(meta.id)
        old == read_meta(d)
    IN \/ error # "none" /\ Say(p, error) /\ UNCHANGED job
       \/ /\ error = "none"
          /\ job' = [job EXCEPT ![p] = [pc |-> "mkdir", dir |-> d, meta |-> meta, file |-> s.file,
                                  prev |-> IF old = None THEN None ELSE old.artifact, todo |-> {}]]
          /\ UNCHANGED said

\* plugin install of an artifact.
PluginInstall(p) ==
    /\ Start(p)
    /\ \E s \in Sources, id \in Ids \cup {NoId}, force \in BOOLEAN : install(p, s, id, force)
    /\ UNCHANGED <<store, linked, bundle, half>>

\* plugin update: install under the id, by force.
PluginUpdate(p) ==
    /\ Start(p)
    /\ \E s \in Sources, id \in Ids : install(p, s, id, TRUE)
    /\ UNCHANGED <<store, linked, bundle, half>>

\* pack_bundle: what is packed carries the digest of what was read.
pack_bundle(s, key) == [meta |-> s.meta, file |-> s.file, digest |-> s.file, sig |-> key]

\* plugin pack: metadata and artifact of a source, with the digests of both.
PluginPack(p) ==
    /\ Start(p)
    /\ \E s \in Sources, key \in Keys \cup {NoKey} :
         \/ /\ ~(validate(s.meta) /\ validate_kind_ext(s.meta, s.meta.artifact.ext))
            /\ Say(p, "InvalidBundle")
            /\ UNCHANGED bundle
         \/ /\ validate(s.meta) /\ validate_kind_ext(s.meta, s.meta.artifact.ext)
            /\ bundle' = pack_bundle(s, key)
            /\ Say(p, "packed")
    /\ UNCHANGED <<store, job, linked, half>>

\* The bundle is copied around and arrives incomplete.
BundleDamaged ==
    /\ setting.faults /\ bundle # NoBundle /\ bundle.file # Torn
    /\ bundle' = [bundle EXCEPT !.file = Torn]
    /\ UNCHANGED <<setting, build, store, job, linked, said, half, commands>>

\* install_bundle_with_key before it installs: a stripped signature does not
\* satisfy a key, and plugin.toml has to be next to the artifact.
bundle_error(b, key) ==
    CASE ~verify_bundle(b, key) -> "InvalidBundle"
      [] verify_bundle(b, key) /\ key # NoKey /\ b.sig = NoKey -> "InvalidBundle"
      [] OTHER -> IF b.meta.artifact.nested THEN "InvalidMetadata" ELSE "none"

PluginInstallBundle(p) ==
    /\ Start(p) /\ bundle # NoBundle
    /\ \E key \in Keys \cup {NoKey}, force \in BOOLEAN :
         LET error == bundle_error(bundle, key)
         IN \/ error # "none" /\ Say(p, error) /\ UNCHANGED job
            \/ /\ error = "none"
               /\ install(p, [meta |-> bundle.meta, file |-> bundle.file,
                              ext |-> bundle.meta.artifact.ext], NoId, force)
    /\ UNCHANGED <<store, linked, bundle, half>>

\* plugin doctor of an installed id or of the bundle, plugin verify, plugin show:
\* they only report.
PluginDoctor(p) ==
    /\ Start(p)
    /\ \/ \E id \in Ids : Say(p, IF run_directory_doctor(sanitize_id(id)) = 0 THEN "healthy" ELSE "sick")
       \/ bundle # NoBundle /\ Say(p, IF run_bundle_doctor(bundle) = 0 THEN "healthy" ELSE "sick")
    /\ UNCHANGED <<store, job, linked, bundle, half>>

PluginVerifyBundle(p) ==
    /\ Start(p) /\ bundle # NoBundle
    /\ \E key \in Keys \cup {NoKey} :
         Say(p, IF verify_bundle(bundle, key) THEN "verified" ELSE "InvalidBundle")
    /\ UNCHANGED <<store, job, linked, bundle, half>>

PluginShow(p) ==
    /\ Start(p)
    /\ \E id \in Ids : Say(p, IF read_meta(sanitize_id(id)) \in list_in THEN "shown" ELSE "unknown")
    /\ UNCHANGED <<store, job, linked, bundle, half>>

-----------------------------------------------------------------------------
\* The commit of install

MakeDir(p) ==
    /\ job[p].pc = "mkdir"
    /\ store' = [store EXCEPT ![job[p].dir].there = TRUE]
    /\ Goto(p, "copy")
    /\ UNCHANGED <<setting, build, linked, bundle, said, half, commands>>

\* fs::copy opens the destination; it does not make a directory for it.
OpenArtifact(p) ==
    LET j == job[p] IN
    /\ j.pc = "copy"
    /\ \/ /\ ~store[j.dir].there \/ j.meta.artifact.nested
          /\ End(p, "Io")
          /\ UNCHANGED <<store, linked, half>>
       \/ /\ store[j.dir].there /\ ~j.meta.artifact.nested
          /\ store' = [store EXCEPT ![j.dir].files[j.meta.artifact] = Torn]
          /\ half' = IF j.prev = j.meta.artifact THEN half \cup {j.dir} ELSE half
          /\ linked' = linked \cup {p}
          /\ Goto(p, "fill")
          /\ UNCHANGED said
    /\ UNCHANGED <<setting, build, bundle, commands>>

FillArtifact(p) ==
    LET j == job[p] IN
    /\ j.pc = "fill"
    /\ store' = IF p \in linked
                THEN [store EXCEPT ![j.dir].files[j.meta.artifact] = j.file] ELSE store
    /\ linked' = linked \ {p}
    /\ Goto(p, "toml")
    /\ UNCHANGED <<setting, build, bundle, said, half, commands>>

OpenMeta(p) ==
    LET j == job[p] IN
    /\ j.pc = "toml"
    /\ \/ /\ ~store[j.dir].there
          /\ End(p, "Io")
          /\ UNCHANGED <<store, linked>>
       \/ /\ store[j.dir].there
          /\ store' = [store EXCEPT ![j.dir].toml = Torn]
          /\ linked' = linked \cup {p}
          /\ Goto(p, "fill_toml")
          /\ UNCHANGED said
    /\ UNCHANGED <<setting, build, bundle, half, commands>>

FillMeta(p) ==
    LET j == job[p] IN
    /\ j.pc = "fill_toml"
    /\ store' = IF p \in linked THEN [store EXCEPT ![j.dir].toml = j.meta] ELSE store
    /\ linked' = linked \ {p}
    /\ half' = half \ {j.dir}
    /\ Goto(p, "clean")
    /\ UNCHANGED <<setting, build, bundle, said, commands>>

\* Mutant: the file that was managed before is removed whatever its name.
CleanArtifactAlways(p) ==
    LET j == job[p] IN
    /\ j.pc = "clean"
    /\ store' = IF j.prev # None THEN [store EXCEPT ![j.dir].files[j.prev] = None] ELSE store
    /\ End(p, "installed")
    /\ UNCHANGED <<setting, build, linked, bundle, half, commands>>

\* The artifact the old metadata named is removed if the new one has another name.
CleanArtifact(p) ==
    LET j == job[p] IN
    /\ j.pc = "clean"
    /\ store' = IF j.prev \notin {None, j.meta.artifact}
                THEN [store EXCEPT ![j.dir].files[j.prev] = None] ELSE store
    /\ End(p, "installed")
    /\ UNCHANGED <<setting, build, linked, bundle, half, commands>>

-----------------------------------------------------------------------------
\* plugin remove: remove_dir_all, in the order the directory lists its entries

PluginRemove(p) ==
    /\ Start(p)
    /\ \E id \in Ids :
         LET d == sanitize_id(id)
             files == {a \in Artifacts : store[d].files[a] # None}
         IN \/ ~store[d].there /\ Say(p, "removed") /\ UNCHANGED <<job, half>>
            \/ /\ store[d].there
               /\ job' = [job EXCEPT ![p] = [pc |-> "rm", dir |-> d, meta |-> None, file |-> None, prev |-> None,
                            todo |-> files \cup (IF store[d].toml = None THEN {} ELSE {Toml})]]
               /\ half' = half \cup {d}
               /\ UNCHANGED said
    /\ UNCHANGED <<store, linked, bundle>>

Forget(d) == {p \in linked : job[p].dir # d}

RemoveEntry(p) ==
    LET j == job[p] IN
    /\ j.pc = "rm"
    /\ \E e \in j.todo :
         /\ store' = IF e = Toml THEN [store EXCEPT ![j.dir].toml = None]
                     ELSE [store EXCEPT ![j.dir].files[e] = None]
         /\ job' = [job EXCEPT ![p].todo = @ \ {e}]
    /\ linked' = Forget(j.dir)
    /\ UNCHANGED <<setting, build, bundle, said, half, commands>>

\* rmdir fails if something was put there meanwhile.
RemoveDir(p) ==
    LET j == job[p]
        empty == store[j.dir].toml = None /\ \A a \in Artifacts : store[j.dir].files[a] = None
    IN /\ j.pc = "rm" /\ j.todo = {}
       /\ store' = IF empty THEN [store EXCEPT ![j.dir] = NoDir] ELSE store
       /\ half' = IF empty THEN half \ {j.dir} ELSE half
       /\ End(p, IF empty THEN "removed" ELSE "Io")
       /\ UNCHANGED <<setting, build, linked, bundle, commands>>

\* A system call fails or the process is killed.
Stop(p) ==
    /\ setting.faults /\ job[p].pc # "idle"
    /\ End(p, "stopped")
    /\ linked' = linked \ {p}
    /\ UNCHANGED <<setting, build, store, bundle, half, commands>>

StoreStep(p) ==
    \/ PluginInstall(p) \/ PluginUpdate(p) \/ PluginPack(p) \/ PluginInstallBundle(p)
    \/ PluginDoctor(p) \/ PluginVerifyBundle(p) \/ PluginShow(p)
    \/ MakeDir(p) \/ OpenArtifact(p) \/ FillArtifact(p) \/ OpenMeta(p) \/ FillMeta(p)
    \/ CleanArtifact(p) \/ PluginRemove(p) \/ RemoveEntry(p) \/ RemoveDir(p) \/ Stop(p)

StoreNext == BundleDamaged \/ \E p \in Procs : StoreStep(p)

StoreSpec == StoreInit /\ [][StoreNext]_storeVars

-----------------------------------------------------------------------------
\* Properties

\* With one command at a time and whatever is killed, a plugin that `list` shows
\* has a complete artifact, unless a removal or an overwrite of that very file
\* was cut short: the artifact is committed before the metadata that names it,
\* and the old one goes after ("Remove the stale artifact only after the new one
\* is committed").
ListedIsLoadable ==
    Sequential => \A d \in Dirs \ half :
        read_meta(d) # None => store[d].files[read_meta(d).artifact] \in Binaries

\* What a bundle brings into the store is what was packed: no artifact that
\* arrived incomplete is installed, and no bundle that the doctor calls damaged.
DamageIsRefused ==
    \A p \in Procs : job[p].pc # "idle" => job[p].file # Torn

\* The plugin store only ever offers what can be loaded, and lets nothing damaged in.
StoreIsSound == ListedIsLoadable /\ DamageIsRefused

\* A healthy bundle can be installed: what `plugin doctor` found healthy is not
\* refused by `plugin install` for what is in the bundle.
HealthyBundleInstalls ==
    bundle # NoBundle /\ run_bundle_doctor(bundle) = 0 => bundle_error(bundle, NoKey) = "none"
=============================================================================
