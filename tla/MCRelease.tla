----------------------------- MODULE MCRelease -----------------------------
(* Instances of PluginStore, Audit and Release: a behaviour is of one of    *)
(* the three.                                                               *)
EXTENDS MCAudit, Release

VARIABLE part

MCCompoundArgs == [t \in {"vec<A>"} |-> <<"A">>]

Param(type) == [name |-> "x", type |-> type]
FnEntry(types, outs) == [kind |-> "fn", name |-> "f", def |-> [params |-> [i \in DOMAIN types |-> Param(types[i])], outputs |-> outs]]
TypeEntry(name, kind, members) == [kind |-> kind, name |-> name, def |-> members]
EventIn(prefix, format, location, type) ==
    [kind |-> "event", name |-> "e",
     def |-> [prefix |-> <<prefix>>, format |-> format,
              params |-> <<[name |-> "p", location |-> location, type |-> type]>>]]
EventEntry(type) == EventIn("e", "map", "data", type)
Part(name, good, entries) == [name |-> name, good |-> good, entries |-> entries]
Wasm(sections, size) == [sections |-> sections, size |-> size, wellFormed |-> TRUE]
Spec1(entries, size) == Wasm(<<Part("spec", TRUE, entries)>>, size)

OptFn == {<<>>, <<FnEntry(<<"A">>, <<"u32">>)>>, <<FnEntry(<<"vec<A>">>, <<>>)>>, <<FnEntry(<<"u32", "u64">>, <<>>)>>}
OptA == {<<>>, <<TypeEntry("A", "struct", <<Member("m", <<"B">>, NoVal)>>)>>,
         <<TypeEntry("A", "enum", <<Member("m", <<>>, 1)>>)>>, <<TypeEntry("A", "enum", <<Member("m", <<>>, 2)>>)>>}
OptB == {<<>>, <<TypeEntry("B", "union", <<Member("c", <<"u32">>, NoVal)>>)>>,
         <<TypeEntry("B", "union", <<Member("c", <<"u64">>, NoVal)>>)>>}
OptE == {<<>>, <<EventEntry("B")>>, <<EventIn("e", "map", "topic_list", "B")>>,
         <<EventIn("e", "vec", "data", "B")>>, <<EventIn("E", "map", "data", "B")>>}
Abis == {Spec1(f \o a \o b \o e, 100) : f \in OptFn, a \in OptA, b \in OptB, e \in OptE}

\* The same ABI in two sections; a function that came twice; damage of each kind.
Split == Wasm(<<Part("spec", TRUE, <<FnEntry(<<"u32", "u64">>, <<>>)>>), Part("env", TRUE, <<>>),
                Part("spec", TRUE, <<EventEntry("u32")>>)>>, 104)
Twice == Spec1(<<FnEntry(<<>>, <<>>), FnEntry(<<"u32", "u64">>, <<>>)>>, 110)
VoidArg == Spec1(<<FnEntry(<<"void">>, <<>>)>>, 100)
Empty == Spec1(<<>>, 0)
NoAbi == Wasm(<<Part("meta", TRUE, <<>>)>>, 100)
BadSpec == Wasm(<<Part("spec", FALSE, <<>>)>>, 100)
BadMeta == Wasm(<<Part("spec", TRUE, <<>>), Part("meta", FALSE, <<>>)>>, 100)
Garbage == [Wasm(<<>>, 3) EXCEPT !.wellFormed = FALSE]
Odd == {Split, Twice, VoidArg, NoAbi, BadSpec, BadMeta, Garbage, Empty}
MCFiles == Abis \cup Odd

One == Spec1(<<FnEntry(<<"u32", "u64">>, <<>>)>>, 100)
Two == Spec1(<<FnEntry(<<"u32", "u64">>, <<>>), EventEntry("u32")>>, 110)
Assure(wasm, previous, audit, contract, evidence, max_size, max_growth) ==
    [wasm |-> wasm, previous |-> previous, audit |-> audit, contract |-> contract, evidence |-> evidence,
     max_size |-> max_size, max_growth |-> max_growth]
MCReleaseRequests ==
    {Assure(w, p, a, c, e, NoVal, NoVal) : w \in {One, Two}, p \in {NoFile, Two},
        a \in {"not_given", "clean", "warning"}, c \in BOOLEAN, e \in {"not_given", "findings"}}
    \cup {Assure(Garbage, p, "critical", TRUE, "clean", NoVal, NoVal) : p \in {NoFile, One}}
    \cup {Assure(Two, NoFile, a, TRUE, "not_given", NoVal, NoVal) : a \in {"missing", "no_sources", "unreadable", "unparsable"}}
    \cup {Assure(One, NoFile, "clean", TRUE, e, NoVal, NoVal) : e \in {"incomplete", "unreadable"}}
    \cup {Assure(w, p, "clean", FALSE, "clean", s, g) : w \in {Two, Split, Twice, Empty, Garbage}, p \in {NoFile, One, Split, Empty},
            s \in {NoVal, 0, 105}, g \in {NoVal, -1, 0, 57, 58, 100}}

\* Callers and clients are looked at over all files, a release-assurance with one of
\* a few on the chain.
ReleaseSteps ==
    \/ live = NotDeployed /\ (run_generate_client \/ Diff)
    \/ live \in {One, Two, NotDeployed} /\ first = live /\ client.status = "none" /\ ReleaseAssurance
    \/ run_upgrade_safety \/ UpgradeMeanwhile \/ ArtifactAndSecurity \/ run_release_upgrade_safety
    \/ Verification \/ HealthSection \/ Aggregate

ReleaseAtRest ==
    /\ live = NotDeployed /\ first = live /\ ra = NoAssurance /\ report = NoVal
    /\ client = [status |-> "none", calls |-> {}] /\ ran = {} /\ moves = 0

MCInit ==
    \/ part = "store" /\ StoreInit /\ AuditAtRest /\ ReleaseAtRest
    \/ part = "audit" /\ AuditStart /\ StoreAtRest /\ ReleaseAtRest
    \/ part = "release" /\ ReleaseInit /\ StoreAtRest /\ AuditAtRest
MCNext ==
    \/ part = "store" /\ StoreNext /\ UNCHANGED <<part, auditVars, releaseVars>>
    \/ part = "audit" /\ AuditNext /\ UNCHANGED <<part, storeVars, releaseVars>>
    \/ part = "release" /\ ReleaseSteps /\ UNCHANGED <<part, storeVars, auditVars>>
MCSpec == MCInit /\ [][MCNext]_<<part, storeVars, auditVars, releaseVars>>
=============================================================================
