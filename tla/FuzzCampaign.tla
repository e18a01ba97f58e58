---------------------------- MODULE FuzzCampaign ----------------------------
(***************************************************************************)
(* A fuzzing campaign of sdkt-fuzz, from the first generated case to the   *)
(* evidence file: campaign.rs (generate, execute, classify, minimise,      *)
(* observe again), minimizer.rs (the passes over all candidates),          *)
(* oracle.rs (the verdict), runner.rs (artifacts, replay, evidence) and    *)
(* replay.rs.  Several campaigns may write into one directory.             *)
(*                                                                         *)
(* The host is deterministic and outside the repository: an execution is   *)
(* what the host is given (are authorization entries supplied, which       *)
(* environment, which calls) and its observation is unknown until it is    *)
(* first run and the same ever after.  `judge` keeps the verdict of the    *)
(* oracle on it.  A call is the tuple of its arguments; one function.      *)
(***************************************************************************)
EXTENDS Integers, Sequences, FiniteSets

CONSTANTS Values,    \* arguments of a call
          Floor,     \* what the reduction ladder makes of an argument, or itself
          Arity,     \* parameters of the function
          MaxSteps,  \* bound: calls of a case
          MaxCases,  \* bound: cases of a campaign
          MaxRuns,   \* bound: campaigns
          Settings   \* how the campaigns are run

AuthModes == {"NoAuth", "CorrectAuth", "WrongAuth"}
Envs == {"default", "custom", "reduced"}
Reasons == {"ReturnMismatch", "StateMismatch", "EventMismatch",
            "AuthorizationBypass", "UnexpectedError", "ResourceLimit"}
Expectations ==
    [behavior : {"Success", "SuccessWith", "Error", "Any"}, state : BOOLEAN,
     events : BOOLEAN, auth : BOOLEAN, limit : BOOLEAN]

ASSUME ConstantsAssumption ==
    /\ Floor \in [Values -> Values]
    /\ \A v \in Values : Floor[Floor[v]] = Floor[v]
    /\ Arity \in Nat /\ MaxSteps \in Nat \ {0}
    /\ MaxCases \in Nat /\ MaxRuns \in Nat
    /\ Settings \subseteq
         [auth : AuthModes, env : {"default", "custom"}, every : Nat,
          length : 1 .. MaxSteps, cases : 0 .. MaxCases, runs : 0 .. MaxRuns, replay : BOOLEAN, faults : BOOLEAN, expected : Expectations]

VARIABLES setting,   \* the setting of this behaviour, never changed
          judge,     \* per execution, its verdict once it has run
          pc,        \* where the campaign is
          run, case, \* campaigns started, cases begun
          start,     \* the calls of the case as generated
          original,  \* the verdict on them
          steps,     \* current_steps of the minimiser
          env,       \* current_env of the minimiser
          i, j,      \* the step and the argument it is at
          accepted,  \* accepted_any
          findings,  \* the findings of the campaign
          next,      \* the finding to be written or replayed next
          statuses,  \* the replay statuses
          disk,      \* the artifact files
          evidence,  \* campaign-evidence.json
          exit       \* how the campaign ended

minimizer == <<start, original, steps, env, i, j, accepted>>
files == <<disk, evidence>>
report == <<findings, next, statuses, exit>>
work == <<judge, pc, run, case, minimizer, report, files>>
vars == <<setting, work>>

Calls == [1 .. Arity -> Values]
Steps == UNION {[1 .. n -> Calls] : n \in 1 .. MaxSteps}
Executions == BOOLEAN \X Envs \X Steps

-----------------------------------------------------------------------------
\* The oracle

Errors == {"declared", "other", "budget"}
\* What an observation tells about the declaration: the error, or whether the
\* return value is the wanted one; and whether state and events are as declared.
Observations ==
    [status : Errors \cup {"wanted", "unwanted"}, state : BOOLEAN, events : BOOLEAN]

IsSuccess(o) == o.status \notin Errors

\* Oracle::classify.
Classify(o) ==
    LET want == setting.expected IN
    CASE ~IsSuccess(o) /\ want.behavior = "Error" ->
           IF o.status = "declared" THEN "ExpectedError" ELSE "UnexpectedError"
      [] ~IsSuccess(o) /\ want.behavior = "Any" -> "Pass"
      [] ~IsSuccess(o) /\ want.behavior \in {"Success", "SuccessWith"} ->
           IF want.limit /\ o.status = "budget" THEN "ResourceLimit" ELSE "UnexpectedError"
      [] IsSuccess(o) ->
           IF \/ want.behavior = "Error"
              \/ want.behavior = "SuccessWith" /\ o.status = "unwanted" THEN "ReturnMismatch"
           ELSE IF want.auth /\ setting.auth # "CorrectAuth" THEN "AuthorizationBypass"
           ELSE IF want.state /\ ~o.state THEN "StateMismatch"
           ELSE IF want.events /\ ~o.events THEN "EventMismatch"
           ELSE "Pass"

\* A FuzzError: the host could not run the case at all.
NoObservation == [class |-> "FuzzError", success |-> FALSE]
Unknown == [class |-> "Unknown", success |-> FALSE]
Verdicts == [class : Reasons \cup {"Pass", "ExpectedError", "FuzzError"}, success : BOOLEAN]

\* What running x can bring: the verdict it had before, or any the oracle can give.
Answers(x) ==
    IF judge[x] # Unknown THEN {judge[x]}
    ELSE {[class |-> Classify(o), success |-> IsSuccess(o)] : o \in Observations}
         \cup (IF setting.faults THEN {NoObservation} ELSE {})

Execute(x, v) == v \in Answers(x) /\ judge' = [judge EXCEPT ![x] = v]

-----------------------------------------------------------------------------
\* The campaign

WithAuth == setting.auth # "NoAuth"
NoCalls == <<>>

Init ==
    /\ setting \in Settings
    /\ judge = [x \in Executions |-> Unknown]
    /\ pc = "idle" /\ run = 0 /\ case = 0
    /\ start = NoCalls /\ original = Unknown
    /\ steps = NoCalls /\ env = "default" /\ i = 0 /\ j = 0 /\ accepted = FALSE
    /\ findings = <<>> /\ next = 1 /\ statuses = <<>>
    /\ disk = {} /\ evidence = <<>> /\ exit = "none"

\* The process ends: nothing of the campaign but the files is left.
Quit(how) == pc' = "idle" /\ exit' = how

\* A campaign starts, over whatever an earlier one left in the directory.
Begin ==
    /\ pc = "idle" /\ run < setting.runs
    /\ run' = run + 1 /\ case' = 0 /\ pc' = "generate"
    /\ start' = NoCalls /\ original' = Unknown
    /\ steps' = NoCalls /\ env' = "default" /\ i' = 0 /\ j' = 0 /\ accepted' = FALSE
    /\ findings' = <<>> /\ next' = 1 /\ statuses' = <<>> /\ exit' = "none"
    /\ UNCHANGED <<judge, files>>

IsSequence == setting.every > 0 /\ setting.length > 1 /\ case % setting.every = 0

\* generate_call and the mutations: typed arguments, the same for the same seed.
Generate ==
    /\ pc = "generate" /\ case < setting.cases
    /\ start' \in [1 .. (IF IsSequence THEN setting.length ELSE 1) -> Calls]
    /\ case' = case + 1 /\ pc' = "execute"
    /\ UNCHANGED <<judge, run, original, steps, env, i, j, accepted, report, files>>

\* All cases are done, or there is no function to call.
EndCases ==
    /\ pc = "generate" /\ case = setting.cases
    /\ pc' = "write"
    /\ UNCHANGED <<judge, run, case, minimizer, report, files>>

\* A pass of the minimiser over the calls s begins.
ArgsOf(s) == IF Arity = 0 THEN 0 ELSE Len(s)
BeginPass(s) ==
    /\ accepted' = FALSE
    /\ \/ Len(s) > 1 /\ pc' = "remove" /\ i' = Len(s) /\ j' = Arity
       \/ Len(s) <= 1 /\ pc' = "args" /\ i' = ArgsOf(s) /\ j' = Arity

\* The case is executed under the authorization of the campaign and classified.
ExecuteCase ==
    /\ pc = "execute"
    /\ \E v \in Answers(<<WithAuth, setting.env, start>>) :
         /\ Execute(<<WithAuth, setting.env, start>>, v)
         /\ \/ /\ v.class \in {"Pass", "ExpectedError"}
               /\ pc' = "generate"
               /\ UNCHANGED <<original, steps, env, i, j, accepted, exit>>
            \/ /\ v.class \in Reasons
               /\ original' = v /\ steps' = start /\ env' = setting.env
               /\ BeginPass(start)
               /\ UNCHANGED exit
            \/ /\ v.class = "FuzzError"
               /\ Quit("error")
               /\ UNCHANGED <<original, steps, env, i, j, accepted>>
    /\ UNCHANGED <<run, case, start, findings, next, statuses, files>>

-----------------------------------------------------------------------------
\* The minimiser runs every candidate without authorization entries.

\* Mutant: any finding counts as the same one.
PreservesAnyReason(v) == v.class \in Reasons

Preserves(v) == v.class = original.class /\ v.success = original.success

\* The calls without the k-th.
Without(s, k) == [n \in 1 .. Len(s) - 1 |-> IF n < k THEN s[n] ELSE s[n + 1]]

\* Mutant: an accepted removal does not count as a change.
TryRemoveForgets ==
    /\ pc = "remove"
    /\ \E v \in Answers(<<FALSE, env, Without(steps, i)>>) :
         /\ Execute(<<FALSE, env, Without(steps, i)>>, v)
         /\ v # NoObservation
         /\ steps' = IF Preserves(v) THEN Without(steps, i) ELSE steps
         /\ IF i = 2 \/ Preserves(v)
            THEN pc' = "args" /\ i' = ArgsOf(steps') ELSE i' = i - 1 /\ UNCHANGED pc
    /\ UNCHANGED <<run, case, start, original, env, j, accepted, report, files>>

\* 1. One step is removed, the last that can be; the first never is.
TryRemove ==
    /\ pc = "remove"
    /\ \E v \in Answers(<<FALSE, env, Without(steps, i)>>) :
         /\ Execute(<<FALSE, env, Without(steps, i)>>, v)
         /\ v # NoObservation
         /\ \/ /\ Preserves(v)
               /\ steps' = Without(steps, i) /\ accepted' = TRUE
               /\ pc' = "args" /\ i' = ArgsOf(steps')
            \/ /\ ~Preserves(v) /\ i > 2
               /\ i' = i - 1
               /\ UNCHANGED <<pc, steps, accepted>>
            \/ /\ ~Preserves(v) /\ i = 2
               /\ pc' = "args" /\ i' = ArgsOf(steps)
               /\ UNCHANGED <<steps, accepted>>
    /\ UNCHANGED <<run, case, start, original, env, j, report, files>>

\* The position after (i, j), the last argument of the last step first.
Advance ==
    \/ j > 1 /\ j' = j - 1 /\ UNCHANGED <<pc, i>>
    \/ j <= 1 /\ i > 1 /\ i' = i - 1 /\ j' = Arity /\ UNCHANGED pc
    \/ j <= 1 /\ i <= 1 /\ pc' = "env" /\ UNCHANGED <<i, j>>

Reduced(s, m, n) == [s EXCEPT ![m][n] = Floor[s[m][n]]]

\* Mutant: an argument at its floor is offered again.
TryArgAgain ==
    /\ pc = "args" /\ i > 0
    /\ \E v \in Answers(<<FALSE, env, Reduced(steps, i, j)>>) :
         /\ Execute(<<FALSE, env, Reduced(steps, i, j)>>, v)
         /\ v # NoObservation
         /\ steps' = IF Preserves(v) THEN Reduced(steps, i, j) ELSE steps
         /\ accepted' = (accepted \/ Preserves(v))
    /\ Advance
    /\ UNCHANGED <<run, case, start, original, env, report, files>>

\* 2-4. One argument is brought to its floor, if it is not there.
TryArg ==
    /\ pc = "args" /\ i > 0 /\ Floor[steps[i][j]] # steps[i][j]
    /\ \E v \in Answers(<<FALSE, env, Reduced(steps, i, j)>>) :
         /\ Execute(<<FALSE, env, Reduced(steps, i, j)>>, v)
         /\ v # NoObservation
         /\ \/ Preserves(v) /\ steps' = Reduced(steps, i, j) /\ accepted' = TRUE
            \/ ~Preserves(v) /\ UNCHANGED <<steps, accepted>>
    /\ Advance
    /\ UNCHANGED <<run, case, start, original, env, report, files>>

\* Its ladder is empty, or there is no argument.
SkipArg ==
    /\ pc = "args"
    /\ \/ i > 0 /\ Floor[steps[i][j]] = steps[i][j] /\ Advance
       \/ i = 0 /\ pc' = "env" /\ UNCHANGED <<i, j>>
    /\ UNCHANGED <<judge, run, case, start, original, steps, env, accepted, report, files>>

\* Another pass if this one has accepted anything.
EndPass(changed) ==
    \/ changed /\ BeginPass(steps)
    \/ ~changed /\ pc' = "final" /\ UNCHANGED <<i, j, accepted>>

\* 5. Timestamp and budget go to their reduced values, unless the environment
\* is the default one.
TryEnv ==
    /\ pc = "env" /\ env = "custom"
    /\ \E v \in Answers(<<FALSE, "reduced", steps>>) :
         /\ Execute(<<FALSE, "reduced", steps>>, v)
         /\ v # NoObservation
         /\ \/ Preserves(v) /\ env' = "reduced" /\ EndPass(TRUE)
            \/ ~Preserves(v) /\ EndPass(accepted) /\ UNCHANGED env
    /\ UNCHANGED <<run, case, start, original, steps, report, files>>

SkipEnv ==
    /\ pc = "env" /\ env # "custom"
    /\ EndPass(accepted)
    /\ UNCHANGED <<judge, run, case, start, original, steps, env, report, files>>

\* The host cannot run a candidate: the campaign and all its findings are gone.
CandidateFails ==
    /\ \/ pc = "remove" /\ Execute(<<FALSE, env, Without(steps, i)>>, NoObservation)
       \/ /\ pc = "args" /\ i > 0 /\ Floor[steps[i][j]] # steps[i][j]
          /\ Execute(<<FALSE, env, Reduced(steps, i, j)>>, NoObservation)
       \/ pc = "env" /\ env = "custom" /\ Execute(<<FALSE, "reduced", steps>>, NoObservation)
    /\ Quit("error")
    /\ UNCHANGED <<run, case, minimizer, findings, next, statuses, files>>

\* The result of the minimiser is run once more.
FinalRun ==
    /\ pc = "final"
    /\ \E v \in Answers(<<FALSE, env, steps>>) :
         /\ Execute(<<FALSE, env, steps>>, v)
         /\ \/ v # NoObservation /\ pc' = "observe" /\ UNCHANGED exit
            \/ v = NoObservation /\ Quit("error")
    /\ UNCHANGED <<run, case, minimizer, findings, next, statuses, files>>

\* The minimised case is observed under the authorization and the environment
\* of the campaign, and the finding is recorded whatever comes of it.
Observe ==
    /\ pc = "observe"
    /\ \E v \in Answers(<<WithAuth, setting.env, steps>>) :
         /\ Execute(<<WithAuth, setting.env, steps>>, v)
         /\ \/ /\ v # NoObservation
               /\ findings' = Append(findings,
                    [case |-> case, reason |-> original.class, start |-> start,
                     steps |-> steps, preserved |-> v.class = original.class])
               /\ pc' = "generate" /\ UNCHANGED exit
            \/ /\ v = NoObservation
               /\ Quit("error") /\ UNCHANGED findings
    /\ UNCHANGED <<run, case, minimizer, next, statuses, files>>

-----------------------------------------------------------------------------
\* Artifacts, replay and evidence

Artifact(f) ==
    [case |-> f.case, reason |-> f.reason, auth |-> setting.auth, env |-> setting.env,
     steps |-> f.steps, preserved |-> f.preserved]

FileName(f) == <<f.case, f.reason>>

Overwritten(f, content) == {d \in disk : d.name # FileName(f)} \cup content

WriteArtifact ==
    /\ pc = "write" /\ next <= Len(findings)
    /\ LET f == findings[next] IN
         disk' = Overwritten(f, {[name |-> FileName(f), artifact |-> <<Artifact(f)>>]})
    /\ next' = next + 1
    /\ UNCHANGED <<judge, pc, run, case, minimizer, findings, statuses, evidence, exit>>

\* The directory cannot be made, or the file is left as it was or cut short.
WriteArtifactFails ==
    /\ pc = "write" /\ setting.faults
    /\ \/ UNCHANGED disk
       \/ /\ next <= Len(findings)
          /\ LET f == findings[next] IN
               disk' = Overwritten(f, {[name |-> FileName(f), artifact |-> <<>>]})
    /\ Quit("error")
    /\ UNCHANGED <<judge, run, case, minimizer, findings, next, statuses, evidence>>

EndWrites ==
    /\ pc = "write" /\ next = Len(findings) + 1
    /\ pc' = (IF setting.replay THEN "replay" ELSE "evidence") /\ next' = 1
    /\ UNCHANGED <<judge, run, case, minimizer, findings, statuses, exit, files>>

\* Mutant: an artifact is replayed without authorization entries.
ReplayUnauthorized ==
    /\ pc = "replay" /\ next <= Len(findings)
    /\ \E v \in Answers(<<FALSE, setting.env, findings[next].steps>>) :
         /\ Execute(<<FALSE, setting.env, findings[next].steps>>, v)
         /\ statuses' = Append(statuses,
                IF v = NoObservation THEN "Error"
                ELSE IF v.class = findings[next].reason THEN "Reproduced" ELSE "Mismatch")
    /\ next' = next + 1
    /\ UNCHANGED <<pc, run, case, minimizer, findings, exit, files>>

\* replay: the artifact as this campaign has it in memory, executed with
\* entries for its own mode; an execution error is only a status.
Replay ==
    /\ pc = "replay" /\ next <= Len(findings)
    /\ LET a == Artifact(findings[next])
           x == <<a.auth # "NoAuth", a.env, a.steps>>
       IN \E v \in Answers(x) :
            /\ Execute(x, v)
            /\ statuses' = Append(statuses,
                   IF v = NoObservation THEN "Error"
                   ELSE IF v.class = a.reason THEN "Reproduced" ELSE "Mismatch")
    /\ next' = next + 1
    /\ UNCHANGED <<pc, run, case, minimizer, findings, exit, files>>

EndReplays ==
    /\ pc = "replay" /\ next = Len(findings) + 1
    /\ pc' = "evidence"
    /\ UNCHANGED <<judge, run, case, minimizer, report, files>>

\* CampaignEvidence::from_result; the exit code tells whether there are findings.
WriteEvidence ==
    /\ pc = "evidence"
    /\ evidence' = [n \in 1 .. Len(findings) |->
           [artifact |-> Artifact(findings[n]), minimized |-> findings[n].preserved,
            status |-> IF setting.replay THEN statuses[n] ELSE "NotReplayed"]]
    /\ Quit(IF findings = <<>> THEN "clean" ELSE "findings")
    /\ UNCHANGED <<judge, run, case, minimizer, findings, next, statuses, disk>>

WriteEvidenceFails ==
    /\ pc = "evidence" /\ setting.faults
    /\ Quit("error")
    /\ UNCHANGED <<judge, run, case, minimizer, findings, next, statuses, files>>

Campaign ==
    \/ Generate \/ ExecuteCase \/ EndCases
    \/ TryRemove \/ TryArg \/ SkipArg \/ TryEnv \/ SkipEnv \/ CandidateFails
    \/ FinalRun \/ Observe
    \/ WriteArtifact \/ WriteArtifactFails \/ EndWrites
    \/ Replay \/ EndReplays \/ WriteEvidence \/ WriteEvidenceFails

Next == (Begin \/ Campaign) /\ UNCHANGED setting

Spec == Init /\ [][Next]_vars /\ WF_work(Campaign)

-----------------------------------------------------------------------------
\* Properties

Artifacts ==
    [case : 1 .. MaxCases, reason : Reasons, auth : AuthModes, env : Envs,
     steps : Steps, preserved : BOOLEAN]

\* All variables stay in their types.
TypeOK ==
    /\ setting \in Settings
    /\ judge \in [Executions -> Verdicts \cup {Unknown}]
    /\ pc \in {"idle", "generate", "execute", "remove", "args", "env", "final",
               "observe", "write", "replay", "evidence"}
    /\ run \in 0 .. MaxRuns /\ case \in 0 .. setting.cases
    /\ start \in Steps \cup {NoCalls} /\ steps \in Steps \cup {NoCalls}
    /\ original \in Verdicts \cup {Unknown} /\ env \in Envs
    /\ i \in 0 .. MaxSteps /\ j \in 0 .. Arity /\ accepted \in BOOLEAN
    /\ findings \in Seq([case : 1 .. MaxCases, reason : Reasons, start : Steps,
                         steps : Steps, preserved : BOOLEAN])
    /\ next \in 1 .. Len(findings) + 1
    /\ statuses \in Seq({"Reproduced", "Mismatch", "Error"})
    /\ \A d \in disk : d.artifact = <<>> \/ d.artifact \in [1 .. 1 -> Artifacts]
    /\ evidence \in Seq([artifact : Artifacts, minimized : BOOLEAN,
                         status : {"Reproduced", "Mismatch", "Error", "NotReplayed"}])
    /\ exit \in {"none", "clean", "findings", "error"}

\* Without authorization entries and in the default environment, as `sdkt fuzz`
\* runs unless told otherwise, every recorded finding is still a finding for the
\* same reason after it was minimised.
PlainFindingsArePreserved ==
    setting.auth = "NoAuth" /\ setting.env = "default" =>
        \A n \in 1 .. Len(findings) : findings[n].preserved

\* What the minimiser may still try on s.
Candidates(e, s) ==
    {<<FALSE, e, Without(s, k)>> : k \in 2 .. Len(s)}
    \cup {<<FALSE, e, Reduced(s, p[1], p[2])>> : p \in (1 .. Len(s)) \X (1 .. Arity)}
    \cup (IF e = "custom" THEN {<<FALSE, "reduced", s>>} ELSE {})

\* "one complete pass over all candidate generators with no accepted reduction"
\* (minimizer.rs): when the minimiser stops, every candidate that differs from
\* its result was run and does not preserve the finding.
StoppedIsMinimal ==
    pc \in {"final", "observe"} =>
        \A x \in Candidates(env, steps) \ {<<FALSE, env, steps>>} :
            judge[x] # Unknown /\ ~Preserves(judge[x])

\* The result is made of the generated calls: the first one and some of the
\* others in their order, with arguments of the case or their floors.
Shrinks(s, t) ==
    \E from \in [1 .. Len(t) -> 1 .. Len(s)] :
        /\ from[1] = 1
        /\ \A m, n \in 1 .. Len(t) : m < n => from[m] < from[n]
        /\ \A m \in 1 .. Len(t), n \in 1 .. Arity :
             t[m][n] \in {s[from[m]][n], Floor[s[from[m]][n]]}

\* The case that a finding records is part of the case that was generated.
FindingsShrink == \A n \in 1 .. Len(findings) : Shrinks(findings[n].start, findings[n].steps)

\* A replay reproduces an artifact exactly if the campaign has recorded that the
\* minimised case preserves the finding, in every authorization mode.
ReplayAgrees ==
    \A n \in 1 .. Len(evidence) : evidence[n].status \in {"Reproduced", "Mismatch"} =>
        (evidence[n].status = "Reproduced" <=> evidence[n].minimized)

\* After a campaign that did not fail, the file of every finding in the evidence
\* holds what the evidence is about, whatever earlier campaigns left behind.
EvidenceIsBacked ==
    pc = "idle" /\ exit \in {"clean", "findings"} =>
        \A n \in 1 .. Len(evidence) :
            \E d \in disk : d.artifact = <<evidence[n].artifact>>

\* What a campaign leaves for a later reader holds: the verdicts of the evidence
\* agree with a replay, and the files it is about are there.
ArtifactsHold == ReplayAgrees /\ EvidenceIsBacked

\* A campaign comes to an end, each case it records being part of the one that
\* was generated: the minimiser only ever shrinks and cannot go on for ever.
CampaignsEnd == []FindingsShrink /\ (pc # "idle" ~> pc = "idle")

\* "classification stays `Finding` with the same reason code" (minimizer.rs): a
\* recorded finding is one for that reason after minimisation, in every mode.
FindingsArePreserved == \A n \in 1 .. Len(findings) : findings[n].preserved
=============================================================================
