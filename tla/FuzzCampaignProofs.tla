------------------------- MODULE FuzzCampaignProofs -------------------------
(***************************************************************************)
(* Proofs about FuzzCampaign, for every function, ladder, setting and      *)
(* bound.                                                                  *)
(***************************************************************************)
EXTENDS FuzzCampaign, TLAPS

Minimising == {"remove", "args", "env", "final", "observe"}

\* Where the campaign is and what it has got there with.
ControlInv ==
    /\ pc = "execute" => start \in Steps /\ case >= 1
    /\ pc \in Minimising =>
          /\ start \in Steps /\ steps \in Steps /\ case >= 1
          /\ original \in Verdicts /\ original.class \in Reasons
    /\ pc = "remove" => i \in 2 .. Len(steps) /\ j = Arity
    /\ pc = "args" => i \in 0 .. Len(steps) /\ (i > 0 => j \in 1 .. Arity)
    /\ pc \in {"generate", "execute", "write"} \cup Minimising => statuses = <<>>
    /\ pc = "replay" => Len(statuses) = next - 1
    /\ pc = "evidence" /\ setting.replay => Len(statuses) = Len(findings)

CaseInv == TypeOK /\ ControlInv

\* The two halves of TypeOK: the files and the report, and the rest.
ReportType ==
    /\ findings \in Seq([case : 1 .. MaxCases, reason : Reasons, start : Steps,
                         steps : Steps, preserved : BOOLEAN])
    /\ next \in 1 .. Len(findings) + 1
    /\ statuses \in Seq({"Reproduced", "Mismatch", "Error"})
    /\ \A d \in disk : d.artifact = <<>> \/ d.artifact \in [1 .. 1 -> Artifacts]
    /\ evidence \in Seq([artifact : Artifacts, minimized : BOOLEAN,
                         status : {"Reproduced", "Mismatch", "Error", "NotReplayed"}])

MachineType ==
    /\ setting \in Settings
    /\ judge \in [Executions -> Verdicts \cup {Unknown}]
    /\ pc \in {"idle", "generate", "execute", "remove", "args", "env", "final",
               "observe", "write", "replay", "evidence"}
    /\ run \in 0 .. MaxRuns /\ case \in 0 .. setting.cases
    /\ start \in Steps \cup {NoCalls} /\ steps \in Steps \cup {NoCalls}
    /\ original \in Verdicts \cup {Unknown} /\ env \in Envs
    /\ i \in 0 .. MaxSteps /\ j \in 0 .. Arity /\ accepted \in BOOLEAN
    /\ exit \in {"none", "clean", "findings", "error"}

\* Together they are TypeOK, now and after a step.
LEMMA TypeSplits ==
    /\ TypeOK <=> MachineType /\ ReportType
    /\ TypeOK' <=> MachineType' /\ ReportType'
BY DEF TypeOK, MachineType, ReportType

\* Steps that touch neither the report nor the files.
LEMMA ReportKept ==
    ASSUME TypeOK, UNCHANGED <<findings, next, statuses, files>>
    PROVE  ReportType'
BY DEF TypeOK, ReportType, files

-----------------------------------------------------------------------------
\* The calls of a case are a sequence of at most MaxSteps calls.
LEMMA StepsAreSequences ==
    ASSUME NEW s
    PROVE  s \in Steps <=> s \in Seq(Calls) /\ Len(s) \in 1 .. MaxSteps
<1>1. ASSUME s \in Steps PROVE s \in Seq(Calls) /\ Len(s) \in 1 .. MaxSteps
  <2>1. PICK n \in 1 .. MaxSteps : s \in [1 .. n -> Calls] BY <1>1 DEF Steps
  <2>2. n \in Nat BY ConstantsAssumption
  <2> QED BY <2>1, <2>2
<1>2. ASSUME s \in Seq(Calls), Len(s) \in 1 .. MaxSteps PROVE s \in Steps
  <2>1. s \in [1 .. Len(s) -> Calls] BY <1>2
  <2> QED BY <1>2, <2>1 DEF Steps
<1> QED BY <1>1, <1>2

\* Removing a call other than the first leaves a case.
LEMMA WithoutIsCase ==
    ASSUME NEW s \in Steps, NEW k \in 2 .. Len(s)
    PROVE  Without(s, k) \in Steps /\ Len(Without(s, k)) = Len(s) - 1
<1>1. s \in Seq(Calls) /\ Len(s) \in 1 .. MaxSteps BY StepsAreSequences
<1>2. Len(s) \in Nat /\ Len(s) - 1 \in 1 .. MaxSteps BY <1>1, ConstantsAssumption
<1>3. Without(s, k) \in [1 .. Len(s) - 1 -> Calls] BY <1>1, <1>2 DEF Without
<1>4. Without(s, k) \in Seq(Calls) /\ Len(Without(s, k)) = Len(s) - 1 BY <1>2, <1>3
<1> QED BY <1>2, <1>4, StepsAreSequences

\* Reducing an argument leaves a case of the same length.
LEMMA ReducedIsCase ==
    ASSUME NEW s \in Steps, NEW m \in 1 .. Len(s), NEW n \in 1 .. Arity
    PROVE  Reduced(s, m, n) \in Steps /\ Len(Reduced(s, m, n)) = Len(s)
<1>1. s \in Seq(Calls) /\ Len(s) \in 1 .. MaxSteps BY StepsAreSequences
<1>2. s[m] \in Calls BY <1>1
<1>3. Floor[s[m][n]] \in Values BY <1>2, ConstantsAssumption DEF Calls
<1>4. [s[m] EXCEPT ![n] = Floor[s[m][n]]] \in Calls BY <1>2, <1>3 DEF Calls
<1>5. Reduced(s, m, n) = [s EXCEPT ![m] = [s[m] EXCEPT ![n] = Floor[s[m][n]]]]
  BY DEF Reduced
<1>6. Reduced(s, m, n) \in Seq(Calls) /\ Len(Reduced(s, m, n)) = Len(s)
  BY <1>1, <1>4, <1>5
<1> QED BY <1>1, <1>6, StepsAreSequences

\* The oracle knows no other verdicts.
LEMMA OracleVerdicts ==
    ASSUME TypeOK, NEW o \in Observations
    PROVE  [class |-> Classify(o), success |-> IsSuccess(o)] \in Verdicts
<1>1. setting.expected.behavior \in {"Success", "SuccessWith", "Error", "Any"}
  BY ConstantsAssumption DEF TypeOK, Expectations
<1>2. Classify(o) \in Reasons \cup {"Pass", "ExpectedError", "FuzzError"}
  BY <1>1 DEF Classify, IsSuccess, Reasons, Errors
<1>3. IsSuccess(o) \in BOOLEAN BY DEF IsSuccess
<1> QED BY <1>2, <1>3 DEF Verdicts

\* The host is deterministic: what an execution has shown it shows ever after,
\* and what it shows now is remembered.
LEMMA ExecuteKeeps ==
    ASSUME TypeOK, NEW x \in Executions, NEW v, Execute(x, v)
    PROVE  /\ v \in Verdicts
           /\ judge' \in [Executions -> Verdicts \cup {Unknown}]
           /\ judge'[x] = v
           /\ \A y \in Executions : judge[y] # Unknown => judge'[y] = judge[y]
<1>1. judge \in [Executions -> Verdicts \cup {Unknown}] BY DEF TypeOK
<1>2. NoObservation \in Verdicts BY DEF NoObservation, Verdicts, Reasons
<1>3. v \in Verdicts /\ (judge[x] # Unknown => v = judge[x])
  <2>1. CASE judge[x] # Unknown BY <2>1, <1>1 DEF Execute, Answers
  <2>2. CASE judge[x] = Unknown
    BY <2>2, <1>2, OracleVerdicts DEF Execute, Answers
  <2> QED BY <2>1, <2>2
<1>4. judge' = [judge EXCEPT ![x] = v] BY DEF Execute
<1> QED BY <1>1, <1>3, <1>4
\* What a setting is made of.
LEMMA SettingType ==
    ASSUME setting \in Settings
    PROVE  /\ setting.auth \in AuthModes /\ setting.env \in {"default", "custom"}
           /\ setting.every \in Nat /\ setting.length \in 1 .. MaxSteps
           /\ setting.cases \in 0 .. MaxCases /\ setting.runs \in 0 .. MaxRuns
           /\ setting.replay \in BOOLEAN /\ setting.faults \in BOOLEAN
BY ConstantsAssumption

\* The executions a case gives rise to.
LEMMA CaseExecutions ==
    ASSUME NEW s \in Steps, TypeOK
    PROVE  /\ <<WithAuth, setting.env, s>> \in Executions
           /\ <<FALSE, env, s>> \in Executions
           /\ <<FALSE, "reduced", s>> \in Executions
<1>1. setting.env \in Envs BY SettingType DEF TypeOK, Envs
<1>2. env \in Envs /\ "reduced" \in Envs BY DEF TypeOK, Envs
<1>3. WithAuth \in BOOLEAN BY DEF WithAuth
<1> QED BY <1>1, <1>2, <1>3 DEF Executions

-----------------------------------------------------------------------------
\* Type correctness and control

\* The first state.
LEMMA InitCase == Init => CaseInv
<1> SUFFICES ASSUME Init PROVE CaseInv OBVIOUS
<1> USE ConstantsAssumption DEF Init
<1>1. Unknown \in Verdicts \cup {Unknown} OBVIOUS
<1>2. judge \in [Executions -> Verdicts \cup {Unknown}] BY <1>1
<1>6. 0 \in 0 .. setting.cases /\ 0 \in 0 .. MaxRuns /\ 0 \in 0 .. MaxSteps /\ 0 \in 0 .. Arity
  BY SettingType
<1>3. MachineType BY <1>2, <1>6, Zenon DEF MachineType, Envs
<1>5. ReportType BY DEF ReportType
<1>4. ControlInv BY DEF ControlInv, Minimising
<1> QED BY <1>3, <1>4, <1>5, TypeSplits DEF CaseInv

\* A pass starts at a position of the calls.
LEMMA BeginPassPosition ==
    ASSUME NEW s \in Steps, BeginPass(s)
    PROVE  /\ accepted' = FALSE /\ j' = Arity
           /\ \/ pc' = "remove" /\ i' \in 2 .. Len(s)
              \/ pc' = "args" /\ i' \in 0 .. Len(s) /\ (i' > 0 => j' \in 1 .. Arity)
           /\ i' \in 0 .. MaxSteps /\ j' \in 0 .. Arity
BY StepsAreSequences, ConstantsAssumption DEF BeginPass, ArgsOf

\* The position after one argument.
LEMMA AdvancePosition ==
    ASSUME NEW s \in Steps, pc = "args", i \in 1 .. Len(s), j \in 1 .. Arity, Advance
    PROVE  /\ i' \in 1 .. Len(s) /\ j' \in 1 .. Arity
           /\ pc' \in {"args", "env"}
BY StepsAreSequences, ConstantsAssumption DEF Advance

\* After a pass there is another, or the final run.
LEMMA EndPassPosition ==
    ASSUME NEW c \in BOOLEAN, steps \in Steps, TypeOK, EndPass(c)
    PROVE  /\ pc' \in {"remove", "args", "final"}
           /\ pc' = "remove" => i' \in 2 .. Len(steps) /\ j' = Arity
           /\ pc' = "args" => i' \in 0 .. Len(steps) /\ (i' > 0 => j' \in 1 .. Arity)
           /\ i' \in 0 .. MaxSteps /\ j' \in 0 .. Arity /\ accepted' \in BOOLEAN
<1>1. CASE c /\ BeginPass(steps) BY <1>1, BeginPassPosition
<1>2. CASE ~c /\ pc' = "final" /\ UNCHANGED <<i, j, accepted>> BY <1>2 DEF TypeOK
<1> QED BY <1>1, <1>2 DEF EndPass

\* The records a campaign makes.
LEMMA FindingType ==
    ASSUME TypeOK, NEW n \in 1 .. Len(findings)
    PROVE  /\ findings[n].case \in 1 .. MaxCases /\ findings[n].reason \in Reasons
           /\ findings[n].start \in Steps /\ findings[n].steps \in Steps
           /\ findings[n].preserved \in BOOLEAN
           /\ Artifact(findings[n]) \in Artifacts
<1> DEFINE F == [case : 1 .. MaxCases, reason : Reasons, start : Steps,
                 steps : Steps, preserved : BOOLEAN]
<1>1. findings \in Seq(F) BY DEF TypeOK
<1>2. findings[n] \in F
  <2> HIDE DEF F
  <2> QED BY <1>1
<1>3. setting.auth \in AuthModes /\ setting.env \in Envs BY SettingType DEF TypeOK, Envs
<1> QED BY <1>2, <1>3 DEF Artifact, Artifacts

\* The actions of the minimiser: only judge, the case and the position change.
LEMMA CaseMinimise ==
    ASSUME CaseInv, UNCHANGED setting,
           TryRemove \/ TryArg \/ SkipArg \/ TryEnv \/ SkipEnv
    PROVE  CaseInv'
<1> USE DEF CaseInv
<1>t. MachineType BY TypeSplits
<1>r. ReportType'
  BY ReportKept DEF TryRemove, TryArg, SkipArg, TryEnv, SkipEnv, report
<1>1. CASE TryRemove
  <2>1. steps \in Steps /\ i \in 2 .. Len(steps) /\ j = Arity /\ start \in Steps /\ case >= 1
        /\ original \in Verdicts /\ original.class \in Reasons /\ statuses = <<>>
    BY <1>1 DEF TryRemove, ControlInv, Minimising
  <2>2. Without(steps, i) \in Steps BY <2>1, WithoutIsCase
  <2>3. judge' \in [Executions -> Verdicts \cup {Unknown}]
    BY <1>1, <2>2, CaseExecutions, ExecuteKeeps DEF TryRemove
  <2>4. /\ steps' \in Steps /\ accepted' \in BOOLEAN
        /\ \/ pc' = "remove" /\ i' \in 2 .. Len(steps')
           \/ pc' = "args" /\ i' = ArgsOf(steps')
    <3>1. accepted \in BOOLEAN BY DEF TypeOK
    <3>2. i \in Nat BY <2>1
    <3>3. PICK v : \/ /\ Preserves(v)
                      /\ steps' = Without(steps, i) /\ accepted' = TRUE
                      /\ pc' = "args" /\ i' = ArgsOf(steps')
                   \/ /\ ~Preserves(v) /\ i > 2
                      /\ i' = i - 1
                      /\ UNCHANGED <<pc, steps, accepted>>
                   \/ /\ ~Preserves(v) /\ i = 2
                      /\ pc' = "args" /\ i' = ArgsOf(steps)
                      /\ UNCHANGED <<steps, accepted>>
      BY <1>1 DEF TryRemove
    <3>4. pc = "remove" BY <1>1 DEF TryRemove
    <3>5. CASE Preserves(v) BY <2>2, <3>3, <3>5
    <3>6. CASE ~Preserves(v) /\ i > 2
      <4>1. i' = i - 1 /\ UNCHANGED <<pc, steps, accepted>> BY <3>3, <3>6
      <4>2. i - 1 \in 2 .. Len(steps) BY <2>1, <3>6, StepsAreSequences
      <4> QED BY <2>1, <3>1, <3>4, <4>1, <4>2
    <3>7. CASE ~Preserves(v) /\ i = 2 BY <2>1, <3>1, <3>3, <3>7
    <3> QED BY <3>3, <3>5, <3>6, <3>7
  <2>5. Len(steps') \in 1 .. MaxSteps BY <2>4, StepsAreSequences
  <2>6. /\ UNCHANGED <<run, case, start, original, env, j, exit, statuses>>
    BY <1>1 DEF TryRemove, report
  <2>7. i' \in 0 .. Len(steps') /\ (i' > 0 /\ pc' = "args" => j' \in 1 .. Arity)
    BY <2>1, <2>4, <2>5, <2>6, ConstantsAssumption DEF ArgsOf
  <2>8. MachineType'
    BY <1>t, <2>3, <2>4, <2>5, <2>6, <2>7, ConstantsAssumption DEF MachineType
  <2>9. ControlInv' BY <2>1, <2>4, <2>6, <2>7 DEF ControlInv, Minimising
  <2> QED BY <1>r, <2>8, <2>9, TypeSplits
<1>2. CASE TryArg
  <2>1. steps \in Steps /\ i \in 1 .. Len(steps) /\ j \in 1 .. Arity /\ start \in Steps /\ case >= 1
        /\ original \in Verdicts /\ original.class \in Reasons /\ statuses = <<>> /\ pc = "args"
    BY <1>2 DEF TryArg, ControlInv, Minimising
  <2>2. Reduced(steps, i, j) \in Steps /\ Len(Reduced(steps, i, j)) = Len(steps)
    BY <2>1, ReducedIsCase
  <2>3. judge' \in [Executions -> Verdicts \cup {Unknown}]
    BY <1>2, <2>2, CaseExecutions, ExecuteKeeps DEF TryArg
  <2>4. steps' \in Steps /\ accepted' \in BOOLEAN /\ Len(steps') = Len(steps)
    BY <1>2, <2>1, <2>2 DEF TryArg, TypeOK
  <2>5. Len(steps') \in 1 .. MaxSteps BY <2>4, StepsAreSequences
  <2>6. UNCHANGED <<run, case, start, original, env, exit, statuses>>
    BY <1>2 DEF TryArg, report
  <2>7. i' \in 1 .. Len(steps') /\ j' \in 1 .. Arity /\ pc' \in {"args", "env"}
    BY <1>2, <2>1, <2>4, AdvancePosition DEF TryArg
  <2>8. MachineType'
    BY <1>t, <2>3, <2>4, <2>5, <2>6, <2>7, ConstantsAssumption DEF MachineType
  <2>9. ControlInv' BY <2>1, <2>4, <2>6, <2>7 DEF ControlInv, Minimising
  <2> QED BY <1>r, <2>8, <2>9, TypeSplits
<1>3. CASE SkipArg
  <2>1. steps \in Steps /\ i \in 0 .. Len(steps) /\ (i > 0 => j \in 1 .. Arity) /\ start \in Steps
        /\ case >= 1 /\ original \in Verdicts /\ original.class \in Reasons /\ statuses = <<>>
        /\ pc = "args"
    BY <1>3 DEF SkipArg, ControlInv, Minimising
  <2>2. UNCHANGED <<judge, run, case, start, original, steps, env, accepted, exit, statuses>>
    BY <1>3 DEF SkipArg, report
  <2>3. Len(steps) \in 1 .. MaxSteps BY <2>1, StepsAreSequences
  <2>4. \/ i > 0 /\ i' \in 1 .. Len(steps) /\ j' \in 1 .. Arity /\ pc' \in {"args", "env"}
        \/ i = 0 /\ pc' = "env" /\ UNCHANGED <<i, j>>
    <3>1. CASE i > 0 /\ Advance
      <4>1. i \in 1 .. Len(steps) BY <2>1, <2>3, <3>1
      <4> QED BY <2>1, <3>1, <4>1, AdvancePosition
    <3>2. CASE i = 0 /\ pc' = "env" /\ UNCHANGED <<i, j>> BY <3>2
    <3> QED BY <1>3, <3>1, <3>2 DEF SkipArg
  <2>5. MachineType' BY <1>t, <2>2, <2>3, <2>4, ConstantsAssumption DEF MachineType
  <2>6. ControlInv' BY <2>1, <2>2, <2>4 DEF ControlInv, Minimising
  <2> QED BY <1>r, <2>5, <2>6, TypeSplits
<1>4. CASE TryEnv \/ SkipEnv
  <2>1. steps \in Steps /\ start \in Steps /\ case >= 1
        /\ original \in Verdicts /\ original.class \in Reasons /\ statuses = <<>>
    BY <1>4 DEF TryEnv, SkipEnv, ControlInv, Minimising
  <2>2. UNCHANGED <<run, case, start, original, steps, exit, statuses>>
    BY <1>4 DEF TryEnv, SkipEnv, report
  <2>3. env' \in Envs BY <1>4 DEF TryEnv, SkipEnv, TypeOK, Envs
  <2>4. judge' \in [Executions -> Verdicts \cup {Unknown}]
    BY <1>4, <2>1, CaseExecutions, ExecuteKeeps DEF TryEnv, SkipEnv, TypeOK
  <2>5. EndPass(TRUE) \/ EndPass(accepted) BY <1>4 DEF TryEnv, SkipEnv
  <2>6. accepted \in BOOLEAN BY DEF TypeOK
  <2>7. /\ pc' \in {"remove", "args", "final"}
        /\ pc' = "remove" => i' \in 2 .. Len(steps) /\ j' = Arity
        /\ pc' = "args" => i' \in 0 .. Len(steps) /\ (i' > 0 => j' \in 1 .. Arity)
        /\ i' \in 0 .. MaxSteps /\ j' \in 0 .. Arity /\ accepted' \in BOOLEAN
    BY <2>1, <2>5, <2>6, EndPassPosition
  <2>8. MachineType' BY <1>t, <2>2, <2>3, <2>4, <2>7 DEF MachineType
  <2>9. ControlInv' BY <2>1, <2>2, <2>7 DEF ControlInv, Minimising
  <2> QED BY <1>r, <2>8, <2>9, TypeSplits
<1> QED BY <1>1, <1>2, <1>3, <1>4

\* The actions up to a finding and after the minimiser.
LEMMA CaseRun ==
    ASSUME CaseInv, UNCHANGED setting,
           Begin \/ Generate \/ EndCases \/ ExecuteCase \/ CandidateFails \/ FinalRun \/ Observe
    PROVE  CaseInv'
<1> USE DEF CaseInv
<1>t. MachineType BY TypeSplits
<1>s. /\ setting.auth \in AuthModes /\ setting.env \in {"default", "custom"}
      /\ setting.every \in Nat /\ setting.length \in 1 .. MaxSteps
      /\ setting.cases \in 0 .. MaxCases /\ setting.runs \in 0 .. MaxRuns
  BY SettingType DEF TypeOK
<1>1. CASE Begin
  <2>1. /\ run' \in 0 .. MaxRuns /\ 0 \in 0 .. setting.cases /\ 0 \in 0 .. MaxSteps
        /\ 0 \in 0 .. Arity
    BY <1>1, <1>s, ConstantsAssumption DEF Begin, TypeOK
  <2>2. MachineType'
    BY <1>1, <1>t, <2>1, Zenon DEF Begin, MachineType, Envs
  <2>3. ReportType' BY <1>1 DEF Begin, TypeOK, ReportType, files
  <2>4. ControlInv' BY <1>1 DEF Begin, ControlInv, Minimising
  <2> QED BY <2>2, <2>3, <2>4, TypeSplits
<1>2. CASE Generate
  <2>1. start' \in Steps
    <3>1. PICK n \in 1 .. MaxSteps : start' \in [1 .. n -> Calls]
      <4>1. 1 \in 1 .. MaxSteps BY ConstantsAssumption
      <4> QED BY <1>2, <1>s, <4>1 DEF Generate
    <3> QED BY <3>1 DEF Steps
  <2>2. case' \in 0 .. setting.cases /\ case' >= 1 BY <1>2, <1>s DEF Generate, TypeOK
  <2>3. pc' = "execute" /\ UNCHANGED <<judge, run, original, steps, env, i, j, accepted, report, files>>
    BY <1>2 DEF Generate
  <2>4. MachineType' BY <1>t, <2>1, <2>2, <2>3 DEF MachineType, report
  <2>5. ReportType' BY <2>3, ReportKept DEF report
  <2>6. ControlInv' BY <1>2, <2>1, <2>2, <2>3 DEF Generate, ControlInv, Minimising, report
  <2> QED BY <2>4, <2>5, <2>6, TypeSplits
<1>3. CASE EndCases
  <2>1. MachineType' BY <1>3, <1>t DEF EndCases, MachineType, minimizer, report
  <2>2. ReportType' BY <1>3, ReportKept DEF EndCases, report
  <2>3. ControlInv' BY <1>3 DEF EndCases, ControlInv, Minimising, report
  <2> QED BY <2>1, <2>2, <2>3, TypeSplits
<1>4. CASE ExecuteCase
  <2>1. start \in Steps /\ case >= 1 /\ statuses = <<>> /\ pc = "execute"
    BY <1>4 DEF ExecuteCase, ControlInv
  <2>2. PICK v : /\ Execute(<<WithAuth, setting.env, start>>, v)
                 /\ \/ /\ v.class \in {"Pass", "ExpectedError"}
                       /\ pc' = "generate"
                       /\ UNCHANGED <<original, steps, env, i, j, accepted, exit>>
                    \/ /\ v.class \in Reasons
                       /\ original' = v /\ steps' = start /\ env' = setting.env
                       /\ BeginPass(start)
                       /\ UNCHANGED exit
                    \/ /\ v.class = "FuzzError"
                       /\ Quit("error")
                       /\ UNCHANGED <<original, steps, env, i, j, accepted>>
    BY <1>4 DEF ExecuteCase
  <2>3. v \in Verdicts /\ judge' \in [Executions -> Verdicts \cup {Unknown}]
    BY <2>1, <2>2, CaseExecutions, ExecuteKeeps
  <2>4. UNCHANGED <<run, case, start, findings, next, statuses, files>> BY <1>4 DEF ExecuteCase
  <2>5. ReportType' BY <2>4, ReportKept
  <2>6. CASE pc' = "generate" /\ UNCHANGED <<original, steps, env, i, j, accepted, exit>>
    <3>1. MachineType' BY <1>t, <2>3, <2>4, <2>6 DEF MachineType
    <3>2. ControlInv' BY <2>1, <2>4, <2>6 DEF ControlInv, Minimising
    <3> QED BY <2>5, <3>1, <3>2, TypeSplits
  <2>7. CASE /\ v.class \in Reasons
             /\ original' = v /\ steps' = start /\ env' = setting.env
             /\ BeginPass(start)
             /\ UNCHANGED exit
    <3>1. /\ accepted' = FALSE /\ j' = Arity
          /\ \/ pc' = "remove" /\ i' \in 2 .. Len(start)
             \/ pc' = "args" /\ i' \in 0 .. Len(start) /\ (i' > 0 => j' \in 1 .. Arity)
          /\ i' \in 0 .. MaxSteps /\ j' \in 0 .. Arity
      BY <2>1, <2>7, BeginPassPosition
    <3>2. env' \in Envs BY <1>s, <2>7 DEF Envs
    <3>3. MachineType' BY <1>t, <2>1, <2>3, <2>4, <2>7, <3>1, <3>2 DEF MachineType
    <3>4. ControlInv' BY <2>1, <2>3, <2>4, <2>7, <3>1 DEF ControlInv, Minimising
    <3> QED BY <2>5, <3>3, <3>4, TypeSplits
  <2>8. CASE Quit("error") /\ UNCHANGED <<original, steps, env, i, j, accepted>>
    <3>1. MachineType' BY <1>t, <2>3, <2>4, <2>8 DEF MachineType, Quit
    <3>2. ControlInv' BY <2>8 DEF ControlInv, Minimising, Quit
    <3> QED BY <2>5, <3>1, <3>2, TypeSplits
  <2> QED BY <2>2, <2>6, <2>7, <2>8
<1>5. CASE CandidateFails
  <2>1. steps \in Steps BY <1>5 DEF CandidateFails, ControlInv, Minimising
  <2>2. judge' \in [Executions -> Verdicts \cup {Unknown}]
    <3>1. CASE pc = "remove" /\ Execute(<<FALSE, env, Without(steps, i)>>, NoObservation)
      <4>1. Without(steps, i) \in Steps BY <2>1, <3>1, WithoutIsCase DEF ControlInv
      <4> QED BY <3>1, <4>1, CaseExecutions, ExecuteKeeps
    <3>2. CASE pc = "args" /\ i > 0 /\ Execute(<<FALSE, env, Reduced(steps, i, j)>>, NoObservation)
      <4>1. i \in 1 .. Len(steps) /\ j \in 1 .. Arity BY <3>2 DEF ControlInv
      <4>2. Reduced(steps, i, j) \in Steps BY <2>1, <4>1, ReducedIsCase
      <4> QED BY <3>2, <4>2, CaseExecutions, ExecuteKeeps
    <3>3. CASE Execute(<<FALSE, "reduced", steps>>, NoObservation)
      BY <2>1, <3>3, CaseExecutions, ExecuteKeeps
    <3> QED BY <1>5, <3>1, <3>2, <3>3 DEF CandidateFails
  <2>3. /\ pc' = "idle" /\ exit' = "error"
        /\ UNCHANGED <<run, case, minimizer, findings, next, statuses, files>>
    BY <1>5 DEF CandidateFails, Quit
  <2>4. MachineType' BY <1>t, <2>2, <2>3 DEF MachineType, minimizer
  <2>5. ReportType' BY <2>3, ReportKept
  <2>6. ControlInv' BY <2>3 DEF ControlInv, Minimising
  <2> QED BY <2>4, <2>5, <2>6, TypeSplits
<1>6. CASE FinalRun
  <2>1. steps \in Steps BY <1>6 DEF FinalRun, ControlInv, Minimising
  <2>2. judge' \in [Executions -> Verdicts \cup {Unknown}]
    BY <1>6, <2>1, CaseExecutions, ExecuteKeeps DEF FinalRun
  <2>3. /\ \/ pc' = "observe" /\ UNCHANGED exit
           \/ pc' = "idle" /\ exit' = "error"
        /\ UNCHANGED <<run, case, minimizer, findings, next, statuses, files>>
    BY <1>6 DEF FinalRun, Quit
  <2>4. MachineType' BY <1>t, <2>2, <2>3 DEF MachineType, minimizer
  <2>5. ReportType' BY <2>3, ReportKept
  <2>6. ControlInv' BY <1>6, <2>3 DEF FinalRun, ControlInv, Minimising, minimizer
  <2> QED BY <2>4, <2>5, <2>6, TypeSplits
<1>7. CASE Observe
  <2>1. /\ steps \in Steps /\ start \in Steps /\ case >= 1 /\ original.class \in Reasons
        /\ statuses = <<>>
    BY <1>7 DEF Observe, ControlInv, Minimising
  <2>2. PICK v : /\ Execute(<<WithAuth, setting.env, steps>>, v)
                 /\ \/ /\ findings' = Append(findings,
                            [case |-> case, reason |-> original.class, start |-> start,
                             steps |-> steps, preserved |-> v.class = original.class])
                       /\ pc' = "generate" /\ UNCHANGED exit
                    \/ Quit("error") /\ UNCHANGED findings
    BY <1>7 DEF Observe
  <2>3. judge' \in [Executions -> Verdicts \cup {Unknown}]
    BY <2>1, <2>2, CaseExecutions, ExecuteKeeps
  <2>4. UNCHANGED <<run, case, minimizer, next, statuses, files>> BY <1>7 DEF Observe
  <2>5. MachineType' BY <1>t, <2>2, <2>3, <2>4 DEF MachineType, minimizer, Quit
  <2>6. ControlInv' BY <2>1, <2>2, <2>4 DEF ControlInv, Minimising, Quit
  <2>7. ReportType'
    <3> DEFINE f == [case |-> case, reason |-> original.class, start |-> start,
                     steps |-> steps, preserved |-> v.class = original.class]
               F == [case : 1 .. MaxCases, reason : Reasons, start : Steps,
                     steps : Steps, preserved : BOOLEAN]
    <3>1. case \in 1 .. MaxCases
      <4>1. case \in 0 .. setting.cases BY DEF TypeOK
      <4> QED BY <1>s, <2>1, <4>1, ConstantsAssumption
    <3>2. f \in F BY <2>1, <3>1
    <3>3. findings \in Seq(F) /\ next \in 1 .. Len(findings) + 1 BY DEF TypeOK
    <3>4. findings' \in Seq(F) /\ next' \in 1 .. Len(findings') + 1
      <4>1. CASE findings' = Append(findings, f)
        <5> HIDE DEF f, F
        <5> QED BY <2>4, <3>2, <3>3, <4>1
      <4>2. CASE UNCHANGED findings BY <2>4, <3>3, <4>2
      <4> QED BY <2>2, <4>1, <4>2
    <3> QED BY <2>4, <3>4 DEF ReportType, TypeOK, files
  <2> QED BY <2>5, <2>6, <2>7, TypeSplits
<1> QED BY <1>1, <1>2, <1>3, <1>4, <1>5, <1>6, <1>7

\* The actions on artifacts and evidence.
LEMMA CaseOutput ==
    ASSUME CaseInv, UNCHANGED setting,
           \/ WriteArtifact \/ WriteArtifactFails \/ EndWrites
           \/ Replay \/ EndReplays \/ WriteEvidence \/ WriteEvidenceFails
    PROVE  CaseInv'
<1> USE DEF CaseInv
<1>t. MachineType BY TypeSplits
<1>n. next \in 1 .. Len(findings) + 1 /\ Len(findings) \in Nat BY DEF TypeOK
<1>1. CASE WriteArtifact \/ WriteArtifactFails
  <2>1. /\ UNCHANGED <<judge, run, case, minimizer, findings, statuses, evidence>>
        /\ \/ pc = "write" /\ UNCHANGED <<pc, exit>>
           \/ pc' = "idle" /\ exit' = "error"
        /\ next' \in 1 .. Len(findings) + 1
    BY <1>1, <1>n DEF WriteArtifact, WriteArtifactFails, Quit
  <2>2. \A d \in disk' : d.artifact = <<>> \/ d.artifact \in [1 .. 1 -> Artifacts]
    <3>0. \A d \in disk : d.artifact = <<>> \/ d.artifact \in [1 .. 1 -> Artifacts]
      BY DEF TypeOK
    <3>1. CASE UNCHANGED disk BY <3>0, <3>1
    <3>2. CASE next <= Len(findings) /\ \E c \in {<<>>, <<Artifact(findings[next])>>} :
                 disk' = Overwritten(findings[next],
                             {[name |-> FileName(findings[next]), artifact |-> c]})
      <4>1. next \in 1 .. Len(findings) BY <1>n, <3>2
      <4>2. Artifact(findings[next]) \in Artifacts BY <4>1, FindingType
      <4>3. <<Artifact(findings[next])>> \in [1 .. 1 -> Artifacts] BY <4>2
      <4> QED BY <3>0, <3>2, <4>3 DEF Overwritten
    <3> QED BY <1>1, <3>1, <3>2 DEF WriteArtifact, WriteArtifactFails
  <2>3. MachineType' BY <1>t, <2>1 DEF MachineType, minimizer
  <2>4. ReportType' BY <2>1, <2>2 DEF TypeOK, ReportType
  <2>5. ControlInv' BY <2>1 DEF ControlInv, Minimising
  <2> QED BY <2>3, <2>4, <2>5, TypeSplits
<1>2. CASE EndWrites
  <2>1. /\ pc = "write" /\ pc' = (IF setting.replay THEN "replay" ELSE "evidence") /\ next' = 1
        /\ UNCHANGED <<judge, run, case, minimizer, findings, statuses, exit, files>>
    BY <1>2 DEF EndWrites
  <2>2. MachineType' BY <1>t, <2>1 DEF MachineType, minimizer
  <2>3. ReportType' BY <1>n, <2>1 DEF TypeOK, ReportType, files
  <2>4. ControlInv' BY <2>1 DEF ControlInv, Minimising
  <2> QED BY <2>2, <2>3, <2>4, TypeSplits
<1>3. CASE Replay
  <2>1. /\ pc = "replay" /\ next \in 1 .. Len(findings) /\ next' = next + 1
        /\ UNCHANGED <<pc, run, case, minimizer, findings, exit, files>>
    BY <1>3, <1>n DEF Replay
  <2>2. Artifact(findings[next]).auth = setting.auth /\ Artifact(findings[next]).env = setting.env
        /\ Artifact(findings[next]).steps = findings[next].steps
    BY DEF Artifact
  <2>3. findings[next].steps \in Steps BY <2>1, FindingType
  <2>4. <<WithAuth, setting.env, findings[next].steps>> \in Executions BY <2>3, CaseExecutions
  <2>5. PICK v : /\ Execute(<<WithAuth, setting.env, findings[next].steps>>, v)
                 /\ \E t \in {"Reproduced", "Mismatch", "Error"} : statuses' = Append(statuses, t)
    BY <1>3, <2>2 DEF Replay, WithAuth
  <2>6. judge' \in [Executions -> Verdicts \cup {Unknown}] BY <2>4, <2>5, ExecuteKeeps
  <2>7. statuses \in Seq({"Reproduced", "Mismatch", "Error"}) /\ Len(statuses) = next - 1
    BY <2>1 DEF TypeOK, ControlInv
  <2>8. /\ statuses' \in Seq({"Reproduced", "Mismatch", "Error"})
        /\ Len(statuses') = Len(statuses) + 1
    BY <2>5, <2>7
  <2>9. MachineType' BY <1>t, <2>1, <2>6 DEF MachineType, minimizer
  <2>10. ReportType' BY <2>1, <2>8 DEF TypeOK, ReportType, files
  <2>11. ControlInv' BY <2>1, <2>7, <2>8 DEF ControlInv, Minimising
  <2> QED BY <2>9, <2>10, <2>11, TypeSplits
<1>4. CASE EndReplays
  <2>1. /\ pc = "replay" /\ next = Len(findings) + 1 /\ pc' = "evidence"
        /\ UNCHANGED <<judge, run, case, minimizer, report, files>>
    BY <1>4 DEF EndReplays
  <2>2. MachineType' BY <1>t, <2>1 DEF MachineType, minimizer, report
  <2>3. ReportType' BY <2>1, ReportKept DEF report
  <2>4. ControlInv' BY <1>n, <2>1 DEF ControlInv, Minimising, report
  <2> QED BY <2>2, <2>3, <2>4, TypeSplits
<1>5. CASE WriteEvidence
  <2>1. /\ pc = "evidence" /\ pc' = "idle" /\ exit' \in {"clean", "findings"}
        /\ UNCHANGED <<judge, run, case, minimizer, findings, next, statuses, disk>>
    BY <1>5 DEF WriteEvidence, Quit
  <2> DEFINE E == [artifact : Artifacts, minimized : BOOLEAN,
                   status : {"Reproduced", "Mismatch", "Error", "NotReplayed"}]
             e(n) == [artifact |-> Artifact(findings[n]), minimized |-> findings[n].preserved,
                      status |-> IF setting.replay THEN statuses[n] ELSE "NotReplayed"]
  <2>2. evidence' = [n \in 1 .. Len(findings) |-> e(n)] BY <1>5 DEF WriteEvidence
  <2>3. ASSUME NEW n \in 1 .. Len(findings) PROVE e(n) \in E
    <3>1. Artifact(findings[n]) \in Artifacts /\ findings[n].preserved \in BOOLEAN
      BY FindingType
    <3>2. setting.replay => statuses[n] \in {"Reproduced", "Mismatch", "Error"}
      <4>1. setting.replay => n \in 1 .. Len(statuses) BY <2>1 DEF ControlInv
      <4>2. statuses \in Seq({"Reproduced", "Mismatch", "Error"}) BY DEF TypeOK
      <4> QED BY <4>1, <4>2
    <3> QED BY <3>1, <3>2
  <2>4. evidence' \in Seq(E)
    <3> HIDE DEF E, e
    <3> QED BY <1>n, <2>2, <2>3
  <2>5. MachineType' BY <1>t, <2>1 DEF MachineType, minimizer
  <2>6. ReportType' BY <2>1, <2>4 DEF TypeOK, ReportType
  <2>7. ControlInv' BY <2>1 DEF ControlInv, Minimising
  <2> QED BY <2>5, <2>6, <2>7, TypeSplits
<1>6. CASE WriteEvidenceFails
  <2>1. /\ pc' = "idle" /\ exit' = "error"
        /\ UNCHANGED <<judge, run, case, minimizer, findings, next, statuses, files>>
    BY <1>6 DEF WriteEvidenceFails, Quit
  <2>2. MachineType' BY <1>t, <2>1 DEF MachineType, minimizer
  <2>3. ReportType' BY <2>1, ReportKept
  <2>4. ControlInv' BY <2>1 DEF ControlInv, Minimising
  <2> QED BY <2>2, <2>3, <2>4, TypeSplits
<1> QED BY <1>1, <1>2, <1>3, <1>4, <1>5, <1>6

\* Every step keeps the types and the control.
LEMMA CaseStep == CaseInv /\ [Next]_vars => CaseInv'
<1> SUFFICES ASSUME CaseInv, [Next]_vars PROVE CaseInv' OBVIOUS
<1>1. CASE UNCHANGED vars
  <2>1. UNCHANGED <<setting, judge, pc, run, case, start, original, steps, env, i, j, accepted,
                    findings, next, statuses, disk, evidence, exit>>
    BY <1>1 DEF vars, work, minimizer, report, files
  <2> QED BY <2>1 DEF CaseInv, TypeOK, ControlInv, Minimising
<1>2. CASE Next
  BY <1>2, CaseRun, CaseMinimise, CaseOutput DEF Next, Campaign
<1> QED BY <1>1, <1>2

\* The campaign, the minimiser and the replay stay within their types: no index
\* of minimizer.rs is out of bounds, and every status belongs to a finding.
THEOREM FuzzTypeCorrect == Spec => []TypeOK
<1>1. CaseInv => TypeOK BY DEF CaseInv
<1> QED BY InitCase, CaseStep, <1>1, PTL DEF Spec

-----------------------------------------------------------------------------
\* What is known of the host stays known.
LEMMA Remembered ==
    ASSUME CaseInv, [Next]_vars, NEW y \in Executions, judge[y] # Unknown
    PROVE  judge'[y] = judge[y]
<1> USE DEF CaseInv
<1>1. CASE UNCHANGED judge BY <1>1
<1>2. CASE \E x \in Executions : \E v : Execute(x, v) BY <1>2, ExecuteKeeps
<1>3. CASE ExecuteCase
  <2>1. start \in Steps BY <1>3 DEF ExecuteCase, ControlInv
  <2> QED BY <1>2, <1>3, <2>1, CaseExecutions DEF ExecuteCase
<1>4. CASE FinalRun \/ Observe \/ TryEnv
  <2>1. steps \in Steps BY <1>4 DEF FinalRun, Observe, TryEnv, ControlInv, Minimising
  <2> QED BY <1>2, <1>4, <2>1, CaseExecutions DEF FinalRun, Observe, TryEnv
<1>5. CASE TryRemove \/ TryArg \/ CandidateFails
  <2>1. steps \in Steps BY <1>5 DEF TryRemove, TryArg, CandidateFails, ControlInv, Minimising
  <2>2. pc = "remove" => Without(steps, i) \in Steps
    BY <2>1, WithoutIsCase DEF ControlInv
  <2>3. pc = "args" /\ i > 0 => Reduced(steps, i, j) \in Steps
    <3>1. pc = "args" /\ i > 0 => i \in 1 .. Len(steps) /\ j \in 1 .. Arity BY DEF ControlInv
    <3> QED BY <2>1, <3>1, ReducedIsCase
  <2>4. \/ pc = "remove" /\ \E v : Execute(<<FALSE, env, Without(steps, i)>>, v)
        \/ pc = "args" /\ i > 0 /\ \E v : Execute(<<FALSE, env, Reduced(steps, i, j)>>, v)
        \/ \E v : Execute(<<FALSE, "reduced", steps>>, v)
    BY <1>5 DEF TryRemove, TryArg, CandidateFails
  <2> QED BY <1>2, <2>1, <2>2, <2>3, <2>4, CaseExecutions
<1>6. CASE Replay
  <2>1. next \in 1 .. Len(findings) BY <1>6 DEF Replay, TypeOK
  <2>2. <<WithAuth, setting.env, findings[next].steps>> \in Executions
    BY <2>1, FindingType, CaseExecutions
  <2> QED BY <1>2, <1>6, <2>2 DEF Replay, Artifact, WithAuth
<1> QED
  BY <1>1, <1>3, <1>4, <1>5, <1>6
  DEF Next, Campaign, vars, work, Begin, Generate, EndCases, SkipArg, SkipEnv,
      WriteArtifact, WriteArtifactFails, EndWrites, EndReplays, WriteEvidence, WriteEvidenceFails

-----------------------------------------------------------------------------
\* Plain campaigns record findings only

\* What the minimiser holds preserves the finding, in the very execution that
\* the campaign will observe.
PlainInv ==
    setting.auth = "NoAuth" /\ setting.env = "default" =>
        /\ pc \in Minimising =>
              /\ env = "default"
              /\ judge[<<FALSE, "default", steps>>] # Unknown
              /\ Preserves(judge[<<FALSE, "default", steps>>])
        /\ \A n \in 1 .. Len(findings) : findings[n].preserved

\* Every step keeps it: a candidate replaces the case only after it was run and
\* preserves the finding.
LEMMA PlainStep == CaseInv /\ PlainInv /\ [Next]_vars => PlainInv'
<1> SUFFICES ASSUME CaseInv, PlainInv, [Next]_vars,
                    setting'.auth = "NoAuth", setting'.env = "default"
             PROVE  /\ pc' \in Minimising =>
                          /\ env' = "default"
                          /\ judge'[<<FALSE, "default", steps'>>] # Unknown
                          /\ judge'[<<FALSE, "default", steps'>>].class = original'.class
                          /\ judge'[<<FALSE, "default", steps'>>].success = original'.success
                    /\ \A n \in 1 .. Len(findings') : findings'[n].preserved
  BY DEF PlainInv, Preserves
<1> USE DEF CaseInv
<1>s. UNCHANGED setting BY DEF Next, vars
<1>p. /\ pc \in Minimising =>
            /\ env = "default"
            /\ judge[<<FALSE, "default", steps>>] # Unknown
            /\ Preserves(judge[<<FALSE, "default", steps>>])
      /\ \A n \in 1 .. Len(findings) : findings[n].preserved
      /\ WithAuth = FALSE
  BY <1>s DEF PlainInv, WithAuth
<1>r. ASSUME NEW y \in Executions, judge[y] # Unknown PROVE judge'[y] = judge[y]
  BY <1>r, Remembered
\* The case, the finding and what is known of it stay.
<1>1. CASE pc \in Minimising /\ UNCHANGED <<env, steps, original, findings>>
  <2>1. steps \in Steps BY <1>1 DEF ControlInv
  <2>2. <<FALSE, "default", steps>> \in Executions BY <2>1 DEF Executions, Envs
  <2>3. judge'[<<FALSE, "default", steps>>] = judge[<<FALSE, "default", steps>>]
    BY <1>1, <1>p, <1>r, <2>2
  <2> QED BY <1>1, <1>p, <2>3 DEF Preserves
<1>2. CASE pc' \notin Minimising /\ UNCHANGED findings BY <1>2, <1>p
<1>3. CASE Begin BY <1>3 DEF Begin, Minimising
<1>4. CASE ExecuteCase
  <2>1. start \in Steps /\ UNCHANGED findings BY <1>4 DEF ExecuteCase, ControlInv
  <2>2. <<FALSE, "default", start>> \in Executions BY <2>1 DEF Executions, Envs
  <2>3. PICK v : /\ Execute(<<FALSE, "default", start>>, v)
                 /\ \/ pc' = "generate"
                    \/ /\ v.class \in Reasons
                       /\ original' = v /\ steps' = start /\ env' = "default"
                    \/ pc' = "idle"
    BY <1>4, <1>p, <1>s DEF ExecuteCase, Quit
  <2>4. judge'[<<FALSE, "default", start>>] = v BY <2>2, <2>3, ExecuteKeeps
  <2>5. v.class \in Reasons => v # Unknown BY DEF Unknown, Reasons
  <2> QED BY <1>p, <2>1, <2>3, <2>4, <2>5 DEF Minimising, Preserves
<1>5. CASE TryRemove \/ TryArg
  <2>1. /\ pc \in Minimising /\ steps \in Steps /\ original.class \in Reasons
        /\ UNCHANGED <<env, original, findings>>
    BY <1>5 DEF TryRemove, TryArg, ControlInv, Minimising, report
  <2>5. \E c \in Steps : \E v : /\ Execute(<<FALSE, "default", c>>, v)
                                /\ \/ Preserves(v) /\ steps' = c
                                   \/ UNCHANGED steps
    <3>1. CASE TryRemove
      <4>1. Without(steps, i) \in Steps BY <2>1, <3>1, WithoutIsCase DEF TryRemove, ControlInv
      <4> QED BY <1>p, <2>1, <3>1, <4>1 DEF TryRemove
    <3>2. CASE TryArg
      <4>1. i \in 1 .. Len(steps) /\ j \in 1 .. Arity BY <3>2 DEF TryArg, ControlInv
      <4>2. Reduced(steps, i, j) \in Steps BY <2>1, <4>1, ReducedIsCase
      <4> QED BY <1>p, <2>1, <3>2, <4>2 DEF TryArg
    <3> QED BY <1>5, <3>1, <3>2
  <2>6. PICK c \in Steps : \E v : /\ Execute(<<FALSE, "default", c>>, v)
                                  /\ \/ Preserves(v) /\ steps' = c
                                     \/ UNCHANGED steps
    BY <2>5
  <2>2. PICK v : /\ Execute(<<FALSE, "default", c>>, v)
                 /\ \/ Preserves(v) /\ steps' = c
                    \/ UNCHANGED steps
    BY <2>6
  <2>3. CASE UNCHANGED steps BY <1>1, <2>1, <2>3
  <2>4. CASE Preserves(v) /\ steps' = c
    <3>1. <<FALSE, "default", c>> \in Executions BY DEF Executions, Envs
    <3>2. judge'[<<FALSE, "default", c>>] = v BY <2>2, <3>1, ExecuteKeeps
    <3>3. v # Unknown BY <2>1, <2>4 DEF Preserves, Unknown, Reasons
    <3> QED BY <1>p, <2>1, <2>4, <3>2, <3>3 DEF Preserves
  <2> QED BY <2>2, <2>3, <2>4
<1>6. CASE TryEnv BY <1>6, <1>p DEF TryEnv, Minimising
<1>7. CASE Observe
  <2>1. /\ pc \in Minimising /\ steps \in Steps /\ findings \in Seq([case : 1 .. MaxCases,
             reason : Reasons, start : Steps, steps : Steps, preserved : BOOLEAN])
    BY <1>7 DEF Observe, ControlInv, Minimising, TypeOK
  <2>2. <<FALSE, "default", steps>> \in Executions BY <2>1 DEF Executions, Envs
  <2>3. PICK v : /\ Execute(<<FALSE, "default", steps>>, v)
                 /\ \/ /\ findings' = Append(findings,
                            [case |-> case, reason |-> original.class, start |-> start,
                             steps |-> steps, preserved |-> v.class = original.class])
                       /\ pc' = "generate"
                    \/ pc' = "idle" /\ UNCHANGED findings
    BY <1>7, <1>p, <1>s DEF Observe, Quit
  <2>4. v = judge[<<FALSE, "default", steps>>] BY <1>p, <2>1, <2>3 DEF Execute, Answers
  <2>5. v.class = original.class BY <1>p, <2>1, <2>4 DEF Preserves
  <2>6. \A n \in 1 .. Len(findings') : findings'[n].preserved
    <3> DEFINE f == [case |-> case, reason |-> original.class, start |-> start,
                     steps |-> steps, preserved |-> v.class = original.class]
    <3>1. f.preserved BY <2>5
    <3>2. CASE findings' = Append(findings, f)
      <4> HIDE DEF f
      <4> QED BY <1>p, <2>1, <3>1, <3>2
    <3> QED BY <1>p, <2>3, <3>2
  <2> QED BY <2>3, <2>6 DEF Minimising
<1> QED
  BY <1>1, <1>2, <1>3, <1>4, <1>5, <1>6, <1>7
  DEF Next, Campaign, vars, work, minimizer, report, Minimising, Quit, Generate, EndCases,
      SkipArg, SkipEnv, CandidateFails, FinalRun, WriteArtifact, WriteArtifactFails, EndWrites,
      Replay, EndReplays, WriteEvidence, WriteEvidenceFails

\* Without authorization entries and in the default environment, minimisation
\* never turns a finding into something else.
THEOREM PlainPreserved == Spec => []PlainFindingsArePreserved
<1>1. Init => PlainInv BY DEF Init, PlainInv, Minimising
<1>2. PlainInv => PlainFindingsArePreserved BY DEF PlainInv, PlainFindingsArePreserved
<1> QED BY InitCase, CaseStep, PlainStep, <1>1, <1>2, PTL DEF Spec

-----------------------------------------------------------------------------
\* The minimiser stops at a minimum

Rejected(x) == judge[x] # Unknown /\ ~Preserves(judge[x])
RemovalTried(k) == Rejected(<<FALSE, env, Without(steps, k)>>)
ArgTried(m, n) ==
    Reduced(steps, m, n) # steps => Rejected(<<FALSE, env, Reduced(steps, m, n)>>)

\* As long as a pass has accepted nothing, everything before its position was
\* tried on the calls as they are, and rejected.
ScanInv ==
    /\ pc = "remove" => ~accepted /\ \A k \in 2 .. Len(steps) : k > i => RemovalTried(k)
    /\ pc \in {"args", "env", "final", "observe"} /\ ~accepted =>
          \A k \in 2 .. Len(steps) : RemovalTried(k)
    /\ pc = "args" /\ ~accepted =>
          \A m \in 1 .. Len(steps), n \in 1 .. Arity :
              (m > i \/ (m = i /\ n > j)) => ArgTried(m, n)
    /\ pc \in {"env", "final", "observe"} /\ ~accepted =>
          \A m \in 1 .. Len(steps), n \in 1 .. Arity : ArgTried(m, n)
    /\ pc \in {"final", "observe"} =>
          ~accepted /\ (env = "custom" => Rejected(<<FALSE, "reduced", steps>>))

\* A pass that begins has nothing behind it.
LEMMA ScanBegins ==
    ASSUME NEW s \in Steps, BeginPass(s), steps' = s
    PROVE  ScanInv'
<1>1. Len(s) \in 1 .. MaxSteps /\ Arity \in Nat /\ MaxSteps \in Nat
  BY StepsAreSequences, ConstantsAssumption
<1>2. CASE Len(s) > 1 /\ pc' = "remove" /\ i' = Len(s) /\ accepted' = FALSE
  <2>1. \A k \in 2 .. Len(s) : ~(k > Len(s)) BY <1>1
  <2> QED BY <1>2, <2>1 DEF ScanInv
<1>3. CASE Len(s) <= 1 /\ pc' = "args" /\ i' = ArgsOf(s) /\ j' = Arity
  <2>1. \A k \in 2 .. Len(s) : FALSE BY <1>1, <1>3
  <2>2. \A m \in 1 .. Len(s), n \in 1 .. Arity : ~(m > i' \/ (m = i' /\ n > j'))
    BY <1>1, <1>3 DEF ArgsOf
  <2> QED BY <1>3, <2>1, <2>2 DEF ScanInv
<1> QED BY <1>2, <1>3 DEF BeginPass

\* An argument at its floor cannot be reduced.
LEMMA FloorIsStable ==
    ASSUME NEW s \in Steps, NEW m \in 1 .. Len(s), NEW n \in 1 .. Arity,
           Floor[s[m][n]] = s[m][n]
    PROVE  Reduced(s, m, n) = s
<1>1. s \in Seq(Calls) BY StepsAreSequences
<1>2. s[m] \in Calls BY <1>1
<1>3. [s[m] EXCEPT ![n] = s[m][n]] = s[m] BY <1>2 DEF Calls
<1>4. Reduced(s, m, n) = [s EXCEPT ![m] = s[m]] BY <1>3 DEF Reduced
<1> QED BY <1>1, <1>4

\* What is behind the next position is this one or was behind it before.
LEMMA AdvanceCovers ==
    ASSUME Advance, pc = "args", i \in Nat \ {0}, j \in Nat \ {0},
           NEW m \in Nat \ {0}, NEW n \in Nat \ {0}, n <= Arity,
           pc' = "env" \/ m > i' \/ (m = i' /\ n > j')
    PROVE  (m = i /\ n = j) \/ m > i \/ (m = i /\ n > j)
<1>1. CASE j > 1 /\ j' = j - 1 /\ UNCHANGED <<pc, i>>
  BY <1>1, ConstantsAssumption
<1>2. CASE j <= 1 /\ i > 1 /\ i' = i - 1 /\ j' = Arity /\ UNCHANGED pc
  BY <1>2, ConstantsAssumption
<1>3. CASE j <= 1 /\ i <= 1 BY <1>3, ConstantsAssumption
<1> QED BY <1>1, <1>2, <1>3 DEF Advance

\* What was tried stays tried as long as case and environment stay.
LEMMA TriedStays ==
    ASSUME CaseInv, [Next]_vars, steps \in Steps, UNCHANGED <<steps, env, original>>
    PROVE  /\ \A k \in 2 .. Len(steps) : RemovalTried(k) => RemovalTried(k)'
           /\ \A m \in 1 .. Len(steps), n \in 1 .. Arity : ArgTried(m, n) => ArgTried(m, n)'
           /\ Rejected(<<FALSE, "reduced", steps>>) => Rejected(<<FALSE, "reduced", steps>>)'
<1>1. ASSUME NEW y \in Executions, judge[y] # Unknown PROVE judge'[y] = judge[y]
  BY <1>1, Remembered
<1>2. TypeOK BY DEF CaseInv
<1>3. ASSUME NEW k \in 2 .. Len(steps), RemovalTried(k) PROVE RemovalTried(k)'
  <2>1. <<FALSE, env, Without(steps, k)>> \in Executions
    BY <1>2, WithoutIsCase, CaseExecutions
  <2> QED BY <1>1, <1>3, <2>1 DEF RemovalTried, Rejected, Preserves, Without
<1>4. ASSUME NEW m \in 1 .. Len(steps), NEW n \in 1 .. Arity, ArgTried(m, n)
      PROVE  ArgTried(m, n)'
  <2>1. <<FALSE, env, Reduced(steps, m, n)>> \in Executions
    BY <1>2, ReducedIsCase, CaseExecutions
  <2> QED BY <1>1, <1>4, <2>1 DEF ArgTried, Rejected, Preserves, Reduced
<1>5. ASSUME Rejected(<<FALSE, "reduced", steps>>)
      PROVE  Rejected(<<FALSE, "reduced", steps>>)'
  <2>1. <<FALSE, "reduced", steps>> \in Executions BY <1>2, CaseExecutions
  <2> QED BY <1>1, <1>5, <2>1 DEF Rejected, Preserves
<1> QED BY <1>3, <1>4, <1>5

\* Every step keeps the scan: a rejected candidate is one more that was tried, an
\* accepted one makes the pass start over.
LEMMA ScanStep == CaseInv /\ ScanInv /\ [Next]_vars => ScanInv'
<1> SUFFICES ASSUME CaseInv, ScanInv, [Next]_vars PROVE ScanInv' OBVIOUS
<1> USE DEF CaseInv
<1>1. CASE pc' \notin Minimising BY <1>1 DEF ScanInv, Minimising
<1>2. CASE ExecuteCase
  <2>1. start \in Steps BY <1>2 DEF ExecuteCase, ControlInv
  <2> QED BY <1>1, <1>2, <2>1, ScanBegins DEF ExecuteCase, Minimising, Quit
<1>3. CASE TryRemove
  <2>1. /\ steps \in Steps /\ i \in 2 .. Len(steps) /\ pc = "remove" /\ UNCHANGED <<env, original>>
    BY <1>3 DEF TryRemove, ControlInv, Minimising
  <2>2. Len(steps) \in Nat BY <2>1, StepsAreSequences
  <2>3. Without(steps, i) \in Steps BY <2>1, WithoutIsCase
  <2>4. <<FALSE, env, Without(steps, i)>> \in Executions BY <2>3, CaseExecutions
  <2>5. PICK v :
          /\ Execute(<<FALSE, env, Without(steps, i)>>, v)
          /\ \/ Preserves(v) /\ accepted' = TRUE /\ pc' = "args"
             \/ ~Preserves(v) /\ i > 2 /\ i' = i - 1 /\ UNCHANGED <<pc, steps, accepted>>
             \/ ~Preserves(v) /\ i = 2 /\ pc' = "args" /\ i' = ArgsOf(steps)
                /\ UNCHANGED <<steps, accepted>>
    BY <1>3 DEF TryRemove
  <2>6. CASE accepted' = TRUE /\ pc' = "args" BY <2>6 DEF ScanInv
  <2>7. CASE ~Preserves(v) /\ UNCHANGED <<steps, accepted>>
    <3>1. judge'[<<FALSE, env, Without(steps, i)>>] = v /\ v \in Verdicts
      BY <2>4, <2>5, ExecuteKeeps
    <3>2. v # Unknown BY <3>1 DEF Verdicts, Unknown, Reasons
    <3>3. ASSUME NEW k \in 2 .. Len(steps), k = i PROVE RemovalTried(k)'
      BY <2>1, <2>7, <3>1, <3>2, <3>3 DEF RemovalTried, Rejected, Preserves, Without
    <3>4. \A k \in 2 .. Len(steps) : k > i => RemovalTried(k)'
      BY <2>1, <2>7, TriedStays DEF ScanInv
    <3>5. ~accepted BY <2>1 DEF ScanInv
    <3>6. CASE i > 2 /\ i' = i - 1 /\ UNCHANGED pc
      <4>1. \A k \in 2 .. Len(steps) : k > i' => k = i \/ k > i BY <2>1, <2>2, <3>6
      <4> QED BY <2>1, <2>7, <3>3, <3>4, <3>5, <3>6, <4>1 DEF ScanInv
    <3>7. CASE i = 2 /\ pc' = "args" /\ i' = ArgsOf(steps)
      <4>1. \A k \in 2 .. Len(steps) : k = i \/ k > i BY <2>1, <2>2, <3>7
      <4>2. j' = Arity BY <1>3, <2>1 DEF TryRemove, ControlInv
      <4>3. \A m \in 1 .. Len(steps), n \in 1 .. Arity : ~(m > i' \/ (m = i' /\ n > j'))
        BY <2>2, <3>7, <4>2, ConstantsAssumption DEF ArgsOf
      <4> QED BY <2>7, <3>3, <3>4, <3>7, <4>1, <4>3 DEF ScanInv
    <3> QED BY <2>5, <2>7, <3>5, <3>6, <3>7
  <2> QED BY <2>5, <2>6, <2>7
<1>4. CASE TryArg
  <2>1. /\ steps \in Steps /\ i \in 1 .. Len(steps) /\ j \in 1 .. Arity /\ pc = "args"
        /\ UNCHANGED <<env, original>> /\ Advance
    BY <1>4 DEF TryArg, ControlInv, Minimising
  <2>2. Len(steps) \in Nat /\ Arity \in Nat BY <2>1, StepsAreSequences, ConstantsAssumption
  <2>3. <<FALSE, env, Reduced(steps, i, j)>> \in Executions
    BY <2>1, ReducedIsCase, CaseExecutions
  <2>4. PICK v : /\ Execute(<<FALSE, env, Reduced(steps, i, j)>>, v)
                 /\ \/ accepted' = TRUE
                    \/ ~Preserves(v) /\ UNCHANGED <<steps, accepted>>
    BY <1>4 DEF TryArg
  <2>5. pc' \in {"args", "env"} BY <2>1 DEF Advance
  <2>6. CASE accepted' = TRUE BY <2>5, <2>6 DEF ScanInv
  <2>7. CASE ~accepted /\ ~Preserves(v) /\ UNCHANGED <<steps, accepted>>
    <3>1. judge'[<<FALSE, env, Reduced(steps, i, j)>>] = v /\ v \in Verdicts
      BY <2>3, <2>4, ExecuteKeeps
    <3>2. v # Unknown BY <3>1 DEF Verdicts, Unknown, Reasons
    <3>3. ASSUME NEW m \in 1 .. Len(steps), NEW n \in 1 .. Arity, m = i, n = j
          PROVE  ArgTried(m, n)'
      BY <2>1, <2>7, <3>1, <3>2, <3>3 DEF ArgTried, Rejected, Preserves, Reduced
    <3>4. \A m \in 1 .. Len(steps), n \in 1 .. Arity :
              (m > i \/ (m = i /\ n > j)) => ArgTried(m, n)'
      BY <2>1, <2>7, TriedStays DEF ScanInv
    <3>5. \A k \in 2 .. Len(steps) : RemovalTried(k)'
      BY <2>1, <2>7, TriedStays DEF ScanInv
    <3>6. \A m \in 1 .. Len(steps), n \in 1 .. Arity :
              (pc' = "env" \/ m > i' \/ (m = i' /\ n > j')) => ArgTried(m, n)'
      <4>1. SUFFICES ASSUME NEW m \in 1 .. Len(steps), NEW n \in 1 .. Arity,
                            pc' = "env" \/ m > i' \/ (m = i' /\ n > j')
                     PROVE  ArgTried(m, n)'
        OBVIOUS
      <4>2. m \in Nat \ {0} /\ n \in Nat \ {0} /\ n <= Arity BY <2>2
      <4>3. i \in Nat \ {0} /\ j \in Nat \ {0} BY <2>1, <2>2
      <4>4. (m = i /\ n = j) \/ m > i \/ (m = i /\ n > j)
        BY <2>1, <4>1, <4>2, <4>3, AdvanceCovers
      <4> QED BY <3>3, <3>4, <4>4
    <3>7. CASE pc' = "args" BY <2>7, <3>5, <3>6, <3>7 DEF ScanInv
    <3>8. CASE pc' = "env"
      <4>1. \A m \in 1 .. Len(steps), n \in 1 .. Arity : ArgTried(m, n)' BY <3>6, <3>8, Zenon
      <4> QED BY <2>7, <3>5, <3>8, <4>1 DEF ScanInv
    <3> QED BY <2>5, <3>7, <3>8
  <2> QED BY <2>4, <2>6, <2>7
<1>5. CASE SkipArg
  <2>1. /\ steps \in Steps /\ i \in 0 .. Len(steps) /\ (i > 0 => j \in 1 .. Arity) /\ pc = "args"
        /\ UNCHANGED <<env, original, steps, accepted>>
    BY <1>5 DEF SkipArg, ControlInv, Minimising
  <2>2. Len(steps) \in Nat /\ Arity \in Nat BY <2>1, StepsAreSequences, ConstantsAssumption
  <2>3. CASE accepted BY <1>5, <2>1, <2>3 DEF SkipArg, Advance, ScanInv
  <2>4. CASE ~accepted /\ i > 0 /\ Floor[steps[i][j]] = steps[i][j] /\ Advance
    <3>1. i \in 1 .. Len(steps) /\ j \in 1 .. Arity BY <2>1, <2>2, <2>4
    <3>2. Reduced(steps, i, j) = steps BY <2>1, <2>4, <3>1, FloorIsStable
    <3>3. ASSUME NEW m \in 1 .. Len(steps), NEW n \in 1 .. Arity, m = i, n = j
          PROVE  ArgTried(m, n)'
      BY <2>1, <3>2, <3>3 DEF ArgTried, Reduced
    <3>4. \A m \in 1 .. Len(steps), n \in 1 .. Arity :
              (m > i \/ (m = i /\ n > j)) => ArgTried(m, n)'
      BY <2>1, <2>4, TriedStays DEF ScanInv
    <3>5. \A k \in 2 .. Len(steps) : RemovalTried(k)'
      BY <2>1, <2>4, TriedStays DEF ScanInv
    <3>6. \A m \in 1 .. Len(steps), n \in 1 .. Arity :
              (pc' = "env" \/ m > i' \/ (m = i' /\ n > j')) => ArgTried(m, n)'
      <4>1. SUFFICES ASSUME NEW m \in 1 .. Len(steps), NEW n \in 1 .. Arity,
                            pc' = "env" \/ m > i' \/ (m = i' /\ n > j')
                     PROVE  ArgTried(m, n)'
        OBVIOUS
      <4>2. m \in Nat \ {0} /\ n \in Nat \ {0} /\ n <= Arity BY <2>2
      <4>3. i \in Nat \ {0} /\ j \in Nat \ {0} BY <2>2, <3>1
      <4>4. (m = i /\ n = j) \/ m > i \/ (m = i /\ n > j)
        BY <2>1, <2>4, <4>1, <4>2, <4>3, AdvanceCovers
      <4> QED BY <3>3, <3>4, <4>4
    <3>7. pc' \in {"args", "env"} BY <2>1, <2>4 DEF Advance
    <3>8. CASE pc' = "args" BY <2>1, <3>5, <3>6, <3>8 DEF ScanInv
    <3>9. CASE pc' = "env"
      <4>1. \A m \in 1 .. Len(steps), n \in 1 .. Arity : ArgTried(m, n)' BY <3>6, <3>9, Zenon
      <4> QED BY <2>1, <3>5, <3>9, <4>1 DEF ScanInv
    <3> QED BY <3>7, <3>8, <3>9
  <2>5. CASE ~accepted /\ i = 0 /\ pc' = "env"
    <3>1. \A m \in 1 .. Len(steps), n \in 1 .. Arity : ArgTried(m, n)'
      <4>1. \A m \in 1 .. Len(steps) : m > i BY <2>2, <2>5
      <4>2. \A m \in 1 .. Len(steps), n \in 1 .. Arity : ArgTried(m, n)
        <5>1. \A m \in 1 .. Len(steps), n \in 1 .. Arity :
                  (m > i \/ (m = i /\ n > j)) => ArgTried(m, n)
          BY <2>1, <2>5 DEF ScanInv
        <5> QED BY <4>1, <5>1, Zenon
      <4> QED BY <2>1, <4>2, TriedStays
    <3>2. \A k \in 2 .. Len(steps) : RemovalTried(k)'
      BY <2>1, <2>5, TriedStays DEF ScanInv
    <3> QED BY <2>1, <2>5, <3>1, <3>2 DEF ScanInv
  <2> QED BY <1>5, <2>3, <2>4, <2>5 DEF SkipArg
<1>6. CASE TryEnv \/ SkipEnv
  <2>1. steps \in Steps /\ pc = "env" /\ UNCHANGED <<original, steps>>
    BY <1>6 DEF TryEnv, SkipEnv, ControlInv, Minimising
  <2>2. CASE BeginPass(steps) BY <2>1, <2>2, ScanBegins
  <2>3. CASE ~accepted /\ pc' = "final" /\ UNCHANGED <<env, i, j, accepted>>
    <3>1. env = "custom" => Rejected(<<FALSE, "reduced", steps>>)'
      <4>1. SUFFICES ASSUME env = "custom" PROVE Rejected(<<FALSE, "reduced", steps>>)' OBVIOUS
      <4>2. PICK v : Execute(<<FALSE, "reduced", steps>>, v) /\ ~Preserves(v)
        BY <1>6, <2>3, <4>1 DEF TryEnv, SkipEnv
      <4>3. judge'[<<FALSE, "reduced", steps>>] = v /\ v \in Verdicts
        BY <2>1, <4>2, CaseExecutions, ExecuteKeeps
      <4>4. v # Unknown BY <4>3 DEF Verdicts, Unknown, Reasons
      <4> QED BY <2>1, <4>2, <4>3, <4>4 DEF Rejected, Preserves
    <3>2. \A m \in 1 .. Len(steps), n \in 1 .. Arity : ArgTried(m, n)'
      BY <2>1, <2>3, TriedStays DEF ScanInv
    <3>3. \A k \in 2 .. Len(steps) : RemovalTried(k)'
      BY <2>1, <2>3, TriedStays DEF ScanInv
    <3> QED BY <2>1, <2>3, <3>1, <3>2, <3>3 DEF ScanInv
  <2> QED BY <1>6, <2>2, <2>3 DEF TryEnv, SkipEnv, EndPass
<1>7. CASE pc \in {"final", "observe"} /\ pc' \in {"final", "observe"}
           /\ UNCHANGED <<env, original, steps, accepted>>
  <2>1. steps \in Steps BY <1>7 DEF ControlInv, Minimising
  <2> QED BY <1>7, <2>1, TriedStays DEF ScanInv
<1>8. CASE UNCHANGED <<pc, env, original, steps, accepted, i, j, judge>>
  <2>1. CASE pc \notin Minimising BY <1>1, <1>8, <2>1
  <2>2. CASE pc \in Minimising
    <3>1. steps \in Steps BY <2>2 DEF ControlInv
    <3>2. /\ \A k \in 2 .. Len(steps) : RemovalTried(k) => RemovalTried(k)'
          /\ \A m \in 1 .. Len(steps), n \in 1 .. Arity : ArgTried(m, n) => ArgTried(m, n)'
          /\ Rejected(<<FALSE, "reduced", steps>>) => Rejected(<<FALSE, "reduced", steps>>)'
      BY <1>8, <3>1, TriedStays
    <3> QED BY <1>8, <3>2, Zenon DEF ScanInv
  <2> QED BY <2>1, <2>2
<1> QED
  BY <1>1, <1>2, <1>3, <1>4, <1>5, <1>6, <1>7, <1>8
  DEF Next, Campaign, vars, work, minimizer, report, Minimising, Quit, Begin, Generate, EndCases,
      CandidateFails, FinalRun, Observe, WriteArtifact, WriteArtifactFails, EndWrites,
      Replay, EndReplays, WriteEvidence, WriteEvidenceFails

\* When the minimiser stops, every candidate of its result has been run on the
\* host and does not preserve the finding.
THEOREM MinimiserStopsAtMinimum == Spec => []StoppedIsMinimal
<1>1. Init => ScanInv BY DEF Init, ScanInv
<1>2. CaseInv /\ ScanInv => StoppedIsMinimal
  <2> SUFFICES ASSUME CaseInv, ScanInv, pc \in {"final", "observe"},
                      NEW x \in Candidates(env, steps) \ {<<FALSE, env, steps>>}
               PROVE  Rejected(x)
    BY DEF StoppedIsMinimal, Rejected
  <2>1. ~accepted /\ (env = "custom" => Rejected(<<FALSE, "reduced", steps>>)) BY DEF ScanInv
  <2> DEFINE Removals == {<<FALSE, env, Without(steps, k)>> : k \in 2 .. Len(steps)}
             Reductions == {<<FALSE, env, Reduced(steps, p[1], p[2])>> :
                                p \in (1 .. Len(steps)) \X (1 .. Arity)}
  <2>2. CASE x \in Removals
    <3>1. PICK k \in 2 .. Len(steps) : x = <<FALSE, env, Without(steps, k)>> BY <2>2
    <3>2. RemovalTried(k) BY <2>1 DEF ScanInv
    <3> QED BY <3>1, <3>2 DEF RemovalTried
  <2>3. CASE x \in Reductions
    <3>1. PICK p \in (1 .. Len(steps)) \X (1 .. Arity) :
             x = <<FALSE, env, Reduced(steps, p[1], p[2])>>
      BY <2>3
    <3>2. p[1] \in 1 .. Len(steps) /\ p[2] \in 1 .. Arity OBVIOUS
    <3>3. ArgTried(p[1], p[2]) BY <2>1, <3>2 DEF ScanInv
    <3>4. Reduced(steps, p[1], p[2]) # steps BY <3>1
    <3> QED BY <3>1, <3>3, <3>4 DEF ArgTried
  <2>4. CASE env = "custom" /\ x = <<FALSE, "reduced", steps>> BY <2>1, <2>4
  <2>5. x \in Removals \/ x \in Reductions \/ (env = "custom" /\ x = <<FALSE, "reduced", steps>>)
    <3>1. x \in Candidates(env, steps) OBVIOUS
    <3>2. Candidates(env, steps) = Removals \cup Reductions
              \cup (IF env = "custom" THEN {<<FALSE, "reduced", steps>>} ELSE {})
      BY DEF Candidates
    <3> HIDE DEF Removals, Reductions
    <3> QED BY <3>1, <3>2
  <2> HIDE DEF Removals, Reductions
  <2> QED BY <2>2, <2>3, <2>4, <2>5
<1> QED BY InitCase, CaseStep, ScanStep, <1>1, <1>2, PTL DEF Spec

-----------------------------------------------------------------------------
\* Replay

\* The execution that a replay of the n-th finding repeats.
Repeated(n) == <<WithAuth, setting.env, findings[n].steps>>

\* A finding was observed in that execution, and a status tells what was seen.
SeenInv ==
    /\ \A n \in 1 .. Len(findings) :
          /\ judge[Repeated(n)] # Unknown
          /\ findings[n].preserved <=> judge[Repeated(n)].class = findings[n].reason
    /\ \A n \in 1 .. Len(statuses) :
          statuses[n] \in {"Reproduced", "Mismatch"} =>
              (statuses[n] = "Reproduced" <=> findings[n].preserved)
    /\ Len(statuses) <= Len(findings)
    /\ ReplayAgrees

\* Every step keeps it.
LEMMA SeenStep == CaseInv /\ SeenInv /\ [Next]_vars => SeenInv'
<1> SUFFICES ASSUME CaseInv, SeenInv, [Next]_vars PROVE SeenInv' OBVIOUS
<1> USE DEF CaseInv
<1>s. UNCHANGED setting BY DEF Next, vars
<1>w. WithAuth' = WithAuth BY <1>s DEF WithAuth
<1>r. ASSUME NEW y \in Executions, judge[y] # Unknown PROVE judge'[y] = judge[y]
  BY <1>r, Remembered
<1>x. ASSUME NEW n \in 1 .. Len(findings) PROVE Repeated(n) \in Executions
  BY FindingType, CaseExecutions DEF Repeated
<1>f. ASSUME NEW n \in 1 .. Len(findings)
      PROVE  /\ judge'[Repeated(n)] # Unknown
             /\ findings[n].preserved <=> judge'[Repeated(n)].class = findings[n].reason
  BY <1>r, <1>x DEF SeenInv
\* Findings as they are.
<1>u. ASSUME UNCHANGED findings
      PROVE  \A n \in 1 .. Len(findings') :
               /\ judge'[Repeated(n)'] # Unknown
               /\ findings'[n].preserved <=> judge'[Repeated(n)'].class = findings'[n].reason
  <2>1. ASSUME NEW n \in 1 .. Len(findings) PROVE Repeated(n)' = Repeated(n)
    BY <1>s, <1>w, <1>u DEF Repeated
  <2> QED BY <1>f, <1>u, <2>1
<1>1. CASE UNCHANGED <<findings, statuses, evidence>>
  BY <1>1, <1>u DEF SeenInv, ReplayAgrees
<1>2. CASE Begin BY <1>2 DEF Begin, SeenInv, ReplayAgrees, files
<1>3. CASE Observe /\ ~UNCHANGED findings
  <2>1. /\ steps \in Steps /\ statuses = <<>> /\ UNCHANGED <<statuses, evidence>>
        /\ original.class \in Reasons
    BY <1>3 DEF Observe, ControlInv, Minimising, files
  <2>2. PICK v : /\ Execute(<<WithAuth, setting.env, steps>>, v)
                 /\ findings' = Append(findings,
                            [case |-> case, reason |-> original.class, start |-> start,
                             steps |-> steps, preserved |-> v.class = original.class])
    BY <1>3 DEF Observe
  <2> DEFINE f == [case |-> case, reason |-> original.class, start |-> start,
                   steps |-> steps, preserved |-> v.class = original.class]
             x == <<WithAuth, setting.env, steps>>
  <2>3. judge'[x] = v /\ v \in Verdicts BY <2>1, <2>2, CaseExecutions, ExecuteKeeps
  <2>4. v # Unknown BY <2>3 DEF Verdicts, Unknown, Reasons
  <2>5. f.steps = steps /\ f.reason = original.class /\ f.preserved = (v.class = original.class)
    OBVIOUS
  <2>6. findings \in Seq([case : 1 .. MaxCases, reason : Reasons, start : Steps,
                          steps : Steps, preserved : BOOLEAN])
    BY DEF TypeOK
  <2>7. findings' = Append(findings, f) BY <2>2
  <2>8. /\ Len(findings') = Len(findings) + 1 /\ findings'[Len(findings) + 1] = f
        /\ \A n \in 1 .. Len(findings) : findings'[n] = findings[n]
    <3> HIDE DEF f
    <3> QED BY <2>6, <2>7
  <2>9. \A n \in 1 .. Len(findings') :
               /\ judge'[Repeated(n)'] # Unknown
               /\ findings'[n].preserved <=> judge'[Repeated(n)'].class = findings'[n].reason
    <3> SUFFICES ASSUME NEW n \in 1 .. Len(findings')
                 PROVE  /\ judge'[Repeated(n)'] # Unknown
                        /\ findings'[n].preserved
                             <=> judge'[Repeated(n)'].class = findings'[n].reason
      OBVIOUS
    <3>1. CASE n = Len(findings) + 1
      <4>1. Repeated(n)' = x BY <1>s, <1>w, <2>5, <2>8, <3>1 DEF Repeated
      <4>2. findings'[n] = f BY <2>8, <3>1
      <4> HIDE DEF f, x
      <4> QED BY <2>3, <2>4, <2>5, <4>1, <4>2
    <3>2. CASE n \in 1 .. Len(findings)
      <4>1. Repeated(n)' = Repeated(n) BY <1>s, <1>w, <2>8, <3>2 DEF Repeated
      <4> QED BY <1>f, <2>8, <3>2, <4>1
    <3>3. n = Len(findings) + 1 \/ n \in 1 .. Len(findings) BY <2>6, <2>8
    <3> QED BY <3>1, <3>2, <3>3
  <2>10. Len(statuses') <= Len(findings') BY <2>1, <2>6, <2>8
  <2> QED BY <2>1, <2>9, <2>10 DEF SeenInv, ReplayAgrees
<1>4. CASE Replay
  <2>1. /\ next \in 1 .. Len(findings) /\ Len(statuses) = next - 1
        /\ UNCHANGED <<findings, evidence>>
        /\ statuses \in Seq({"Reproduced", "Mismatch", "Error"})
    BY <1>4 DEF Replay, ControlInv, TypeOK, files
  <2>2. PICK t : /\ statuses' = Append(statuses, t)
                 /\ t \in {"Reproduced", "Mismatch", "Error"}
                 /\ t \in {"Reproduced", "Mismatch"} =>
                      (t = "Reproduced" <=> findings[next].preserved)
    <3>1. PICK v : /\ Execute(Repeated(next), v)
                   /\ statuses' = Append(statuses,
                        IF v = NoObservation THEN "Error"
                        ELSE IF v.class = findings[next].reason THEN "Reproduced" ELSE "Mismatch")
      BY <1>4 DEF Replay, Artifact, Repeated, WithAuth
    <3>2. v = judge[Repeated(next)] BY <2>1, <3>1 DEF Execute, Answers, SeenInv
    <3>3. findings[next].preserved <=> v.class = findings[next].reason
      BY <2>1, <3>2 DEF SeenInv
    <3> QED BY <3>1, <3>3
  <2>3. /\ Len(statuses') = next /\ statuses'[next] = t
        /\ \A n \in 1 .. Len(statuses) : statuses'[n] = statuses[n]
    BY <2>1, <2>2
  <2>4. \A n \in 1 .. Len(statuses') :
          statuses'[n] \in {"Reproduced", "Mismatch"} =>
              (statuses'[n] = "Reproduced" <=> findings'[n].preserved)
    <3> SUFFICES ASSUME NEW n \in 1 .. Len(statuses'), statuses'[n] \in {"Reproduced", "Mismatch"}
                 PROVE  statuses'[n] = "Reproduced" <=> findings'[n].preserved
      OBVIOUS
    <3>1. n = next \/ n \in 1 .. Len(statuses) BY <2>1, <2>3
    <3> QED BY <2>1, <2>2, <2>3, <3>1 DEF SeenInv
  <2> QED BY <1>u, <2>1, <2>3, <2>4 DEF SeenInv, ReplayAgrees
<1>5. CASE WriteEvidence
  <2>1. /\ UNCHANGED <<findings, statuses>>
        /\ setting.replay => Len(statuses) = Len(findings)
        /\ evidence' = [n \in 1 .. Len(findings) |->
               [artifact |-> Artifact(findings[n]), minimized |-> findings[n].preserved,
                status |-> IF setting.replay THEN statuses[n] ELSE "NotReplayed"]]
    BY <1>5 DEF WriteEvidence, ControlInv
  <2>2. Len(findings) \in Nat BY DEF TypeOK
  <2>3. Len(evidence') = Len(findings) BY <2>1, <2>2
  <2>4. ReplayAgrees'
    <3> SUFFICES ASSUME NEW n \in 1 .. Len(findings),
                        evidence'[n].status \in {"Reproduced", "Mismatch"}
                 PROVE  evidence'[n].status = "Reproduced" <=> evidence'[n].minimized
      BY <2>3 DEF ReplayAgrees
    <3>1. evidence'[n].minimized = findings[n].preserved BY <2>1
    <3>2. evidence'[n].status = IF setting.replay THEN statuses[n] ELSE "NotReplayed" BY <2>1
    <3>3. setting.replay /\ n \in 1 .. Len(statuses) /\ evidence'[n].status = statuses[n]
      BY <2>1, <3>2
    <3> QED BY <3>1, <3>3 DEF SeenInv
  <2> QED BY <1>u, <2>1, <2>4 DEF SeenInv
<1> QED
  BY <1>1, <1>2, <1>3, <1>4, <1>5
  DEF Next, Campaign, vars, work, minimizer, report, files, Generate, EndCases, ExecuteCase,
      TryRemove, TryArg, SkipArg, TryEnv, SkipEnv, CandidateFails, FinalRun, Observe,
      WriteArtifact, WriteArtifactFails, EndWrites, EndReplays, WriteEvidenceFails

\* Replaying an artifact reproduces the finding exactly if the campaign recorded
\* that the minimised case preserves it, in every authorization mode.
THEOREM ReplayIsFaithful == Spec => []ReplayAgrees
<1>1. Init => SeenInv BY DEF Init, SeenInv, ReplayAgrees
<1>2. SeenInv => ReplayAgrees BY DEF SeenInv
<1> QED BY InitCase, CaseStep, SeenStep, <1>1, <1>2, PTL DEF Spec

-----------------------------------------------------------------------------
\* Evidence

OnDisk(n) == [name |-> FileName(findings[n]), artifact |-> <<Artifact(findings[n])>>] \in disk

\* The findings are of different cases, so no artifact overwrites another of the
\* same campaign.
DiskInv ==
    /\ \A n \in 1 .. Len(findings) :
          /\ findings[n].case <= case
          /\ pc \in {"execute"} \cup Minimising => findings[n].case < case
    /\ \A m, n \in 1 .. Len(findings) : m < n => findings[m].case < findings[n].case
    /\ pc \in {"generate", "execute"} \cup Minimising => next = 1
    /\ pc = "write" => \A n \in 1 .. Len(findings) : n < next => OnDisk(n)
    /\ pc \in {"replay", "evidence"} => \A n \in 1 .. Len(findings) : OnDisk(n)
    /\ EvidenceIsBacked

\* Every step keeps it.
LEMMA DiskStep == CaseInv /\ DiskInv /\ [Next]_vars => DiskInv'
<1> SUFFICES ASSUME CaseInv, DiskInv, [Next]_vars PROVE DiskInv' OBVIOUS
<1> USE DEF CaseInv
<1>s. UNCHANGED setting BY DEF Next, vars
<1>n. /\ Len(findings) \in Nat /\ next \in 1 .. Len(findings) + 1 /\ case \in Nat
      /\ \A n \in 1 .. Len(findings) : findings[n].case \in Nat
  <2>1. case \in Nat BY SettingType DEF TypeOK
  <2>2. \A n \in 1 .. Len(findings) : findings[n].case \in Nat BY FindingType
  <2> QED BY <2>1, <2>2 DEF TypeOK
<1>d. ASSUME UNCHANGED <<findings, disk>>
      PROVE  \A n \in 1 .. Len(findings) : OnDisk(n) => OnDisk(n)'
  BY <1>s, <1>d DEF OnDisk, FileName, Artifact
<1>1. CASE UNCHANGED <<findings, disk, evidence, next, case, pc, exit>>
  BY <1>1, <1>d DEF DiskInv, EvidenceIsBacked
<1>2. CASE Begin BY <1>2 DEF Begin, DiskInv, EvidenceIsBacked, Minimising, files
<1>3. CASE Generate
  <2>1. pc' = "execute" /\ case' = case + 1 /\ UNCHANGED <<findings, next, disk, evidence>>
        /\ pc = "generate"
    BY <1>3 DEF Generate, report, files
  <2>2. \A n \in 1 .. Len(findings) : findings[n].case < case + 1
    BY <1>n DEF DiskInv
  <2>3. \A n \in 1 .. Len(findings) : findings[n].case <= case + 1 BY <1>n, <2>2
  <2> QED BY <2>1, <2>2, <2>3 DEF DiskInv, EvidenceIsBacked, Minimising
\* The case is in the minimiser or a campaign that failed is over.
<1>4. CASE /\ UNCHANGED <<findings, next, case, disk, evidence>>
           /\ \/ pc \in {"execute"} \cup Minimising /\ pc' \in {"generate"} \cup Minimising
              \/ pc' = "idle" /\ exit' = "error"
  BY <1>4 DEF DiskInv, EvidenceIsBacked, Minimising
<1>5. CASE Observe /\ ~UNCHANGED findings
  <2>1. /\ pc = "observe" /\ pc' = "generate" /\ UNCHANGED <<case, next, disk, evidence>>
        /\ \E b : findings' = Append(findings,
                     [case |-> case, reason |-> original.class, start |-> start,
                      steps |-> steps, preserved |-> b])
    BY <1>5 DEF Observe, files
  <2>2. PICK f : findings' = Append(findings, f) /\ f.case = case BY <2>1
  <2>3. findings \in Seq([case : 1 .. MaxCases, reason : Reasons, start : Steps,
                          steps : Steps, preserved : BOOLEAN])
    BY DEF TypeOK
  <2>4. /\ Len(findings') = Len(findings) + 1 /\ findings'[Len(findings) + 1].case = case
        /\ \A n \in 1 .. Len(findings) : findings'[n] = findings[n]
    BY <2>2, <2>3
  <2>5. \A n \in 1 .. Len(findings) : findings[n].case < case
    BY <2>1 DEF DiskInv, Minimising
  <2>6. \A n \in 1 .. Len(findings') : n = Len(findings) + 1 \/ n \in 1 .. Len(findings)
    BY <1>n, <2>4
  <2>7. \A n \in 1 .. Len(findings') : findings'[n].case <= case
    BY <1>n, <2>4, <2>5, <2>6
  <2>8. \A m, n \in 1 .. Len(findings') : m < n => findings'[m].case < findings'[n].case
    <3> SUFFICES ASSUME NEW m \in 1 .. Len(findings'), NEW n \in 1 .. Len(findings'), m < n
                 PROVE  findings'[m].case < findings'[n].case
      OBVIOUS
    <3>1. m \in 1 .. Len(findings) BY <1>n, <2>4
    <3>2. CASE n = Len(findings) + 1 BY <2>4, <2>5, <3>1, <3>2
    <3>3. CASE n \in 1 .. Len(findings) BY <2>4, <3>1, <3>3 DEF DiskInv
    <3> QED BY <2>6, <3>2, <3>3
  <2>9. next' = 1 BY <2>1 DEF DiskInv, Minimising
  <2> QED BY <2>1, <2>7, <2>8, <2>9 DEF DiskInv, EvidenceIsBacked, Minimising
<1>6. CASE EndCases
  <2>1. pc = "generate" /\ pc' = "write" /\ UNCHANGED <<findings, next, case, disk, evidence>>
    BY <1>6 DEF EndCases, report, files
  <2>2. next = 1 BY <2>1 DEF DiskInv
  <2>3. \A n \in 1 .. Len(findings) : ~(n < next) BY <2>2
  <2> QED BY <2>1, <2>3 DEF DiskInv, EvidenceIsBacked, Minimising
<1>7. CASE WriteArtifact
  <2>1. /\ pc = "write" /\ next \in 1 .. Len(findings) /\ next' = next + 1
        /\ UNCHANGED <<findings, case, evidence, pc, exit>>
        /\ disk' = {d \in disk : d.name # FileName(findings[next])}
                   \cup {[name |-> FileName(findings[next]),
                          artifact |-> <<Artifact(findings[next])>>]}
    BY <1>7, <1>n DEF WriteArtifact, Overwritten
  <2>2. ASSUME NEW n \in 1 .. Len(findings), n < next' PROVE OnDisk(n)'
    <3> DEFINE d == [name |-> FileName(findings[n]), artifact |-> <<Artifact(findings[n])>>]
    <3>1. d \in disk'
      <4>1. CASE n = next BY <2>1, <4>1
      <4>2. CASE n < next
        <5>1. d \in disk BY <2>1, <4>2 DEF DiskInv, OnDisk
        <5>2. findings[n].case < findings[next].case BY <2>1, <4>2 DEF DiskInv
        <5>3. findings[n].case # findings[next].case BY <1>n, <2>1, <5>2
        <5>4. d.name # FileName(findings[next]) BY <5>3 DEF FileName
        <5> QED BY <2>1, <5>1, <5>4
      <4> QED BY <2>1, <2>2, <4>1, <4>2
    <3> QED BY <1>s, <2>1, <3>1 DEF OnDisk, FileName, Artifact
  <2> QED BY <2>1, <2>2 DEF DiskInv, EvidenceIsBacked, Minimising
<1>8. CASE WriteArtifactFails
  BY <1>8 DEF WriteArtifactFails, Quit, DiskInv, EvidenceIsBacked, Minimising
<1>9. CASE EndWrites
  <2>1. /\ pc = "write" /\ next = Len(findings) + 1 /\ pc' \in {"replay", "evidence"}
        /\ UNCHANGED <<findings, case, disk, evidence>>
    BY <1>9 DEF EndWrites, files
  <2>2. \A n \in 1 .. Len(findings) : n < next BY <1>n, <2>1
  <2>3. \A n \in 1 .. Len(findings) : OnDisk(n)' BY <1>d, <2>1, <2>2 DEF DiskInv
  <2> QED BY <2>1, <2>3 DEF DiskInv, EvidenceIsBacked, Minimising
<1>10. CASE Replay \/ EndReplays
  <2>1. /\ pc = "replay" /\ pc' \in {"replay", "evidence"}
        /\ UNCHANGED <<findings, case, disk, evidence>>
    BY <1>10 DEF Replay, EndReplays, report, files
  <2>2. \A n \in 1 .. Len(findings) : OnDisk(n)' BY <1>d, <2>1 DEF DiskInv
  <2> QED BY <2>1, <2>2 DEF DiskInv, EvidenceIsBacked, Minimising
<1>11. CASE WriteEvidence
  <2>1. /\ pc = "evidence" /\ pc' = "idle" /\ UNCHANGED <<findings, case, disk>>
        /\ evidence' = [n \in 1 .. Len(findings) |->
               [artifact |-> Artifact(findings[n]), minimized |-> findings[n].preserved,
                status |-> IF setting.replay THEN statuses[n] ELSE "NotReplayed"]]
    BY <1>11 DEF WriteEvidence, Quit
  <2>2. Len(evidence') = Len(findings) BY <1>n, <2>1
  <2>3. ASSUME NEW n \in 1 .. Len(findings)
        PROVE  \E d \in disk' : d.artifact = <<evidence'[n].artifact>>
    <3>1. OnDisk(n) BY <2>1 DEF DiskInv
    <3>2. evidence'[n].artifact = Artifact(findings[n]) BY <2>1
    <3> QED BY <2>1, <3>1, <3>2 DEF OnDisk
  <2> QED BY <2>1, <2>2, <2>3 DEF DiskInv, EvidenceIsBacked, Minimising
<1> QED
  BY <1>1, <1>2, <1>3, <1>4, <1>5, <1>6, <1>7, <1>8, <1>9, <1>10, <1>11
  DEF Next, Campaign, vars, work, minimizer, report, files, Quit, Minimising, BeginPass, Advance,
      EndPass, ExecuteCase, TryRemove, TryArg, SkipArg, TryEnv, SkipEnv, CandidateFails, FinalRun,
      Observe, WriteEvidenceFails

\* After a campaign that did not fail, each finding of the evidence has a file
\* that holds exactly its artifact, whatever earlier campaigns left there.
THEOREM EvidenceHasFiles == Spec => []EvidenceIsBacked
<1>1. Init => DiskInv BY DEF Init, DiskInv, EvidenceIsBacked, Minimising
<1>2. DiskInv => EvidenceIsBacked BY DEF DiskInv
<1> QED BY InitCase, CaseStep, DiskStep, <1>1, <1>2, PTL DEF Spec

\* Evidence, artifacts and replays of a campaign agree, in every authorization
\* mode and over any leftovers in the directory.
THEOREM ArtifactsAreSound == Spec => []ArtifactsHold
<1>1. ReplayAgrees /\ EvidenceIsBacked => ArtifactsHold BY DEF ArtifactsHold
<1> QED BY <1>1, ReplayIsFaithful, EvidenceHasFiles, PTL
=============================================================================
