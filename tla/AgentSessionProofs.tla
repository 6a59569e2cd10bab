-------------------------- MODULE AgentSessionProofs --------------------------
(***************************************************************************)
(* Proofs about AgentSession for every workspace, budget, set of calls and *)
(* set of container reports: the type invariant, the inductive invariant   *)
(* SessionInv, the safety properties that follow from it, that every step  *)
(* of a session is a step of the abstract trial, and that a rehearsal of   *)
(* its transcript (AgentReplay) arrives where the session did.             *)
(***************************************************************************)
EXTENDS AgentReplay, TLAPS

(***************************************************************************)
(* Lemmas on the helpers.                                                  *)
(***************************************************************************)

\* An exception becomes one of three statuses, never a pass and never open.
LEMMA StatusIsFinal ==
  \A exception : StatusOf(exception) \in {"fail", "unverified", "lost"}
BY DEF StatusOf

\* Carrying out a call appends it, and leaves the earlier turns as they were.
LEMMA RecordAppends ==
  ASSUME trace \in Seq(Call), NEW c \in Call, Record(c)
  PROVE  /\ trace' \in Seq(Call)
         /\ Len(trace') = Len(trace) + 1
         /\ trace'[Len(trace) + 1] = c
         /\ \A i \in DOMAIN trace : i \in DOMAIN trace' /\ trace'[i] = trace[i]
         /\ \A i \in DOMAIN trace' : i \in DOMAIN trace \/ i = Len(trace) + 1
         /\ Len(trace) + 1 \in DOMAIN trace'
         /\ \A i \in DOMAIN trace : i \in Nat /\ i < Len(trace) + 1
BY DEF Record

\* The turns of a tool after one more call.
LEMMA AtAfter ==
  ASSUME trace \in Seq(Call), NEW c \in Call, Record(c), NEW tool
  PROVE  At(tool)' = At(tool) \cup (IF c.tool = tool THEN {Len(trace) + 1} ELSE {})
BY RecordAppends DEF At

\* A receipt is well typed, and a passing one has both counts.
LEMMA ReceiptTyped ==
  ASSUME TypeOK, NEW run \in [rc : Nat, counts : Seq(Nat)]
  PROVE  /\ ReceiptOf(run) \in Receipt
         /\ ReceiptOf(run) # None
         /\ ReceiptOf(run).graded = working
         /\ ReceiptOf(run).changed = Changed
         /\ ReceiptOf(run).passed =>
              run.rc = 0 /\ ReceiptOf(run).public >= 2 /\ ReceiptOf(run).private >= 5
<1>1. \A n \in {1, 2} : CountAt(run.counts, n) \in Nat
  BY DEF CountAt
<1>2. Changed \in SUBSET Files
  BY NamesAssumption DEF Changed
<1>3. ReceiptOf(run) \in Receipt
  BY <1>1, <1>2 DEF ReceiptOf, Receipt, TypeOK
<1>4. ReceiptOf(run) # None
  BY <1>3, TextAssumption
<1> QED
  BY <1>3, <1>4 DEF ReceiptOf

\* Every grade, a timed-out one included, is of an exit code and some counts.
LEMMA GradeIsOfARun ==
  ASSUME (\E run \in Runs : Grade(run)) \/ GradeTimesOut
  PROVE  \E run \in [rc : Nat, counts : Seq(Nat)] : Grade(run)
<1>1. [rc |-> 1, counts |-> <<>>] \in [rc : Nat, counts : Seq(Nat)]
  OBVIOUS
<1>2. CASE GradeTimesOut
  BY <1>1, <1>2 DEF GradeTimesOut
<1>3. CASE \E run \in Runs : Grade(run)
  BY <1>3, EnvironmentAssumption
<1> QED
  BY <1>2, <1>3

(***************************************************************************)
(* Types.                                                                  *)
(***************************************************************************)
LEMMA TypeInit == Init => TypeOK
<1> SUFFICES ASSUME Init PROVE TypeOK
  OBVIOUS
<1>1. trace \in Seq(Call) /\ Len(trace) <= Budget
  BY BudgetAssumption DEF Init
<1> QED
  BY <1>1, TextAssumption DEF Init, TypeOK, Verdicts, Causes

LEMMA TypeRaise ==
  ASSUME TypeOK, NEW exception, NEW who \in Causes, Raise(exception, who)
  PROVE  TypeOK'
BY StatusIsFinal DEF Raise, TypeOK, Verdicts

LEMMA TypeToolStep ==
  ASSUME TypeOK, NEW c \in Calls, ToolStep(c)
  PROVE  TypeOK'
<1>0. c \in Call
  BY EnvironmentAssumption
<1>1. CASE ListFiles(c)
  BY <1>0, <1>1, RecordAppends, BudgetAssumption DEF ListFiles, InLoop, TypeOK
<1>2. CASE ReadFile(c)
  BY <1>0, <1>2, RecordAppends, BudgetAssumption DEF ReadFile, ReadAllowed, InLoop, TypeOK
<1>3. CASE WriteFile(c)
  <2>1. c.path \in Writable /\ c.source \in Source
    BY <1>0, <1>3 DEF WriteFile, WriteAllowed, WriteReached, Call
  <2>2. working' \in Workspace
    BY <2>1, <1>3 DEF WriteFile, TypeOK, Workspace
  <2>3. trace' \in Seq(Call) /\ Len(trace') <= Budget
    BY <1>0, <1>3, RecordAppends, BudgetAssumption DEF WriteFile, InLoop, TypeOK
  <2>4. writes' \in SUBSET Writable
    BY <1>3, <2>1 DEF WriteFile, TypeOK
  <2> QED
    BY <1>3, <2>2, <2>3, <2>4 DEF WriteFile, TypeOK
<1>4. CASE RunTests(c)
  BY <1>0, <1>4, RecordAppends, BudgetAssumption DEF RunTests, InLoop, TypeOK
<1>5. CASE Finish(c)
  BY <1>0, <1>5, RecordAppends, BudgetAssumption DEF Finish, InLoop, TypeOK
<1>6. CASE RunTestsBreaks(c) \/ Reject(c) \/ RejectEncoding(c)
  BY <1>6, TypeRaise DEF RunTestsBreaks, Reject, RejectEncoding, Causes
<1> QED
  BY <1>1, <1>2, <1>3, <1>4, <1>5, <1>6 DEF ToolStep

LEMMA TypeGrade ==
  ASSUME TypeOK, NEW run \in [rc : Nat, counts : Seq(Nat)], Grade(run)
  PROVE  TypeOK'
BY ReceiptTyped DEF Grade, TypeOK, Causes

LEMMA TypeStep == TypeOK /\ [Next]_vars => TypeOK'
<1> SUFFICES ASSUME TypeOK, [Next]_vars PROVE TypeOK'
  OBVIOUS
<1>1. CASE NoCall
  <2>1. PICK fault \in ReplyFaults : Raise(fault.raises, fault.who)
    BY <1>1 DEF NoCall
  <2>2. fault.who \in Causes
    BY DEF ReplyFaults, Causes
  <2> QED
    BY <2>1, <2>2, TypeRaise
<1>2. CASE \E c \in Calls : ToolStep(c)
  BY <1>2, TypeToolStep
<1>3. CASE Exhausted \/ Incomplete \/ GradeBreaks
  BY <1>3, TypeRaise DEF Exhausted, Incomplete, GradeBreaks, Causes
<1>4. CASE (\E run \in Runs : Grade(run)) \/ GradeTimesOut
  BY <1>4, TypeGrade, GradeIsOfARun
<1>5. CASE Judge
  BY <1>5 DEF Judge, TypeOK, Verdicts
<1>6. CASE UNCHANGED vars
  BY <1>6 DEF vars, TypeOK
<1> QED
  BY <1>1, <1>2, <1>3, <1>4, <1>5, <1>6 DEF Next, Close

\* Every reachable state is well typed; in particular a session never carries
\* out more calls than max_tool_calls allows.
THEOREM TypeCorrect == Spec => []TypeOK
BY TypeInit, TypeStep, PTL DEF Spec

(***************************************************************************)
(* The inductive invariant.                                                *)
(***************************************************************************)
LEMMA SessionInit == Init => SessionInv
<1> SUFFICES ASSUME Init PROVE SessionInv
  OBVIOUS
<1>1. \A tool : At(tool) = {}
  BY DEF Init, At
<1>2. TypeOK
  BY TypeInit
<1> QED
  BY <1>1, <1>2 DEF Init, SessionInv, EditsInspected

\* An exception keeps the transcript and drops the receipt.
LEMMA SessionRaise ==
  ASSUME SessionInv, NEW exception, NEW who \in Causes, Raise(exception, who)
  PROVE  SessionInv'
<1>1. TypeOK'
  BY TypeRaise DEF SessionInv
<1>2. \A tool : At(tool)' = At(tool)
  BY DEF Raise, At
<1>3. EditsInspected' /\ (LatestEditTested' <=> LatestEditTested)
  BY <1>2 DEF SessionInv, EditsInspected, LatestEditTested, Raise
<1>4. verdict' \notin {"open", "pass"}
  BY StatusIsFinal DEF Raise
<1> QED
  BY <1>1, <1>2, <1>3, <1>4 DEF SessionInv, Raise

\* What a carried-out call leaves of the facts about the transcript.
LEMMA SessionRecord ==
  ASSUME SessionInv, InLoop, NEW c \in Call, Record(c)
  PROVE  /\ \A i \in At("write_file") \cup At("read_file") : i < Len(trace')
         /\ \A f \in inspected : \E j \in At("read_file")' : trace'[j].path = f
         /\ c.tool = "read_file" => \E j \in At("read_file")' : trace'[j].path = c.path
         /\ writes # {} => At("write_file")' # {}
         /\ c.tool = "write_file" => At("write_file")' # {}
         /\ c.tool # "write_file" /\ LatestEditTested => LatestEditTested'
         /\ c.tool = "run_tests" => LatestEditTested'
         /\ c.tool # "finish" => At("finish")' = {}
         /\ c.tool = "finish" => At("finish")' = {Len(trace')}
<1>1. trace \in Seq(Call) /\ At("finish") = {}
  BY DEF SessionInv, TypeOK, InLoop
<1>2. \A tool : At(tool) \subseteq DOMAIN trace
  BY DEF At
<1>3. \A i \in DOMAIN trace : i \in Nat /\ i < Len(trace') /\ trace'[i] = trace[i]
  BY <1>1, RecordAppends
<1>4. Len(trace') = Len(trace) + 1 /\ trace'[Len(trace')] = c
  BY <1>1, RecordAppends
<1>5. \A tool : At(tool)' = At(tool) \cup (IF c.tool = tool THEN {Len(trace')} ELSE {})
  BY <1>1, <1>4, AtAfter
<1>6. \A i \in At("write_file") \cup At("read_file") : i < Len(trace')
  BY <1>2, <1>3
<1>7. \A f \in inspected : \E j \in At("read_file")' : trace'[j].path = f
  BY <1>2, <1>3, <1>5 DEF SessionInv
<1>8. c.tool = "read_file" => \E j \in At("read_file")' : trace'[j].path = c.path
  BY <1>4, <1>5
<1>9. (writes # {} => At("write_file")' # {}) /\ (c.tool = "write_file" => At("write_file")' # {})
  BY <1>5 DEF SessionInv
<1>10. c.tool # "write_file" /\ LatestEditTested => LatestEditTested'
  BY <1>5 DEF LatestEditTested
<1>11. c.tool = "run_tests" => LatestEditTested'
  BY <1>5, <1>6 DEF LatestEditTested
<1>12. (c.tool # "finish" => At("finish")' = {}) /\ (c.tool = "finish" => At("finish")' = {Len(trace')})
  BY <1>1, <1>5
<1> QED
  BY <1>6, <1>7, <1>8, <1>9, <1>10, <1>11, <1>12

\* Carrying out a call keeps every edit after the inspections it needed.
LEMMA SessionInspected ==
  ASSUME SessionInv, InLoop, NEW c \in Call, Record(c),
         c.tool = "write_file" => Required \subseteq inspected
  PROVE  EditsInspected'
<1>1. trace \in Seq(Call)
  BY DEF SessionInv, TypeOK
<1>2. At("read_file") \subseteq At("read_file")'
  BY <1>1, AtAfter
<1>3. \A j \in At("read_file") : trace'[j] = trace[j] /\ j < Len(trace) + 1
  BY <1>1, RecordAppends DEF At
<1>4. SUFFICES ASSUME NEW i \in At("write_file")', NEW f \in Required
               PROVE  \E j \in At("read_file")' : j < i /\ trace'[j].path = f
  BY DEF EditsInspected
<1>5. CASE i \in At("write_file")
  BY <1>2, <1>3, <1>5 DEF SessionInv, EditsInspected
<1>6. CASE i = Len(trace) + 1 /\ c.tool = "write_file"
  <2>1. f \in inspected
    BY <1>6
  <2>2. PICK j \in At("read_file") : trace[j].path = f
    BY <2>1 DEF SessionInv
  <2> QED
    BY <1>2, <1>3, <1>6, <2>2
<1> QED
  BY <1>1, <1>5, <1>6, AtAfter

LEMMA SessionToolStep ==
  ASSUME SessionInv, NEW c \in Calls, ToolStep(c)
  PROVE  SessionInv'
<1>0. c \in Call
  BY EnvironmentAssumption
<1>1. TypeOK'
  BY TypeToolStep DEF SessionInv
<1>2. CASE ListFiles(c) \/ ReadFile(c)
  <2>1. InLoop /\ Record(c) /\ c.tool \in {"list_files", "read_file"}
    BY <1>2 DEF ListFiles, ReadFile, ListAllowed, ReadAllowed
  <2>2. EditsInspected'
    BY <1>0, <2>1, SessionInspected
  <2>3. \A f \in inspected' : \E j \in At("read_file")' : trace'[j].path = f
    BY <1>0, <1>2, <2>1, SessionRecord DEF ListFiles, ReadFile, ReadAllowed
  <2>4. /\ phase' = "turns" /\ receipt' = None /\ cause' = "none" /\ verdict' = "open"
        /\ UNCHANGED <<working, writes, tested, visibleSaw>>
    BY <1>2 DEF ListFiles, ReadFile, InLoop, SessionInv
  <2> QED
    BY <1>0, <1>1, <2>1, <2>2, <2>3, <2>4, SessionRecord DEF SessionInv
<1>3. CASE WriteFile(c)
  <2>1. InLoop /\ Record(c) /\ c.tool = "write_file" /\ c.path \in Writable
        /\ Required \subseteq inspected
    BY <1>3 DEF WriteFile, WriteAllowed, WriteReached
  <2>2. EditsInspected'
    BY <1>0, <2>1, SessionInspected
  <2>3. /\ phase' = "turns" /\ receipt' = None /\ cause' = "none" /\ verdict' = "open"
        /\ tested' = FALSE /\ UNCHANGED inspected
    BY <1>3 DEF WriteFile, InLoop, SessionInv
  <2>4. \A f \in Files \ Writable : working'[f] = Template[f]
    BY <1>3, <2>1 DEF WriteFile, SessionInv, TypeOK, Workspace
  <2> QED
    BY <1>0, <1>1, <2>1, <2>2, <2>3, <2>4, SessionRecord DEF SessionInv
<1>4. CASE RunTests(c)
  <2>1. InLoop /\ Record(c) /\ c.tool = "run_tests"
    BY <1>4 DEF RunTests, TestsAllowed
  <2>2. EditsInspected'
    BY <1>0, <2>1, SessionInspected
  <2>3. /\ phase' = "turns" /\ receipt' = None /\ cause' = "none" /\ verdict' = "open"
        /\ visibleSaw' = working' /\ UNCHANGED <<inspected, working, writes>>
    BY <1>4 DEF RunTests, InLoop, SessionInv
  <2> QED
    BY <1>0, <1>1, <2>1, <2>2, <2>3, SessionRecord DEF SessionInv
<1>5. CASE Finish(c)
  <2>1. InLoop /\ Record(c) /\ c.tool = "finish"
    BY <1>5 DEF Finish, FinishAllowed, FinishReached
  <2>2. EditsInspected'
    BY <1>0, <2>1, SessionInspected
  <2>3. /\ phase' = "grading" /\ receipt' = None /\ cause' = "none" /\ verdict' = "open"
        /\ UNCHANGED <<inspected, working, writes, tested, visibleSaw>>
    BY <1>5 DEF Finish, InLoop, SessionInv
  <2> QED
    BY <1>0, <1>1, <2>1, <2>2, <2>3, SessionRecord DEF SessionInv
<1>6. CASE RunTestsBreaks(c) \/ Reject(c) \/ RejectEncoding(c)
  BY <1>6, SessionRaise DEF RunTestsBreaks, Reject, RejectEncoding, Causes
<1> QED
  BY <1>2, <1>3, <1>4, <1>5, <1>6 DEF ToolStep

LEMMA SessionGrade ==
  ASSUME SessionInv, NEW run \in [rc : Nat, counts : Seq(Nat)], Grade(run)
  PROVE  SessionInv'
<1>1. TypeOK /\ TypeOK'
  BY TypeGrade DEF SessionInv
<1>2. (\A tool : At(tool)' = At(tool)) /\ Changed' = Changed /\ (Completed' <=> Completed)
  BY DEF Grade, At, Changed, Completed
<1>3. EditsInspected' /\ (LatestEditTested' <=> LatestEditTested)
  BY <1>2 DEF SessionInv, EditsInspected, LatestEditTested, Grade
<1>4. /\ receipt' # None /\ receipt'.graded = working /\ receipt'.changed = Changed
      /\ receipt'.passed => run.rc = 0 /\ receipt'.public >= 2 /\ receipt'.private >= 5
  BY <1>1, ReceiptTyped DEF Grade
<1>5. run.rc = 0 => cause' = "none"
  BY DEF Grade, NotStarted
<1>6. /\ phase = "grading" /\ phase' = "judging" /\ Completed /\ verdict' = "open"
      /\ At("finish") = {Len(trace)}
      /\ UNCHANGED <<working, inspected, writes, tested, trace, visibleSaw>>
  BY DEF Grade, SessionInv
<1> QED
  BY <1>1, <1>2, <1>3, <1>4, <1>5, <1>6 DEF SessionInv

LEMMA SessionJudge ==
  ASSUME SessionInv, Judge
  PROVE  SessionInv'
<1>1. TypeOK'
  BY TypeStep DEF SessionInv, Next
<1>2. (\A tool : At(tool)' = At(tool)) /\ Changed' = Changed /\ (Completed' <=> Completed)
  BY DEF Judge, At, Changed, Completed
<1>3. EditsInspected' /\ (LatestEditTested' <=> LatestEditTested)
  BY <1>2 DEF SessionInv, EditsInspected, LatestEditTested, Judge
<1>4. receipt' = receipt /\ (Accepts(receipt') <=> Accepts(receipt)) /\ Accepts(receipt)' = Accepts(receipt)
  BY DEF Judge, Accepts
<1> QED
  BY <1>1, <1>2, <1>3, <1>4 DEF SessionInv, Judge

LEMMA SessionStep == SessionInv /\ [Next]_vars => SessionInv'
<1> SUFFICES ASSUME SessionInv, [Next]_vars PROVE SessionInv'
  OBVIOUS
<1>1. CASE NoCall
  <2>1. PICK fault \in ReplyFaults : Raise(fault.raises, fault.who)
    BY <1>1 DEF NoCall
  <2>2. fault.who \in Causes
    BY DEF ReplyFaults, Causes
  <2> QED
    BY <2>1, <2>2, SessionRaise
<1>2. CASE \E c \in Calls : ToolStep(c)
  BY <1>2, SessionToolStep
<1>3. CASE Exhausted \/ Incomplete \/ GradeBreaks
  BY <1>3, SessionRaise DEF Exhausted, Incomplete, GradeBreaks, Causes
<1>4. CASE (\E run \in Runs : Grade(run)) \/ GradeTimesOut
  BY <1>4, SessionGrade, GradeIsOfARun
<1>5. CASE Judge
  BY <1>5, SessionJudge
<1>6. CASE UNCHANGED vars
  BY <1>6 DEF vars, SessionInv, TypeOK, EditsInspected, LatestEditTested, At, Completed,
              Changed, Accepts
<1> QED
  BY <1>1, <1>2, <1>3, <1>4, <1>5, <1>6 DEF Next, Close

\* The loop's flags, the receipt and the workspace agree with the transcript in
\* every reachable state.
THEOREM SessionCorrect == Spec => []SessionInv
BY SessionInit, SessionStep, PTL DEF Spec

(***************************************************************************)
(* What follows from it.                                                   *)
(***************************************************************************)

\* Only a session that inspected, edited, tested its latest edit and finished
\* is graded.
THEOREM GradedTranscriptHolds == Spec => []GradedTranscript
<1>1. SessionInv => GradedTranscript
  BY DEF SessionInv, GradedTranscript, Graded, Completed
<1> QED
  BY <1>1, SessionCorrect, PTL

\* The final grader judges the contents that the visible tests ran on last.
THEOREM GradedIsTestedHolds == Spec => []GradedIsTested
<1>1. SessionInv => GradedIsTested
  BY DEF SessionInv, GradedIsTested, Graded, Completed
<1> QED
  BY <1>1, SessionCorrect, PTL

\* A pass comes without a fault, from full test runs, on approved files only.
LEMMA SessionPassIsEarned == SessionInv => PassIsEarned
<1> SUFFICES ASSUME SessionInv, verdict = "pass" PROVE PassIsEarned
  BY DEF PassIsEarned
<1>1. /\ receipt # None /\ phase = "done" /\ Accepts(receipt)
      /\ receipt.graded = working /\ receipt.changed = Changed
  BY DEF SessionInv
<1>2. {f \in Files : receipt.graded[f] # Template[f]} = receipt.changed
  BY <1>1, NamesAssumption DEF SessionInv, Changed
<1>3. receipt.changed \subseteq Writable
  BY <1>1 DEF Changed
<1> QED
  BY <1>1, <1>2, <1>3 DEF SessionInv, PassIsEarned, Accepts

\* So it is in every reachable state of a session.
THEOREM PassIsEarnedHolds == Spec => []PassIsEarned
BY SessionPassIsEarned, SessionCorrect, PTL

\* Where the case's digests are those of the test files and its minimum counts
\* are no higher than the grader's own, work that passes every test passes.
THEOREM SolvedTaskPassesHolds ==
  ASSUME PublicDigest = ExpectedPublic, PrivateDigest = ExpectedPrivate,
         MinPublic <= 2, MinPrivate <= 5
  PROVE  Spec => []SolvedTaskPasses
<1>1. SessionInv => SolvedTaskPasses
  <2> SUFFICES ASSUME SessionInv, phase = "done", receipt # None, receipt.passed,
                      Writable \subseteq CaseWritable
               PROVE  verdict = "pass"
    BY DEF SolvedTaskPasses, Graded
  <2>1. receipt \in Receipt
    BY DEF SessionInv, TypeOK
  <2>2. receipt.changed # {} /\ receipt.changed \subseteq CaseWritable
    BY DEF SessionInv, Completed, Changed
  <2>3. receipt.public >= MinPublic /\ receipt.private >= MinPrivate
    BY <2>1, EnvironmentAssumption DEF SessionInv, Receipt
  <2> QED
    BY <2>2, <2>3 DEF SessionInv, Accepts
<1> QED
  BY <1>1, SessionCorrect, PTL

(***************************************************************************)
(* The session implements the abstract trial.                              *)
(***************************************************************************)
LEMMA RaiseGivesUp ==
  ASSUME SessionInv, phase \in {"turns", "grading"}, NEW exception, NEW who,
         Raise(exception, who)
  PROVE  Trial!GiveUp
BY StatusIsFinal DEF SessionInv, Raise, Trial!GiveUp

LEMMA ToolStepSimulates ==
  ASSUME SessionInv, NEW c \in Calls, ToolStep(c)
  PROVE  [Trial!Next]_(Trial!vars)
<1>0. c \in Call
  BY EnvironmentAssumption
<1>1. CASE ListFiles(c) \/ ReadFile(c) \/ Finish(c)
  BY <1>1 DEF ListFiles, ReadFile, Finish, Trial!vars
<1>2. CASE WriteFile(c)
  <2>1. working' \in [Files -> Source]
    BY <1>0, <1>2 DEF WriteFile, WriteAllowed, WriteReached, Call, SessionInv, TypeOK, Workspace
  <2>2. \A f \in Files \ Writable : working'[f] = working[f]
    BY <1>2 DEF WriteFile, WriteAllowed, WriteReached, SessionInv, TypeOK, Workspace
  <2>3. Trial!Edit
    BY <1>2, <2>1, <2>2 DEF WriteFile, InLoop, SessionInv, Trial!Edit
  <2> QED
    BY <2>3 DEF Trial!Next
<1>3. CASE RunTests(c)
  <2>1. Trial!Check
    BY <1>3 DEF RunTests, InLoop, SessionInv, Trial!Check
  <2> QED
    BY <2>1 DEF Trial!Next
<1>4. CASE RunTestsBreaks(c) \/ Reject(c) \/ RejectEncoding(c)
  BY <1>4, RaiseGivesUp DEF RunTestsBreaks, Reject, RejectEncoding, InLoop, Trial!Next
<1> QED
  BY <1>1, <1>2, <1>3, <1>4 DEF ToolStep

LEMMA GradeSimulates ==
  ASSUME SessionInv, NEW run \in [rc : Nat, counts : Seq(Nat)], Grade(run)
  PROVE  Trial!Grade
<1>1. receipt = None /\ verdict = "open" /\ Completed
  BY DEF Grade, SessionInv
<1>2. receipt' # None /\ receipt'.graded = working
  BY ReceiptTyped DEF Grade, SessionInv
<1>3. working # Template
  BY <1>1 DEF Completed, Changed
<1>4. TestCallRequired => visibleSaw = working
  BY <1>1 DEF Completed, SessionInv
<1> QED
  BY <1>1, <1>2, <1>3, <1>4 DEF Grade, Trial!Grade

LEMMA StepSimulates == SessionInv /\ [Next]_vars => [Trial!Next]_(Trial!vars)
<1> SUFFICES ASSUME SessionInv, [Next]_vars PROVE [Trial!Next]_(Trial!vars)
  OBVIOUS
<1>1. CASE NoCall \/ Exhausted \/ Incomplete \/ GradeBreaks
  <2>1. phase \in {"turns", "grading"} /\ \E exception, who : Raise(exception, who)
    BY <1>1 DEF NoCall, InLoop, Exhausted, Incomplete, GradeBreaks
  <2> QED
    BY <2>1, RaiseGivesUp DEF Trial!Next
<1>2. CASE \E c \in Calls : ToolStep(c)
  BY <1>2, ToolStepSimulates
<1>3. CASE (\E run \in Runs : Grade(run)) \/ GradeTimesOut
  BY <1>3, GradeSimulates, GradeIsOfARun DEF Trial!Next
<1>4. CASE Judge
  <2>1. receipt # None /\ receipt \in Receipt /\ receipt.graded # None
    BY <1>4, TextAssumption DEF Judge, SessionInv, TypeOK, Receipt
  <2>2. verdict = "open" /\ verdict' \in {"pass", "fail"}
    BY <1>4 DEF Judge, SessionInv
  <2>3. Trial!Settle
    BY <1>4, <2>1, <2>2 DEF Judge, Trial!Settle
  <2> QED
    BY <2>3 DEF Trial!Next
<1>5. CASE UNCHANGED vars
  BY <1>5 DEF vars, Trial!vars
<1> QED
  BY <1>1, <1>2, <1>3, <1>4, <1>5 DEF Next, Close

\* Every session starts as the abstract trial does, and each of its steps is a
\* step of the trial or changes nothing the trial speaks of.
THEOREM SessionImplementsTrial == Spec => TrialSafety
<1>1. Init => Trial!Init
  BY DEF Init, Trial!Init
<1> QED
  BY <1>1, StepSimulates, SessionCorrect, PTL DEF Spec, TrialSafety

(***************************************************************************)
(* The rehearsal of a transcript.                                          *)
(***************************************************************************)

\* The rehearsal's state after each call of the transcript t, as Replayed
\* builds it: f[n] is what the first n calls leave.
Rehearsal(t, f) == f = [n \in 0..Len(t) |-> IF n = 0 THEN Fresh ELSE Step(f[n - 1], t[n])]

\* Where a rehearsal of the session so far should be.
Rehearsed == [working |-> working, seen |-> inspected, writes |-> writes,
              tested |-> At("run_tests") # {}, ended |-> At("finish") # {}]

\* The rehearsal of the transcript exists, and follows the session; what was
\* not written is as it was.
ReplayInv == /\ \A f \in Files \ writes : working[f] = Template[f]
             /\ \E f : Rehearsal(trace, f)
             /\ \A f : Rehearsal(trace, f) => f[Len(trace)] = Rehearsed

\* What Replayed computes is the end of a rehearsal, where there is one.
LEMMA ReplayedIsARehearsal ==
  ASSUME \E f : Rehearsal(trace, f)
  PROVE  \E f : Rehearsal(trace, f) /\ Replayed(trace) = f[Len(trace)]
BY DEF Replayed, Rehearsal

\* The transcript u is t and one more call.
OneMore(t, u, c) == /\ Len(t) \in Nat /\ Len(u) = Len(t) + 1 /\ u[Len(t) + 1] = c
                    /\ \A n \in 1..Len(t) : u[n] = t[n]

\* A rehearsal of u is a rehearsal of t, and one step more.
StepMore(t, u, c) == /\ (\E f : Rehearsal(t, f)) => \E g : Rehearsal(u, g)
                     /\ \A g : Rehearsal(u, g) =>
                          \E f : Rehearsal(t, f) /\ g[Len(u)] = Step(f[Len(t)], c)

LEMMA RehearsalOfLonger ==
  ASSUME NEW t, NEW u, NEW c, OneMore(t, u, c)
  PROVE  StepMore(t, u, c)
<1>1. /\ Len(t) \in Nat /\ Len(u) = Len(t) + 1 /\ u[Len(t) + 1] = c
      /\ \A n \in 1..Len(t) : u[n] = t[n]
  BY DEF OneMore
<1>2. ASSUME NEW f, Rehearsal(t, f) PROVE \E g : Rehearsal(u, g)
  <2> DEFINE g == [n \in 0..Len(u) |-> IF n = 0 THEN Fresh
                                       ELSE Step(f[n - 1], u[n])]
  <2>1. \A n \in 0..Len(t) : f[n] = IF n = 0 THEN Fresh ELSE Step(f[n - 1], t[n])
    BY <1>2 DEF Rehearsal
  <2>2. \A n \in 0..Len(t) : g[n] = f[n]
    BY <1>1, <2>1
  <2>3. ASSUME NEW n \in 0..Len(u), n # 0 PROVE n - 1 \in 0..Len(t) /\ g[n - 1] = f[n - 1]
    <3>1. n - 1 \in 0..Len(t)
      BY <1>1, <2>3
    <3> QED
      BY <2>2, <3>1
  <2>4. g = [n \in 0..Len(u) |-> IF n = 0 THEN Fresh ELSE Step(g[n - 1], u[n])]
    BY <2>3
  <2> QED
    BY <2>4 DEF Rehearsal
<1>3. ASSUME NEW g, Rehearsal(u, g)
      PROVE  \E f : Rehearsal(t, f) /\ g[Len(u)] = Step(f[Len(t)], c)
  <2> DEFINE f == [n \in 0..Len(t) |-> g[n]]
  <2>1. \A n \in 0..Len(u) : g[n] = IF n = 0 THEN Fresh ELSE Step(g[n - 1], u[n])
    BY <1>3 DEF Rehearsal
  <2>2. \A n \in 0..Len(t) : n # 0 => f[n - 1] = g[n - 1] /\ u[n] = t[n]
    BY <1>1
  <2>3. \A n \in 0..Len(t) : f[n] = IF n = 0 THEN Fresh ELSE Step(f[n - 1], t[n])
    BY <1>1, <2>1, <2>2
  <2>4. Rehearsal(t, f)
    BY <2>3 DEF Rehearsal
  <2>5. g[Len(u)] = Step(f[Len(t)], c)
    BY <1>1, <2>1
  <2> HIDE DEF f
  <2> QED
    BY <2>4, <2>5
<1> QED
  BY <1>2, <1>3 DEF StepMore

LEMMA RehearsalGrows ==
  ASSUME trace \in Seq(Call), NEW c \in Call, Record(c)
  PROVE  /\ (\E f : Rehearsal(trace, f)) => \E g : Rehearsal(trace', g)
         /\ \A g : Rehearsal(trace', g) =>
              \E f : Rehearsal(trace, f) /\ g[Len(trace')] = Step(f[Len(trace)], c)
<1>1. OneMore(trace, trace', c)
  BY RecordAppends DEF OneMore
<1>2. StepMore(trace, trace', c)
  BY <1>1, RehearsalOfLonger
<1> QED
  BY <1>2 DEF StepMore

\* A call that the session carries out is carried out in the rehearsal too, to
\* the same effect.
LEMMA RehearsedStep ==
  ASSUME SessionInv, NEW c \in Call,
         ListFiles(c) \/ ReadFile(c) \/ WriteFile(c) \/ RunTests(c) \/ Finish(c)
  PROVE  Step(Rehearsed, c) = Rehearsed'
<1>1. trace \in Seq(Call) /\ At("finish") = {} /\ working \in Workspace
  BY DEF SessionInv, TypeOK, InLoop, ListFiles, ReadFile, WriteFile, RunTests, Finish
<1>2. Record(c)
  BY DEF ListFiles, ReadFile, WriteFile, RunTests, Finish
<1>3. \A tool : At(tool)' # {} <=> At(tool) # {} \/ c.tool = tool
  BY <1>1, <1>2, AtAfter
<1>4. Rehearsed # Rejected /\ ~Rehearsed.ended
  <2>1. working # None
    BY <1>1, TextAssumption
  <2> QED
    BY <1>1, <2>1 DEF Rehearsed, Rejected, Fresh
<1>5. /\ ListAllowed(c) => In(Rehearsed)!ListAllowed(c)
      /\ ReadAllowed(c) => In(Rehearsed)!ReadAllowed(c)
      /\ WriteAllowed(c) => In(Rehearsed)!WriteAllowed(c)
      /\ FinishAllowed(c) => In(Rehearsed)!FinishAllowed(c)
  BY DEF ListAllowed, In!ListAllowed, ReadAllowed, In!ReadAllowed, WriteAllowed,
         In!WriteAllowed, WriteReached, In!WriteReached, FinishAllowed, In!FinishAllowed,
         FinishReached, In!FinishReached, Rehearsed
<1>6. StepAllowed(Rehearsed, c)
  BY <1>5 DEF StepAllowed, ListFiles, ReadFile, WriteFile, RunTests, Finish, TestsAllowed
<1>7. Step(Rehearsed, c) =
        [working |-> IF c.tool = "write_file" THEN [working EXCEPT ![c.path] = c.source]
                     ELSE working,
         seen    |-> IF c.tool = "read_file" THEN inspected \cup {c.path} ELSE inspected,
         writes  |-> IF c.tool = "write_file" THEN writes \cup {c.path} ELSE writes,
         tested  |-> At("run_tests") # {} \/ c.tool = "run_tests",
         ended   |-> c.tool = "finish"]
  BY <1>4, <1>6 DEF Step, SeenAfter, TestedAfter, Rehearsed
<1>8. Rehearsed' = [working |-> working', seen |-> inspected', writes |-> writes',
                    tested |-> At("run_tests") # {} \/ c.tool = "run_tests",
                    ended |-> c.tool = "finish"]
  BY <1>1, <1>3 DEF Rehearsed
<1>9. /\ working' = IF c.tool = "write_file" THEN [working EXCEPT ![c.path] = c.source]
                     ELSE working
      /\ inspected' = IF c.tool = "read_file" THEN inspected \cup {c.path} ELSE inspected
      /\ writes' = IF c.tool = "write_file" THEN writes \cup {c.path} ELSE writes
  BY DEF ListFiles, ReadFile, WriteFile, RunTests, Finish, ListAllowed, ReadAllowed,
         WriteAllowed, WriteReached, TestsAllowed, FinishAllowed, FinishReached
<1> QED
  BY <1>7, <1>8, <1>9

LEMMA ReplayInit == Init => ReplayInv
<1> SUFFICES ASSUME Init PROVE ReplayInv
  OBVIOUS
<1> DEFINE f == [n \in {0} |-> Fresh]
<1>1. trace = <<>> /\ 0..Len(trace) = {0}
  BY DEF Init
<1>2. f = [n \in 0..Len(trace) |-> IF n = 0 THEN Fresh ELSE Step(f[n - 1], trace[n])]
  BY <1>1
<1>3. Rehearsed = Fresh
  <2>1. \A tool : At(tool) = {}
    BY DEF Init, At
  <2> QED
    BY <2>1 DEF Rehearsed, Fresh, Init
<1>4. \A g : Rehearsal(trace, g) => g[Len(trace)] = Fresh
  BY <1>1 DEF Rehearsal
<1>5. \A g \in Files : working[g] = Template[g]
  BY DEF Init
<1> QED
  BY <1>2, <1>3, <1>4, <1>5 DEF ReplayInv, Rehearsal

LEMMA ReplayStep == SessionInv /\ ReplayInv /\ [Next]_vars => ReplayInv'
<1> SUFFICES ASSUME SessionInv, ReplayInv, [Next]_vars PROVE ReplayInv'
  OBVIOUS
<1>1. CASE \E c \in Calls : ListFiles(c) \/ ReadFile(c) \/ WriteFile(c) \/ RunTests(c) \/ Finish(c)
  <2>1. PICK c \in Calls : ListFiles(c) \/ ReadFile(c) \/ WriteFile(c) \/ RunTests(c) \/ Finish(c)
    BY <1>1
  <2>2. c \in Call /\ trace \in Seq(Call)
    BY EnvironmentAssumption DEF SessionInv, TypeOK
  <2>3. Record(c)
    BY <2>1 DEF ListFiles, ReadFile, WriteFile, RunTests, Finish
  <2>4. Step(Rehearsed, c) = Rehearsed'
    BY <2>1, <2>2, RehearsedStep
  <2>5. \A f \in Files \ writes' : working'[f] = Template[f]
    <3>1. \A f \in Files : writes \subseteq writes' /\ (f \in writes' \/ working'[f] = working[f])
      BY <2>1 DEF SessionInv, TypeOK, Workspace, ListFiles, ReadFile, WriteFile, RunTests, Finish
    <3> QED
      BY <3>1 DEF ReplayInv
  <2>6. \E g : Rehearsal(trace', g)
    BY <2>2, <2>3, RehearsalGrows DEF ReplayInv
  <2>7. \A g : Rehearsal(trace', g) => g[Len(trace')] = Rehearsed'
    BY <2>2, <2>3, <2>4, RehearsalGrows DEF ReplayInv
  <2> QED
    BY <2>5, <2>6, <2>7 DEF ReplayInv
<1>2. CASE UNCHANGED <<working, inspected, writes, trace>>
  <2>1. Rehearsed' = Rehearsed
    BY <1>2 DEF Rehearsed, At
  <2> QED
    BY <1>2, <2>1 DEF ReplayInv, Rehearsal
<1>3. CASE \E exception, who : Raise(exception, who)
  BY <1>2, <1>3 DEF Raise
<1>4. CASE (\E run \in Runs : Grade(run)) \/ GradeTimesOut \/ Judge \/ UNCHANGED vars
  BY <1>2, <1>4 DEF Grade, GradeTimesOut, Judge, vars
<1> QED
  BY <1>1, <1>3, <1>4 DEF Next, NoCall, ToolStep, RunTestsBreaks, Reject, RejectEncoding,
                          Exhausted, Close, Incomplete, GradeBreaks

\* The rehearsal of any transcript is where the session is that wrote it.
THEOREM ReplayFollows == Spec => [](SessionInv /\ ReplayInv)
BY SessionInit, SessionStep, ReplayInit, ReplayStep, PTL DEF Spec

\* What the rehearsal of a finished session says.
LEMMA ReplayOfAFinish ==
  ASSUME SessionInv, ReplayInv, At("finish") = {Len(trace)}
  PROVE  /\ Replayed(trace) = Rehearsed
         /\ Sources(Replayed(trace)) = [f \in Changed |-> working[f]]
         /\ ReplayAccepts(trace) <=> /\ writes # {} /\ Changed # {}
                                     /\ At("run_tests") # {} \/ ~TestCallRequired
<1>1. Replayed(trace) = Rehearsed
  BY ReplayedIsARehearsal DEF ReplayInv
<1>2. Sources(Replayed(trace)) = [f \in Changed |-> working[f]]
  BY <1>1 DEF Sources, Changed, Rehearsed
<1>3. Len(trace) \in 1..Budget
  <2>1. Len(trace) \in DOMAIN trace
    BY DEF At
  <2> QED
    BY <2>1, BudgetAssumption DEF SessionInv, TypeOK
<1>4. Rehearsed # Rejected /\ Rehearsed.ended
  <2>1. working # None
    BY TextAssumption DEF SessionInv, TypeOK
  <2> QED
    BY <2>1 DEF Rehearsed, Rejected, Fresh
<1>5. /\ Rehearsed.writes = writes
      /\ Rehearsed.tested <=> At("run_tests") # {}
  BY DEF Rehearsed
<1>6. DOMAIN Sources(Replayed(trace)) = Changed
  BY <1>2
<1>7. ReplayAccepts(trace) <=> /\ writes # {} /\ Changed # {}
                               /\ At("run_tests") # {} \/ ~TestCallRequired
  BY <1>1, <1>3, <1>4, <1>5, <1>6 DEF ReplayAccepts
<1> QED
  BY <1>1, <1>2, <1>7

\* Every graded session can be rehearsed, to the sources that were graded.
THEOREM GradedReplaysHolds == Spec => []GradedReplays
<1>1. SessionInv /\ ReplayInv => GradedReplays
  <2> SUFFICES ASSUME SessionInv, ReplayInv, receipt # None PROVE GradedReplays
    BY DEF GradedReplays, Graded
  <2>1. /\ At("finish") = {Len(trace)} /\ Completed
        /\ receipt.graded = working /\ receipt.changed = Changed
    BY DEF SessionInv
  <2>2. tested => At("run_tests") # {}
    BY DEF SessionInv, LatestEditTested
  <2> QED
    BY <2>1, <2>2, ReplayOfAFinish DEF GradedReplays, Completed
<1> QED
  BY <1>1, ReplayFollows, PTL

\* What a rehearsal accepts of the sessions that finish, whatever edits the
\* live loop would find untested.
THEOREM ReplayForgetsEditsHolds == Spec => []ReplayForgetsEdits
<1>1. SessionInv /\ ReplayInv => ReplayForgetsEdits
  <2> SUFFICES ASSUME SessionInv, ReplayInv, phase = "grading" PROVE ReplayForgetsEdits
    BY DEF ReplayForgetsEdits
  <2>1. At("finish") = {Len(trace)}
    BY DEF SessionInv
  <2>2. Changed # {} => writes # {}
    BY NamesAssumption DEF ReplayInv, Changed
  <2> QED
    BY <2>1, <2>2, ReplayOfAFinish DEF ReplayForgetsEdits
<1> QED
  BY <1>1, ReplayFollows, PTL
===============================================================================
