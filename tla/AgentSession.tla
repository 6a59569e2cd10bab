----------------------------- MODULE AgentSession -----------------------------
(***************************************************************************)
(* One live agent trial: the bounded tool loop of                          *)
(* bench/agent_loop.py:run_session over bench/agent_replay.py:tool_step,   *)
(* the transport of bench/agent_http.py:OpenAITransport, the two container *)
(* graders of bench/repo_judge.py, the decision of                         *)
(* bench/repo_case.py:judge_repo and the classification of exceptions in   *)
(* bench/agent_http.py:run_live.                                           *)
(*                                                                         *)
(* The model, the endpoint and Docker are the environment: which reply     *)
(* comes back, and how a container ends, is a free choice.  Nothing else   *)
(* runs in the disposable workspace, so a reply and the tool it calls are  *)
(* one step.  File contents, tool results and messages are abstract        *)
(* values; the conversation is represented by the calls it consists of.    *)
(***************************************************************************)
EXTENDS Naturals, Sequences, FiniteSets

CONSTANTS
  Names,             \* paths a model may name
  Files,             \* those that exist in the workspace
  Writable,          \* task.json writable_files
  Required,          \* task.json required_inspections
  Source,            \* texts
  Template,          \* the unsolved workspace, [Files -> Source]
  TooLong,           \* texts longer than max_source_bytes
  Empty,             \* the empty text
  NotText,           \* JSON values that are no text
  Unencodable,       \* texts UTF-8 cannot encode (lone surrogates)
  Budget,            \* task.json max_tool_calls
  TestCallRequired,  \* task.json required_test_call
  Calls,             \* the tool calls the model may send
  Runs,              \* exit codes and test counts a grading container reports
  CaseWritable,      \* writable_files of the evaluator's case
  MinPublic, MinPrivate,             \* its minimum test counts
  ExpectedPublic, ExpectedPrivate,   \* its test-file digests
  PublicDigest, PrivateDigest,       \* digests of the test files on disk
  None               \* Python's None

Tools == {"list_files", "read_file", "write_file", "run_tests", "finish"}

\* A call in the internal shape {tool, arguments}: path and source are None
\* when the argument is absent; finish carries its summary as the source.
Call == [tool : Tools, path : Names \cup {None}, source : Source \cup {None}]

Workspace == [Files -> Source]

Causes == {"none", "model", "endpoint", "grader"}
Verdicts == {"open", "pass", "fail", "unverified", "lost"}

Receipt == [graded : Workspace, changed : SUBSET Files, passed : BOOLEAN,
            public : Nat, private : Nat]

ASSUME NamesAssumption == /\ Files \subseteq Names
                          /\ Writable \subseteq Files
                          /\ Required \subseteq Files
                          /\ CaseWritable \subseteq Files
                          /\ None \notin Names \cup Source

ASSUME TextAssumption == /\ Template \in Workspace
                         /\ None \notin Workspace \cup Receipt
                         /\ TooLong \cup Empty \cup NotText \cup Unencodable \subseteq Source

ASSUME BudgetAssumption == Budget \in Nat /\ Budget \in 1..100

ASSUME EnvironmentAssumption == /\ TestCallRequired \in BOOLEAN
                                /\ Calls \subseteq Call
                                /\ Runs \subseteq [rc : Nat, counts : Seq(Nat)]
                                /\ MinPublic \in Nat /\ MinPrivate \in Nat

VARIABLES
  phase,       \* "turns" in the loop, "grading" after it, "judging", "done"
  working,     \* the disposable copy of the workspace
  inspected,   \* files read so far
  writes,      \* files written so far
  tested,      \* run_session's flag: tests ran since the last edit
  trace,       \* the calls carried out, in order (tool_names and messages)
  receipt,     \* the final grader's receipt
  verdict,     \* the status run_live reports; "lost" if it raises instead
  visibleSaw,  \* history: the contents the visible tests ran on last
  cause        \* history: whose doing ended the trial early

vars == <<phase, working, inspected, writes, tested, trace, receipt, verdict,
          visibleSaw, cause>>

Init == /\ phase = "turns"
        /\ working = Template
        /\ inspected = {}
        /\ writes = {}
        /\ tested = FALSE
        /\ trace = <<>>
        /\ receipt = None
        /\ verdict = "open"
        /\ visibleSaw = None
        /\ cause = "none"

-------------------------------------------------------------------------------
(* How run_live turns an exception into a status.                          *)

StatusOf(exception) ==
  CASE exception \in {"AgentTaskError", "CollectorError", "JSONDecodeError"} -> "fail"
    [] exception \in {"OSError", "RuntimeError"} -> "unverified"
    [] OTHER -> "lost"

\* The exception leaves run_session; agent_failed is set or not, and no
\* receipt is attached.
Raise(exception, who) ==
  /\ phase' = "done"
  /\ verdict' = StatusOf(exception)
  /\ cause' = who
  /\ receipt' = None
  /\ UNCHANGED <<working, inspected, writes, tested, trace, visibleSaw>>

-------------------------------------------------------------------------------
(* The transport: a reply that yields no tool call.                        *)

\* What OpenAITransport.complete raises, and who is at fault: the endpoint is
\* unreachable or times out; the connection is reset after the request; prose,
\* several calls, an unknown tool, no usage; arguments that are not JSON;
\* arguments nested too deeply to parse; arguments that are not text.
ReplyFaults ==
  { [raises |-> "AgentTaskError",  who |-> "endpoint"],
    [raises |-> "OSError",         who |-> "endpoint"],
    [raises |-> "AgentTaskError",  who |-> "model"],
    [raises |-> "JSONDecodeError", who |-> "model"],
    [raises |-> "RuntimeError",    who |-> "model"],
    [raises |-> "TypeError",       who |-> "model"] }

\* Deviation: one turn too many.
InLoopOneMore == phase = "turns" /\ Len(trace) <= Budget

InLoop == phase = "turns" /\ Len(trace) < Budget

NoCall == InLoop /\ \E fault \in ReplyFaults : Raise(fault.raises, fault.who)

-------------------------------------------------------------------------------
(* tool_step: what each tool requires, and what it does.                   *)

ListAllowed(c) == c.tool = "list_files" /\ c.path = None /\ c.source = None

ReadAllowed(c) == /\ c.tool = "read_file" /\ c.source = None
                  /\ c.path \in Files
                  /\ working[c.path] \notin TooLong

\* Deviation: any file of the workspace may be overwritten.
WriteReachedAnyFile(c) == /\ c.tool = "write_file" /\ c.source # None
                          /\ c.path \in Files
                          /\ Required \subseteq inspected

\* write_file up to the point where the replacement text is encoded.
WriteReached(c) == /\ c.tool = "write_file" /\ c.source # None
                   /\ c.path \in Writable
                   /\ Required \subseteq inspected

WriteAllowed(c) == /\ WriteReached(c)
                   /\ c.source \notin TooLong \cup Empty \cup NotText \cup Unencodable

TestsAllowed(c) == /\ c.tool = "run_tests" /\ c.path = None /\ c.source = None
                   /\ writes # {}

FinishReached(c) == c.tool = "finish" /\ c.path = None /\ c.source \notin {None} \cup NotText

FinishAllowed(c) == FinishReached(c) /\ c.source \notin Unencodable

\* Encoding the text raises UnicodeEncodeError, which is no AgentTaskError.
CannotEncode(c) == (WriteReached(c) \/ FinishReached(c)) /\ c.source \in Unencodable

Allowed(c) == \/ ListAllowed(c) \/ ReadAllowed(c) \/ WriteAllowed(c)
              \/ TestsAllowed(c) \/ FinishAllowed(c)

\* Every tool that is carried out is appended to the conversation.
Record(c) == trace' = Append(trace, c)

ListFiles(c) == /\ InLoop /\ ListAllowed(c)
                /\ Record(c)
                /\ UNCHANGED <<phase, working, inspected, writes, tested,
                               receipt, verdict, visibleSaw, cause>>

ReadFile(c) == /\ InLoop /\ ReadAllowed(c)
               /\ inspected' = inspected \cup {c.path}
               /\ Record(c)
               /\ UNCHANGED <<phase, working, writes, tested, receipt, verdict,
                              visibleSaw, cause>>

\* Deviation: an edit leaves the earlier test result standing.
WriteFileKeepsTested(c) ==
  /\ InLoop /\ WriteAllowed(c)
  /\ working' = [working EXCEPT ![c.path] = c.source]
  /\ writes' = writes \cup {c.path}
  /\ Record(c)
  /\ UNCHANGED <<phase, inspected, tested, receipt, verdict, visibleSaw, cause>>

WriteFile(c) == /\ InLoop /\ WriteAllowed(c)
                /\ working' = [working EXCEPT ![c.path] = c.source]
                /\ writes' = writes \cup {c.path}
                /\ tested' = FALSE
                /\ Record(c)
                /\ UNCHANGED <<phase, inspected, receipt, verdict, visibleSaw, cause>>

\* The visible tests run on a copy of the workspace, provided nothing outside
\* the allowlist differs from the template.  Passed, failed, timed out, or a
\* container that never started all come back as an ordinary tool result.
RunTests(c) == /\ InLoop /\ TestsAllowed(c)
               /\ \A f \in Files \ Writable : working[f] = Template[f]
               /\ tested' = TRUE
               /\ visibleSaw' = working
               /\ Record(c)
               /\ UNCHANGED <<phase, working, inspected, writes, receipt, verdict, cause>>

\* Docker is not installed; or what the candidate printed cannot be decoded.
RunTestsBreaks(c) == /\ InLoop /\ TestsAllowed(c)
                     /\ \/ Raise("OSError", "grader")
                        \/ Raise("UnicodeDecodeError", "model")

Finish(c) == /\ InLoop /\ FinishAllowed(c)
             /\ phase' = "grading"
             /\ Record(c)
             /\ UNCHANGED <<working, inspected, writes, tested, receipt, verdict,
                            visibleSaw, cause>>

Reject(c) == InLoop /\ ~Allowed(c) /\ ~CannotEncode(c) /\ Raise("AgentTaskError", "model")

RejectEncoding(c) == InLoop /\ CannotEncode(c) /\ Raise("UnicodeEncodeError", "model")

\* Deviation: the budget is checked one call late.
ExhaustedLate == phase = "turns" /\ Len(trace) > Budget /\ Raise("AgentTaskError", "model")

\* The loop runs out of turns: ended is false.
Exhausted == phase = "turns" /\ Len(trace) = Budget /\ Raise("AgentTaskError", "model")

-------------------------------------------------------------------------------
(* After the loop.                                                         *)

\* The turns at which a tool was called.
At(tool) == {i \in DOMAIN trace : trace[i].tool = tool}

Changed == {f \in Writable : working[f] # Template[f]}

\* Deviation: any test run counts, whatever was edited since.
CompletedTestedOnce == /\ writes # {}
                       /\ At("run_tests") # {} \/ ~TestCallRequired
                       /\ Changed # {}

\* Deviation: writing a file counts as changing it.
CompletedUnchanged == writes # {} /\ (tested \/ ~TestCallRequired)

Completed == /\ writes # {}
             /\ tested \/ ~TestCallRequired
             /\ Changed # {}

Incomplete == phase = "grading" /\ ~Completed /\ Raise("AgentTaskError", "model")

\* stage_candidate hashes every file of the candidate again; more than the
\* allowlist changed is an error.
Staged == {f \in Files : working[f] # Template[f]} \subseteq Writable

CountAt(counts, n) == IF n <= Len(counts) THEN counts[n] ELSE 0

ReceiptOf(run) ==
  [graded  |-> working,
   changed |-> Changed,
   public  |-> CountAt(run.counts, 1),
   private |-> CountAt(run.counts, 2),
   passed  |-> /\ run.rc = 0
               /\ CountAt(run.counts, 1) >= 2
               /\ CountAt(run.counts, 2) >= 5
               /\ Len(run.counts) = 2]

\* The container's own exit code when docker could not start it at all.
NotStarted == 125

Grade(run) == /\ phase = "grading" /\ Completed /\ Staged
              /\ receipt' = ReceiptOf(run)
              /\ phase' = "judging"
              /\ cause' = IF run.rc = NotStarted THEN "grader" ELSE "none"
              /\ UNCHANGED <<working, inspected, writes, tested, trace, verdict,
                             visibleSaw>>

\* subprocess.TimeoutExpired: a receipt without counts.
GradeTimesOut == Grade([rc |-> 1, counts |-> <<>>])

GradeBreaks == /\ phase = "grading" /\ Completed /\ Staged
               /\ \/ Raise("OSError", "grader")
                  \/ Raise("UnicodeDecodeError", "model")

\* Deviation: the exit code is not looked at.
AcceptsCounts(r) == /\ PrivateDigest = ExpectedPrivate /\ PublicDigest = ExpectedPublic
                    /\ r.changed # {} /\ r.changed \subseteq CaseWritable
                    /\ r.public >= MinPublic /\ r.private >= MinPrivate

\* Deviation: the minimum counts are exclusive.
AcceptsMore(r) == /\ PrivateDigest = ExpectedPrivate /\ PublicDigest = ExpectedPublic
                  /\ r.changed # {} /\ r.changed \subseteq CaseWritable
                  /\ r.public >= MinPublic /\ r.private > MinPrivate
                  /\ r.passed

\* Deviation: the case's own allowlist is not consulted.
AcceptsAnyFile(r) == /\ PrivateDigest = ExpectedPrivate /\ PublicDigest = ExpectedPublic
                     /\ r.changed # {}
                     /\ r.public >= MinPublic /\ r.private >= MinPrivate
                     /\ r.passed

\* judge_repo on a receipt whose task, provenance and image are the client's.
Accepts(r) == /\ PrivateDigest = ExpectedPrivate
              /\ PublicDigest = ExpectedPublic
              /\ r.changed # {}
              /\ r.changed \subseteq CaseWritable
              /\ r.public >= MinPublic
              /\ r.private >= MinPrivate
              /\ r.passed

Judge == /\ phase = "judging"
         /\ phase' = "done"
         /\ verdict' = IF Accepts(receipt) THEN "pass" ELSE "fail"
         /\ UNCHANGED <<working, inspected, writes, tested, trace, receipt,
                        visibleSaw, cause>>

-------------------------------------------------------------------------------
ToolStep(c) == \/ ListFiles(c) \/ ReadFile(c) \/ WriteFile(c) \/ RunTests(c)
               \/ RunTestsBreaks(c) \/ Finish(c) \/ Reject(c) \/ RejectEncoding(c)

Close == Incomplete \/ (\E run \in Runs : Grade(run)) \/ GradeTimesOut \/ GradeBreaks

Next == NoCall \/ (\E c \in Calls : ToolStep(c)) \/ Exhausted \/ Close \/ Judge

\* One thread; each reply and each container is bounded by a timeout.
Spec == Init /\ [][Next]_vars /\ WF_vars(Next)

-------------------------------------------------------------------------------
(* What a transcript must look like, said of the whole transcript rather   *)
(* than of the flags the loop keeps.                                       *)

EditsInspected == \A i \in At("write_file") : \A f \in Required :
                    \E j \in At("read_file") : j < i /\ trace[j].path = f

LatestEditTested == \E i \in At("run_tests") : \A j \in At("write_file") : j < i

Graded == receipt # None

-------------------------------------------------------------------------------
(* Properties.                                                             *)

TypeOK == /\ phase \in {"turns", "grading", "judging", "done"}
          /\ working \in Workspace
          /\ inspected \in SUBSET Files
          /\ writes \in SUBSET Writable
          /\ tested \in BOOLEAN
          /\ trace \in Seq(Call)
          /\ Len(trace) <= Budget
          /\ receipt \in Receipt \cup {None}
          /\ verdict \in Verdicts
          /\ visibleSaw \in Workspace \cup {None}
          /\ cause \in Causes

\* A trial reaches the final grader only with a transcript that, read as a
\* whole, inspects every required file before its first edit, runs the visible
\* tests after its last edit when the task asks for it, and ends in its only
\* finish (run_session's flags; "Tests must follow the latest edit").
GradedTranscript ==
  Graded => /\ At("write_file") # {}
            /\ EditsInspected
            /\ TestCallRequired => LatestEditTested
            /\ At("finish") = {Len(trace)}

\* What the final grader judged is byte for byte what the visible tests ran on
\* last, although both work on copies taken at different times.
GradedIsTested == Graded /\ TestCallRequired => receipt.graded = visibleSaw

\* A passing verdict is earned: no fault was swallowed on the way to it, both
\* test suites ran in full, and the graded tree differs from the template, and
\* only in files that the task and the evaluator's case both allow.
PassIsEarned ==
  verdict = "pass" =>
    /\ cause = "none"
    /\ receipt.passed /\ receipt.public >= MinPublic /\ receipt.private >= MinPrivate
    /\ {f \in Files : receipt.graded[f] # Template[f]} = receipt.changed
    /\ receipt.changed # {}
    /\ receipt.changed \subseteq Writable \cap CaseWritable

\* A container in which every public and evaluator-owned test passed gives a
\* passing verdict, unless the task lets the agent edit more than the case
\* does ("Both visible and evaluator-owned tests passed inside pinned
\* container"): grade's own thresholds and the case's agree.
SolvedTaskPasses ==
  phase = "done" /\ Graded /\ receipt.passed /\ Writable \subseteq CaseWritable
    => verdict = "pass"

\* The loop's flags are summaries of the transcript, the receipt is about the
\* workspace as it stands, and nothing outside the allowlist was touched: the
\* inductive invariant behind the three properties above.
SessionInv ==
  /\ TypeOK
  /\ \A f \in inspected : \E j \in At("read_file") : trace[j].path = f
  /\ EditsInspected
  /\ writes # {} => At("write_file") # {}
  /\ tested => LatestEditTested /\ visibleSaw = working
  /\ \A f \in Files \ Writable : working[f] = Template[f]
  /\ phase = "turns" => At("finish") = {}
  /\ phase \in {"turns", "grading"} => receipt = None /\ cause = "none"
  /\ phase = "grading" => At("finish") = {Len(trace)}
  /\ phase = "judging" => receipt # None
  /\ verdict = "open" <=> phase # "done"
  /\ receipt # None =>
       /\ At("finish") = {Len(trace)}
       /\ Completed
       /\ receipt.graded = working /\ receipt.changed = Changed
       /\ receipt.passed => cause = "none" /\ receipt.public >= 2 /\ receipt.private >= 5
       /\ phase = "done" => verdict = IF Accepts(receipt) THEN "pass" ELSE "fail"
  /\ verdict = "pass" => receipt # None

\* Every session ends, whatever the model and the containers do: the loop is
\* bounded by max_tool_calls and every path out of it settles the trial.
SessionEnds == <>(phase = "done")

\* The session implements the abstract trial: edits within the allowlist,
\* then one grade of the workspace the visible tests saw.
Trial == INSTANCE EditTestGrade
           WITH doc <- working, checked <- visibleSaw, outcome <- verdict,
                graded <- IF receipt = None THEN None ELSE receipt.graded

ImplementsTrial == Trial!Spec

\* The part of it that says what a step may do.
TrialSafety == Trial!Init /\ [][Trial!Next]_(Trial!vars)

\* bench/agent_live_README.md:23: "grader/infrastructure faults remain unverified".
InfrastructureUnverified ==
  phase = "done" /\ cause \in {"endpoint", "grader"} => verdict = "unverified"
===============================================================================
