# Zephyrus local AI: a TLA+ development

This directory models the benchmark and agent harness of the repository: the
programs that run a local model through tasks, grade what it did and keep the
results comparable. It holds TLA+ modules, TLC configurations, and machine-checked
proofs. Paths below are relative to the repository.

Run a configuration with `tlc -config X.cfg M.tla`, a proof with `tlapm M.tla`
for any of the eight `*Proofs` modules. `PROJECT.json` lists the runs with their
properties, what each definition stands for in the source (`map`), the mutants that
show each property can fail, the findings, the hazards and the theorems.

## The system

The repository is a research project on running a quantised model on one laptop GPU. Its
program code is a set of Python tools without a long-running service. What they
share is files: a task directory, a suite, a ledger of trials, a report of a
preflight. The inference server, Docker, `nvidia-smi` and git are outside.

| Component | State | Operations | Interacts with | Hard behaviour |
|---|---|---|---|---|
| Agent session (`bench/agent_loop.py`, `agent_replay.py`, `agent_http.py`) | disposable workspace, files inspected and written, tests flag, transcript | one tool call per turn, finish, classification of faults | endpoint, graders, suite | order of calls, budget, exceptions of three parties |
| Graders and verdict (`bench/repo_judge.py`, `repo_case.py`) | copies of the workspace, a receipt | visible tests, final grade, verdict | session, Docker | copies taken at different times, duplicated thresholds and digests |
| Streaming collector (`bench/collector.py`) | first output, pieces, usage, finish reason | read a line, close the stream | endpoint, telemetry, ledger | truncated and interleaved streams |
| GPU telemetry (`bench/telemetry.py`) | sample list, error list, stop event | enter, poll, exit, summary | collector | two threads, three timeouts |
| Trial ledger (`bench/collector.py:capture`, `fitness.py`, `campaign.py`) | an append-only JSONL file | run, append, read, evaluate, compare, plan | operator, collector | crashes in an append, retries, controls that drift |
| Preflight and gate (`tools/serving_preflight.py`, `collector.py:enforce_final_gate`) | a git checkout, profile inputs, a report file | prepared, armed, gate | operator, git, collector | facts checked at different times, a report that outlives its checkout |
| Agent trial records (`bench/agent_records.py`, `agent_http.py:main`) | ledger line and output file | make a trial, append, write | session, ledger | crash between two writes |
| Answer and code grading (`fitness.judge`, `code_judge.py`) | none | pure functions, one container run | evaluate | classification |
| Memory arithmetic (`tools/static_memory_budget.py`, `native_loader_ledger.py`, `model_residency_plan.py`) | none | page rounding, sums over an inventory | preflight | off-by-one, double counting |
| Header audit (`tools/safetensors_header_audit.py`) | header cache on disk | ranged fetch, audit | network | crash between files, short reads |
| Speculative sampling (`tools/spec_math.py`) | none | law of the output, coupled acceptance | none | division by a residual that may be nothing |
| Guard patch generator, fixtures, docs, CI | files | generate, run tests | preflight | anchors that must be unique |

What makes each correct: a *session* grades exactly what was tested and passes only
what was earned; *telemetry* brackets the request and loses nothing; a *record*
leaves the collector only for a complete answer; a *ledger* that is accepted has one
run per arm and repeat, and a comparison sets like against like; a *gate* opens only
for an engine that was guarded.

## Plan

Ordered by how much the rest leans on it; all of it is done.

1. `EditTestGrade`, `AgentSession`: abstract trial and session; `AgentReplay`, the
   offline rehearsal of a session over the same tool steps.
2. `AgentTrial` composes `AgentSession` with the ledger line and the output file of
   `agent_http.main`, over several trials, kills and torn writes.
3. `GpuSampler`, `TrialLedger`, `SseStream`, `PreflightGate`: the collector's parts.
4. `HeaderAudit`, `MemoryPlan`, `SpecMath`, `AnswerGrading`, composed by `OfflineTools`:
   a crash-prone fetch whose result the planners read, and pure functions against
   reference definitions.
5. Proofs, one module a component: `AgentSessionProofs`, `AgentTrialProofs`,
   `GpuSamplerProofs`, `TrialLedgerProofs`, `SseStreamProofs`, `PreflightGateProofs`,
   `OfflineToolsProofs`, and `ArithmeticProofs` (for `MemoryPlan` and `SpecMath`), which it
   extends.

What could still be added is listed under "Not modelled".

## Modules

### EditTestGrade
What a trial promises: a workspace that is edited within its allowlist, shown to the
visible tests, graded at most once, and, when the task demands tests, graded in the very
contents the tests saw last. It may be given up at any time, and then does not pass.

### AgentSession
`run_session` as `run_live` drives it. `phase` is where the code is (loop, after
the loop, verdict, end). `working`, `inspected`, `writes` and `tested` are the
variables of that name; `trace` stands for `tool_names` and `messages`; `receipt` is
`repo_receipt`; `verdict` the status of `run_live`, or `lost` when it raises. Two
history variables, `visibleSaw` and `cause`, exist only to state properties.
There is one action per tool (`ListFiles`, `ReadFile`, `WriteFile`, `RunTests`, `Finish`),
one per way a call is refused (`Reject`, `RejectEncoding`), `NoCall` for a reply that
yields no call, `Exhausted` for the budget, and `Incomplete`, `Grade`,
`GradeTimesOut`, `GradeBreaks`, `Judge` for what follows. One reply and its tool are
one step: nothing else touches the workspace, which lives in a fresh temporary
directory. File contents are members of `Source`, some of which are too long, empty,
no text or cannot be encoded in UTF-8. What a container reports is a free choice of
exit status and test counts, as `grade` reads them from the output.

Not modelled: the symlink and path checks (the workspace contains regular files only
and `tool_step` creates none), the encoding of messages, elapsed time. Token usage is in
`AgentTrial`.

### AgentReplay
`agent_replay.replay` as a function: `Replayed(transcript)` steps a record of `replay`'s own
local variables through a transcript with the conditions of `tool_step`, and `Sources` are the
changed files of its last state, which is `Rejected` if the transcript is refused. It has no state and is compared
with each session TLC reaches: what the live loop graded, the rehearsal accepts with the
same sources, and it accepts more in exactly one case, an edit after the last test run,
because it does not reset its flag.

### AgentTrial
`agent_http.main` from the launch of a session to the output file, one trial after
another. It EXTENDS `AgentSession`: the session's variables are those of the running trial
and `stage` says where the process is. `usage` is the transport's own list, written
before the loop looks at a reply; `ledger` and `output` are the two files, with a line
that may be torn. `Recordable` has the conditions of `make_trial`: `Returns` passes them, `Drops` does not
and leaves no record. `Kill` may
come at any point, `TearAppend` and `TearOutput` within a write. `Evaluable` and `Status` are what
`fitness.evaluate` requires of the records and derives from them.

### GpuSampler
The collector's thread (`main`) and the polling thread (`poller`) around one request,
with `samples` and `errors` shared. Time is in seconds and passes only when every thread
is blocked or done (`Tick`): code that does not block is instant, but its steps
interleave freely at that instant. `Figures` and `Count` are separate because
`summary` reads the list twice; `PollDue` and `PollBegin` are separate because the stop
event may be set between the end of the wait and the sample.

### TrialLedger
An operator starts runs of `capture` for any arm, repeat and controls file; a run
answers the suite's cases in order and appends a line for each. `Fail` is any exception
out of a case or a kill before the append, `TearAppend` one within it, with or without a
complete record on the torn line. `Evaluable` and `Comparable` are what
`read_trials`, `evaluate` and `compare` require; `Plan` is `build_campaign`'s schedule.
Not modelled: grading of an answer, provenance (the collector writes `measured` only), the
figures of the comparison, concurrent collectors on one file (each is started by hand).

### SseStream
`collect_stream` over a stream of lines of any kind in any order (`Chunk` and the other
`Kinds`), any time apart, ended by the marker, the end of the file, or a broken
connection. A text is the sequence of its pieces; a tool call has no name in the model,
since names are joined exactly as arguments are.

### PreflightGate
A preflight's requirements in order, digests, commit, sources, patch, each a step,
while an operator edits the checkout and the pinned files between any two of them; then
`enforce_final_gate`, which sees the report file alone. The dispatcher is one of five
texts, those that the checks tell apart. git's answer about a patch file that was
replaced after its digest was taken is a free choice. The arithmetic of
`validate_profile` is `MemoryPlan!ProfileAccepted`.

### HeaderAudit
`safetensors_header_audit`: for each shard two ranged requests (eight bytes, then the
header, if its announced length is at most `MaxHeader` and within the file: `InBounds`), two
files written one after the other, then the files read back, the audit
against index and quantization metadata, and the inventory written row by row. The server
may replace its files between any two requests (`Change`), a request may break (`Break`), a
write may be torn (`TearHeader`, `TearSize`, `TearCsv`); the next run finds what is left. A
version of a shard is a layout: length of the JSON, padding, tensors with dtype, shape and
offsets. The JSON itself is represented by the version it is of and the number of bytes
received.

### MemoryPlan
`static_memory_budget.estimate`, `native_loader_ledger.inventory` and `scenario`,
`model_residency_plan.plan` and `serving_preflight.validate_profile` on one inventory, in
integers as the code computes them. The two planners are translated each from its own code,
because their agreement is a property: `native_loader_ledger` checks its inventory
(`Inventoried`), filters the rows by component, sums each (`Serialized`, `Disk`) and leaves
the embedding to the CPU; `model_residency_plan` checks its own (`Manifest`), keeps running totals row after
row (`Totals`), and sums those of a list of components it builds itself (`Active`, `Weights`). The code
shares one function between them, `estimate`, and so do the modules (`KnownResident`).

### SpecMath
Both functions of `spec_math` in integers over a common denominator `Whole`: the fractions
of the code, multiplied out. Its floating-point tolerances have no counterpart.

### AnswerGrading
`fitness.judge` and `matches` on parsed answers, `code_judge.run_in_container`'s receipt.
A JSON value is a tag and a value, so that `true`, `1` and `1.0` stay apart as the code's type
checks keep them. `matches` is recursive as in the code, written as a function on pairs
of the values in `Json`, a set that holds the components of its members; `Nesting` is how deep a
value is and `Deepest` how deep the parser follows. `PassMeansContract` compares it, through
`judge`, with the inclusion of `Facts`, the paths and leaves of a value, which does not follow
two values at once.

### OfflineTools
The composition: the audit goes on and on, and a planner, the preflight, a grading or a
law may be computed from what is there, which ends the behaviour. `CheckpointAssumption` says what
every version on the server has in common (the embedding of the configuration, no empty trellis)
and `SuiteAssumption` that contracts and responses are values the parser can follow.

## Runs

| Run | Bounds | Shows |
|---|---|---|
| `AgentSession` | 4 files, 2 writable, 22 calls, 7 turns, 7 outcomes of a container | transcript, tested contents, earned pass, solved task, invariant, termination, refinement, live loop against rehearsal |
| `AgentTrial` | 2 trials of 4 turns, 7 calls, 8 invocations, tests not demanded, case allows one file of two | the evaluator's verdict is the reported one, usage is the session's own, output and ledger agree, when a ledger is refused |
| `AgentSessionFaults` (violation) | 5 turns | an endpoint that does not answer makes a failed task |
| `AgentSessionEnergy` (violation) | 5 turns, the digests of `energy-rollup-v1` | a solved task fails |
| `GpuSampler` | interval 1 s, join 6 s, sample 5 s or stuck for 8 s, request 7 s | bracket, nothing lost, one late sample, both threads end |
| `TrialLedger` | 2 cases, 2 arms, 2 repeats, 4 runs (one block); A's controls file edited or telemetry switched on for any run | one run per repeat, plan is comparable, like is compared with like, rejection is final |
| `TrialLedgerUndeclared` (violation) | arms differ in an unlisted control | compared without a declaration |
| `TrialLedgerFailures` (violation) | one block | a run that failed at its first request is done again, and compared |
| `SseStream` | 5 lines, 8 chunks, 2 tool indices, gaps of 0 or 1 | complete, in order, timed right |
| `PreflightGate` | 3 edits, 2 preflights | reports mean what they say; guard was there |
| `PreflightGateStale` (violation) | 2 edits, 1 preflight | report outlives its checkout |
| `OfflineTools` | 2 audits, 1 change of the server, 4 versions of 2 shards, 7 tensors; 6 contexts, 12 plans, 24 profiles; distributions over 3 tokens in fifths; JSON values two levels deep, calls three | fetched headers are whole, a fetch heals what a crash left, two planners agree on weights and `total_size`, a smaller profile stays accepted, the law of the sampler, grades mean contracts |

Why these bounds are enough. *Sessions*: seven turns hold two inspections, two edits,
two test runs and a finish, so that an edit after a test run, and a second test run after
it, both occur; every guard of `tool_step` has a call that fails it. *Trials*: two are needed for one arm and repeat
to be used twice and for a torn line to be joined by the next; four turns hold the read,
the edit and the finish that a pass takes, and one call too many. *Telemetry*: the
request is longer than a sample, so that a sample may be under way, due, or
just over when the request ends; the code's numbers are 1, 6 and 4 s, and the fifth
second is for killing `nvidia-smi`. Were a sample to last as long as the join or
longer, the summary could miss it: `SummaryWhole` says so, the other properties hold all
the same. *Ledger*: four runs are one A/B/B/A block, and two runs of one repeat need only
two; a repeat above `MaxRepeat` is left out of the run to keep four runs in reach. *Stream*: a recorded tool call takes two pieces, a finish reason, usage and the
marker, at least four lines; the fifth is free to be anything. *Gate*: one edit arms, one
spoils, one restores. *Offline tools*: the second audit starts from whatever the first
left, torn or out of date; of the other versions two differ from the pinned one in the
lengths of files only and of headers only, so that either kind of mixture occurs, and one has a header
too long to be asked for; contexts lie on
both sides of one page and of two; fifths over three tokens give rejections of nothing,
of everything, and in between.

Deadlock is not checked in any run (`CHECK_DEADLOCK FALSE`): each program ends, and its
last state has no successor (the session's verdict, the last trial, the record or its
absence, the last planned preflight, a tool's report); whether it should have ended there
is what the properties say.

Each property of a passing run has a mutant: a deviation of one mapped definition that
a plausible bug would make (marked "Deviation:" in the modules, used nowhere else), under
which TLC finds the property violated.

### Fairness
`AgentSession` assumes weak fairness of the whole next-state relation: one thread, each
container bounded by `subprocess` timeouts, each reply by a socket timeout. The latter
bounds a read, not the reply; an endpoint that trickles its answer may stretch a
turn, up to the response limit, and is listed as a hazard. `GpuSampler` assumes weak
fairness of either thread and of time: an operating system schedules both. The other
modules state safety only.

## Findings

* `energy-rollup-v1`'s public test digest in `bench/fixtures/agent-suite.json` has 63
  hexadecimal digits; every live trial of the task fails (`AgentSessionEnergy`).
* An endpoint that is unreachable or times out makes the trial a `fail` of the model, where
  `bench/agent_live_README.md:23` promises `unverified`: `run_live` books faults by the exception's
  type (`AgentSessionFaults`: the first request already gets no answer).
* Controls outside `REQUIRED_CONTROL` may differ undeclared (`TrialLedgerUndeclared`).
* A failed request leaves no cell. In the trace of `TrialLedgerFailures` a run of one arm fails at its
  first request, that arm and repeat are run again to the end, the other arm too, and `compare`
  accepts.
* An armed report is not tied to the checkout it was made from (`PreflightGateStale`).

## Proofs

All from the assumptions on constants that the modules name, which the runs evaluate.
Each argument is an inductive invariant with one step per action. Every invariant and the
action property that a passing run checks is also a theorem; TLC shows it on a small
instance, the theorem for all values of the constants.

`AgentSessionProofs`, for every task, workspace, model and container, and any budget:

* `TypeCorrect`: type correctness and the budget.
* `SessionCorrect`: `SessionInv`, the inductive invariant. The loop decides from
  flags (`inspected`, `writes`, `tested`), while the properties speak of the whole
  transcript; neither implies the other. The invariant ties them together: each inspected file
  has its read in the transcript, each edit follows all required reads, `tested`
  means that a test run follows the last edit *and* that the workspace is what it
  saw, nothing outside the allowlist differs from the template, and a receipt is
  about the workspace as it stands and about a completed session.
* `GradedTranscriptHolds`, `GradedIsTestedHolds`, `PassIsEarnedHolds`: consequences.
* `SolvedTaskPassesHolds`: under explicit hypotheses, that the suite's digests equal
  those on disk and its minimum counts are at most the grader's own 2 and 5. The
  first hypothesis is the one `energy-rollup-v1` breaks.
* `SessionImplementsTrial`: each step is a step of `EditTestGrade` or a stutter.
* `GradedReplaysHolds`, `ReplayForgetsEditsHolds`: `ReplayInv` says that the transcript so far
  can be rehearsed, that its rehearsal ends with the session's own files, reads and edits
  (`Rehearsed`), and that a file which was not written is the template's. One more call of the
  session is one more step of the rehearsal (`RehearsalGrows`), so the recursion over the
  transcript is never unfolded further than that. Only the test flag differs, and so does what
  is accepted.

`AgentTrialProofs`, for any set of invocations and any number of trials, on top of
`SessionInv`: `TrialInv` says what each stage has settled (in the session, usage is the
transcript and at most one more call; at the record, the verdict is out; at the output,
the ledger has the record unless its last line is torn) and what the files hold: every line that
parses has the status its trial reported. From it `VerdictStandsHolds`,
`TurnsAreTheSessionsHolds`, `OutputIsRecordedHolds`, `RecordsCompatibleHolds`, and that a pass
is earned in every trial.

`GpuSamplerProofs`, for every interval, timeout and length of request and sample, and every
interleaving: besides the places of the two threads and the order of the samples, `SamplerInv`
holds the timing argument. While the main thread is in `join`, a sample that is under way has run
at least as long as the join has waited, and a thread that waits again did so within the
sample's limit; a join that waits longer than a sample may take therefore returns because the
thread has ended, and nothing changes the lists afterwards (`SummaryWholeHolds`). The strict
inequality matters: with equal limits the join may give up at the very second the
sample returns. `BracketsHolds` and `OneLateSampleHolds` need no timing: a late sample was due
before the event was set, and none was late then.

`TrialLedgerProofs`, for every suite, controls and number of runs: a record is of its run, and
in a file without torn lines a run that has a record has one of the first case
(`LedgerInv`). Two runs of one arm and repeat would both have recorded that case, which
`evaluate` rejects (`OneRunPerRepeatHolds`). As long as no run failed the file is `Whole`: each
run has exactly one line for each case it has got past. With `PlanBalanced`, that
`build_campaign` runs each arm once with each repeat, it gives `PlanComparesHolds`, for any number
of blocks whose repeats `validate_trial` allows (`PlanAssumption`). `RejectedForGoodHolds`: an accepted file has only
accepted beginnings. `ComparesLikeWithLikeHolds` turns the counts of distinct values into
equality of all records and of the runs they are of.

`SseStreamProofs`, for streams of any length: while it reads, the collector's flags sum up the
stream so far (`SseInv`): first output, latest usage, finish reason, indices of tool calls.
`PiecesInv` adds that what has been joined is every piece once and in order (`InOrder`), the text
and each tool call for itself; the next line extends the order by one, so
`ResponseIsTheStreamHolds` for chunks mixed in any way.
`RecordedIsCompleteHolds`, `TimingsAreTheStreamsHolds`; the type theorem includes that no span
of a record is negative.

`PreflightGateProofs`, for any number of edits and preflights: what each step has established
while nobody edits (`Established`), and the guard behind each claim when somebody does
(`GuardBehindClaims`); `GuardWasThereHolds`, `ReportsMeanWhatTheySayHolds`.

`OfflineToolsProofs`, for any checkpoint, shards, versions, options, suites and runs. Its
invariant `ToolsInv` has four parts:

* `AuditInv` says what has been received at each place (the bytes of the header are of the
  version of its prefix, or their count differs from the length) and what is stored for the
  shards already done in this run: `FetchedIsWholeHolds`.
* `Heals`: while the server has had the pinned version for the whole run, everything the
  run has received and stored is of that version and whole, whatever was on disk before, and such
  headers pass the audit (`FreshAudits`, which needs `PinnedAssumption`: the index and metadata
  describe themselves): `FetchHealsHolds`. The invariant is of the current run only; nothing can be said of
  the files of a run that broke.
* `Kinds`: what there can be in the files, and which headers a run has come across.
* `CsvInv`: the rows of any inventory, torn or not, can be added up, and those of one written
  to its end are exactly the index's tensors, acceptable to both planners, and sum to
  `total_size` (`RowsAre`, `RowsInventoried`, `RowsAddUp`, `TornPriced`). The last is an exchange of
  sums: bytes by row, by tensor found, and by shard.

`ToolsTypeOKHolds`, `PlansAddUpHolds` and `ProfileHoldsBelowHolds` follow from it,
`OutputLawHolds` from the laws below. `GradesMeanContractsHolds` needs no invariant but an induction on
`Nesting`: a value matches just when it states every fact of what is expected (`MatchesMeansFacts`),
since the facts of a component are found below its own step and nowhere else (`BelowIs`).

`ArithmeticProofs`: a context reserves the least whole number of pages that holds it
(`ReservedIsEnough`, `ReservedIsLeast`), caches grow with the context (`CacheGrows`), the two
planners' weights agree, a staged window holds the pool (`StagedHoldsPool`), and a profile that is
accepted is accepted below (`AcceptedBelow`), all on any inventory that is `Priced`: a sequence
of rows with natural numbers of bytes. That the planners agree is an argument in four steps: an
inventory that the native ledger accepts the other accepts (`InventoriedIsManifest`); the running totals
exist and are, component by component, the sums of the filtered rows (`TotalsAre`, by induction over the
rows; that no tensor is named twice is what makes rows and their set the same); the list of active
components holds each component of the tuple once (`ActiveAre`); hence equal weights
(`WeightsAre`, `PlansAgree`). Speculative sampling keeps the target's law (`TargetLawHolds`)
and so does the coupled form (`CoupledLawHolds`).

Sums and products in the models are folds, and the library has no theorem about folds that the
installed provers can use, since theirs take an operator as a parameter. Their recursion is
therefore unfolded once, from the definition: `RecursionByRank` gives the function that a recursion
with a decreasing rank defines, `SetInduction` and `UpToInduction` do induction with a set in place
of a predicate, and the laws of sums (`SumAppend`, `SumOfUnion`, `SumOfImage`, `SumOfParts` and the
others) and of products follow. The same lemmas serve `Sorted`, `RoundedPages`, `matching` and
`Facts`.

Only model-checked: liveness (`SessionEnds`, `SamplerEnds`, the fairness part of
`ImplementsTrial`), which the prover does not handle.

## Not modelled

* `tools/build_quant_cache_guard_patch.py`: one pass of text replacement with anchors that
  must occur once; its product is the guard of `PreflightGate`.
* The figures of a comparison (`fitness.py`: rates, medians, Wilson bounds): floating-point
  statistics without a decision besides those modelled.
* Depth of nested answers: `json.loads` and `ast.parse` can raise RecursionError, which
  `judge` does not catch; values here are never deeper than `Deepest`.
* The socket timeout as a bound on each read, and a container that outlives its docker client:
  neither is visible in any state of the models (containers share nothing that a later
  grading reads); the former is listed as a hazard.
* Symlinks, file modes, the docker command line, `nvidia-smi`'s output, formatting of reports.
* Task directories, suites, tensor inventories, prose and CI: data that the constants stand for.
