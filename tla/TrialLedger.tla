----------------------------- MODULE TrialLedger -----------------------------
(***************************************************************************)
(* The append-only ledger of benchmark trials and the comparison made from *)
(* it.  An operator runs bench/collector.py:capture for an arm and a       *)
(* repeat, following the plan of bench/campaign.py:build_campaign or not;  *)
(* a run asks the suite's cases in order and appends one JSON line per     *)
(* answered case.  A failed request, telemetry or container ends the run;  *)
(* a kill or a full disk may end it anywhere, inside a line included.      *)
(* bench/fitness.py reads the file back: read_trials, evaluate, compare.   *)
(*                                                                         *)
(* Grading of a single answer is not modelled here, nor provenance: every  *)
(* record the collector writes is "measured".                              *)
(***************************************************************************)
EXTENDS Naturals, Sequences, FiniteSets

CONSTANTS
  Cases,            \* the suite's case ids, in its order
  Control,          \* keys of a controls file
  RequiredControl,  \* those of REQUIRED_CONTROL
  Value,            \* values of controls
  SettingsOf,       \* arm -> the controls files and --gpu-telemetry it is run with
  Repeats,          \* values of --repeat in use
  MaxRepeat,        \* the largest repeat validate_trial admits
  Blocks,           \* A/B/B/A blocks of the plan
  Declared,         \* --changed-control
  MaxRuns,          \* bound: runs of the collector
  None              \* what a line that is no JSON parses to

Arms == {"A", "B"}

Suite == {Cases[i] : i \in 1..Len(Cases)}

Controls == [Control -> Value]

Settings == [controls : Controls, telemetry : BOOLEAN]

Trial == [arm : Arms, case : Suite, repeat : Repeats, controls : Controls,
          telemetry : BOOLEAN, run : 1..MaxRuns]

Run == [arm : Arms, repeat : Repeats, controls : Controls, telemetry : BOOLEAN,
        end : {"running", "completed", "failed"}]

ASSUME SuiteAssumption == /\ Cases \in Seq(Suite) /\ Cases # <<>>
                          /\ \A i, j \in 1..Len(Cases) : Cases[i] = Cases[j] => i = j

ASSUME ControlAssumption == /\ RequiredControl \subseteq Control
                            /\ SettingsOf \in [Arms -> SUBSET Settings]
                            /\ Declared \subseteq RequiredControl

ASSUME RangeAssumption == /\ Repeats \subseteq Nat /\ MaxRepeat \in Nat
                          /\ Blocks \in Nat /\ MaxRuns \in Nat
                          /\ None \notin Trial

\* A plan of at most 100 blocks numbers its repeats far below validate_trial's bound.
ASSUME PlanAssumption == 2 * Blocks <= MaxRepeat + 1

VARIABLES
  ledger,    \* the file: its lines, as [rec, ended]; ended by a newline or not
  runs,      \* the runs so far; the last one may be running
  next       \* the case the running one has reached

vars == <<ledger, runs, next>>

Init == ledger = <<>> /\ runs = <<>> /\ next = 1

-------------------------------------------------------------------------------
(* capture                                                                 *)

Running == runs # <<>> /\ runs[Len(runs)].end = "running"

EndRun(how) == runs' = [runs EXCEPT ![Len(runs)].end = how]

Start(arm, repeat, settings) ==
  /\ ~Running /\ Len(runs) < MaxRuns
  /\ runs' = Append(runs, [arm |-> arm, repeat |-> repeat, controls |-> settings.controls,
                           telemetry |-> settings.telemetry, end |-> "running"])
  /\ next' = 1
  /\ UNCHANGED ledger

\* Out of memory, an incomplete stream, malformed tool arguments, a timeout, a
\* failed sample: capture raises, and the cases that follow are not asked.  A
\* process that is killed leaves the same behind.
Fail == /\ Running
        /\ EndRun("failed")
        /\ UNCHANGED <<ledger, next>>

Current == LET run == runs[Len(runs)] IN
           [arm |-> run.arm, case |-> Cases[next], repeat |-> run.repeat,
            controls |-> run.controls, telemetry |-> run.telemetry, run |-> Len(runs)]

Unended == ledger # <<>> /\ ~ledger[Len(ledger)].ended

\* Deviation: a line without a newline is taken for torn and replaced.
WriteOverTorn(rec, ended) ==
  ledger' = IF Unended
              THEN [ledger EXCEPT ![Len(ledger)] = [rec |-> rec, ended |-> ended]]
              ELSE Append(ledger, [rec |-> rec, ended |-> ended])

\* Text appended to the file; it joins a last line that has no newline yet,
\* and two records on one line, or part of one, are no JSON.
Write(rec, ended) ==
  ledger' = IF Unended
              THEN [ledger EXCEPT ![Len(ledger)] = [rec |-> None, ended |-> ended]]
              ELSE Append(ledger, [rec |-> rec, ended |-> ended])

\* Deviation: the run is over one case too late.
AppendCaseLate == /\ Running
                  /\ Write(Current, TRUE)
                  /\ IF next > Len(Cases) THEN EndRun("completed") ELSE UNCHANGED runs
                  /\ next' = next + 1

\* The request, its telemetry and any container run succeed; the record is appended.
AppendCase == /\ Running
              /\ Write(Current, TRUE)
              /\ IF next = Len(Cases) THEN EndRun("completed") ELSE UNCHANGED runs
              /\ next' = next + 1

\* The append is cut short: within the record, or just before its newline.
TearAppend == /\ Running
              /\ Write(None, FALSE) \/ Write(Current, FALSE)
              /\ EndRun("failed")
              /\ UNCHANGED next

-------------------------------------------------------------------------------
(* read_trials and evaluate: what makes the ledger acceptable as a whole.  *)

Parsable == ledger # <<>> /\ \A i \in DOMAIN ledger : ledger[i].rec # None

Records == {ledger[i].rec : i \in DOMAIN ledger}

Identity(r) == <<r.arm, r.case, r.repeat>>

\* Deviation: only neighbouring lines are compared.
UniqueNeighbours == \A i, j \in DOMAIN ledger :
  j = i + 1 => Identity(ledger[i].rec) # Identity(ledger[j].rec)

Unique == \A i, j \in DOMAIN ledger :
            Identity(ledger[i].rec) = Identity(ledger[j].rec) => i = j

Evaluable == Parsable /\ Unique /\ \A r \in Records : r.repeat <= MaxRepeat

-------------------------------------------------------------------------------
(* compare                                                                 *)

Of(arm) == {r \in Records : r.arm = arm}

Keys(arm) == {<<r.case, r.repeat>> : r \in Of(arm)}

\* One of an arm's records; which one does not matter once they agree.
ControlsIn(arm) == (CHOOSE r \in Of(arm) : TRUE).controls

Differences == {key \in RequiredControl : ControlsIn("A")[key] # ControlsIn("B")[key]}

Paired == /\ Keys("A") # {} /\ Keys("A") = Keys("B")
          /\ {k[1] : k \in Keys("A")} = Suite

\* Deviation: the baseline's controls are not looked at.
ControlledInB == /\ Cardinality({r.controls : r \in Of("B")}) = 1
                 /\ Differences = Declared

Controlled == /\ \A arm \in Arms : Cardinality({r.controls : r \in Of(arm)}) = 1
              /\ Differences = Declared

SameInstruments == Cardinality({r.telemetry : r \in Of("A") \cup Of("B")}) = 1

Comparable == Evaluable /\ Paired /\ Controlled /\ SameInstruments

-------------------------------------------------------------------------------
(* build_campaign: the planned runs, in order.                             *)

\* Deviation: only the last run of a block has the second number.
PlanLopsided ==
  [n \in 1..(4 * Blocks) |->
     LET block == (n - 1) \div 4   place == (n - 1) % 4 IN
     [arm |-> <<"A", "B", "B", "A">>[place + 1], repeat |-> (2 * block) + (place \div 3)]]

Plan ==
  [n \in 1..(4 * Blocks) |->
     LET block == (n - 1) \div 4   place == (n - 1) % 4 IN
     [arm |-> <<"A", "B", "B", "A">>[place + 1], repeat |-> (2 * block) + (place \div 2)]]

-------------------------------------------------------------------------------
Next == \/ \E arm \in Arms, repeat \in Repeats :
             \E settings \in SettingsOf[arm] : Start(arm, repeat, settings)
        \/ Fail \/ AppendCase \/ TearAppend

Spec == Init /\ [][Next]_vars

-------------------------------------------------------------------------------
(* Properties.                                                             *)

TypeOK == /\ ledger \in Seq([rec : Trial \cup {None}, ended : BOOLEAN])
          /\ runs \in Seq(Run) /\ Len(runs) <= MaxRuns
          /\ next \in 1..Len(Cases) + 1
          /\ Running => next <= Len(Cases)

\* In a ledger that evaluate accepts, the records of one arm and repeat all come
\* from one run of the collector: nothing a failed or killed run left behind is
\* ever completed, or outvoted, by a second run (every run starts with the
\* suite's first case, and evaluate rejects a repeated identity).
OneRunPerRepeat ==
  Evaluable => \A r, s \in Records : r.arm = s.arm /\ r.repeat = s.repeat => r.run = s.run

\* A ledger that is rejected stays rejected: no later run repairs a torn line, a
\* repeated identity or an inadmissible repeat, since the file is only appended to.
RejectedForGood ==
  [][ledger # <<>> /\ ~Evaluable => ~Evaluable']_vars

\* Carrying out the plan of build_campaign, each run complete and with one
\* controls file per arm, gives a ledger that compare accepts.
PlanCarriedOut ==
  /\ DOMAIN runs = DOMAIN Plan /\ Blocks > 0
  /\ \A n \in DOMAIN runs : /\ runs[n].end = "completed"
                            /\ runs[n].arm = Plan[n].arm
                            /\ runs[n].repeat = Plan[n].repeat
  /\ \A m, n \in DOMAIN runs : /\ runs[m].telemetry = runs[n].telemetry
                               /\ runs[m].arm = runs[n].arm => runs[m].controls = runs[n].controls

PlanCompares == PlanCarriedOut /\ Differences = Declared => Comparable

\* A comparison is of two arms that were each run with one controls file and the
\* same instruments, whatever was run, failed or was killed in between.
ComparesLikeWithLike ==
  Comparable =>
    \A m, n \in {r.run : r \in Records} :
      /\ runs[m].telemetry = runs[n].telemetry
      /\ runs[m].arm = runs[n].arm => runs[m].controls = runs[n].controls
      /\ \A key \in RequiredControl \ Declared : runs[m].controls[key] = runs[n].controls[key]

\* bench/README.md:7: "A/B comparisons reject any undeclared control difference".
OnlyDeclaredDiffer ==
  Comparable => \A r \in Of("A"), s \in Of("B") : \A key \in Control \ Declared :
                  r.controls[key] = s.controls[key]

\* docs/benchmark-protocol.md:34: "with *all* cells (including OOM, loops,
\* errors)"; line 28: "OOM is a failed cell, not something to hide": where all that is
\* compared comes from completed runs, none of these is a second attempt at an arm
\* and repeat whose first attempt failed.
FailuresCompared ==
  Comparable /\ (\A r \in Records : runs[r.run].end = "completed") =>
    \A n \in {r.run : r \in Records} : \A m \in 1..n - 1 :
      runs[m].arm = runs[n].arm /\ runs[m].repeat = runs[n].repeat => runs[m].end # "failed"
===============================================================================
