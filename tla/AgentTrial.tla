------------------------------ MODULE AgentTrial ------------------------------
(***************************************************************************)
(* Live agent trials one after another: bench/agent_http.py:main starts a  *)
(* session with a transport of its own, turns its result into a trial      *)
(* (bench/agent_records.py:make_trial), appends that to the ledger and     *)
(* writes the result to the output file; bench/fitness.py reads the ledger *)
(* back and settles every verdict again.  The process can be killed, or    *)
(* the disk be full, at any point, and the operator starts the next trial  *)
(* with whatever arm, repeat and receipts are at hand.                     *)
(*                                                                         *)
(* What main refuses before the session starts leaves no trace and is no   *)
(* step here; its gate is in PreflightGate.                                *)
(***************************************************************************)
EXTENDS AgentSession, Integers

CONSTANTS
  Invocations,  \* --arm, --repeat, --controls and --hardware-receipt of a trial
  MaxRepeat,    \* the largest repeat validate_trial admits
  MaxTrials,    \* bound: trials started
  Torn          \* a file cut short while it was written

\* Controls are complete or lack a required key; a hardware receipt is complete
\* and names the pinned revisions, or lacks a field, or names other revisions.
Invocation == [arm : STRING, repeat : Int, controls : {"complete", "incomplete"},
               hardware : {"pinned", "incomplete", "other"}]

ASSUME TrialsAssumption == /\ Invocations \subseteq Invocation
                           /\ MaxRepeat \in Nat /\ MaxTrials \in Nat
                           /\ Torn # None

VARIABLES
  stage,    \* what the process does: "idle", "session", "record", "output"
  inv,      \* its invocation
  usage,    \* transport.usage: the tool of every reply that was a call
  ledger,   \* the file: its lines, as [rec, ended]; ended by a newline or not
  output,   \* the output file
  trials    \* how many trials were started

files == <<ledger, output>>
trialVars == <<vars, stage, inv, usage, files, trials>>

\* A ledger record; "said" is the status run_live reported for it (history).
LedgerRecord == [inv : Invocations, receipt : Receipt \cup {None}, agent_failed : BOOLEAN,
            model_turns : 0..Budget, said : Verdicts]

TrialInit == /\ Init
             /\ stage = "idle" /\ inv = None /\ usage = <<>>
             /\ ledger = <<>> /\ output = None /\ trials = 0

-------------------------------------------------------------------------------
(* A trial from its start to its result.                                   *)

\* Deviation: all transports append to one list.
UsageShared == UNCHANGED usage

FreshUsage == usage' = <<>>

Launch(i) == /\ stage = "idle" /\ trials < MaxTrials
             /\ stage' = "session" /\ inv' = i /\ trials' = trials + 1
             /\ FreshUsage
             /\ phase' = "turns" /\ working' = Template
             /\ inspected' = {} /\ writes' = {} /\ tested' = FALSE /\ trace' = <<>>
             /\ receipt' = None /\ verdict' = "open"
             /\ visibleSaw' = None /\ cause' = "none"
             /\ UNCHANGED files

\* complete counts the tokens of a turn before the call is carried out.
SessionMoves == /\ stage = "session"
               /\ \/ NoCall /\ UNCHANGED usage
                  \/ \E c \in Calls : ToolStep(c) /\ usage' = Append(usage, c.tool)
                  \/ (Exhausted \/ Close \/ Judge) /\ UNCHANGED usage
               /\ UNCHANGED <<stage, inv, files, trials>>

\* Deviation: the hardware receipt's revisions are compared, its other fields not.
RecordableUnchecked == /\ inv.repeat >= 0 /\ inv.arm # ""
                       /\ inv.controls = "complete" /\ inv.hardware # "other"

\* What make_trial asks of the invocation, once the session is over.
Recordable == /\ inv.repeat >= 0 /\ inv.arm # ""
              /\ inv.controls = "complete" /\ inv.hardware = "pinned"

Exit == stage' = "idle" /\ UNCHANGED <<vars, inv, usage, trials>>

\* run_live returns a result, and make_trial a trial.
Returns == /\ stage = "session" /\ phase = "done"
           /\ verdict # "lost" /\ Recordable
           /\ stage' = "record"
           /\ UNCHANGED <<vars, inv, usage, files, trials>>

\* An exception run_live does not catch, or a trial make_trial refuses: the
\* result of the session is dropped.
Drops == /\ stage = "session" /\ phase = "done"
         /\ verdict = "lost" \/ ~Recordable
         /\ Exit /\ UNCHANGED files

\* agent_failed is set by run_live for an exception it puts down to the agent.
MadeTrial == [inv |-> inv, receipt |-> receipt,
              agent_failed |-> receipt = None /\ verdict = "fail",
              model_turns |-> Len(usage), said |-> verdict]

-------------------------------------------------------------------------------
(* The two files.                                                          *)

Unended == ledger # <<>> /\ ~ledger[Len(ledger)].ended

\* Text appended to the ledger joins a last line that has no newline.
Write(rec, ended) ==
  ledger' = IF Unended
              THEN [ledger EXCEPT ![Len(ledger)] = [rec |-> None, ended |-> ended]]
              ELSE Append(ledger, [rec |-> rec, ended |-> ended])

AppendTrial == /\ stage = "record"
               /\ Write(MadeTrial, TRUE)
               /\ stage' = "output"
               /\ UNCHANGED <<vars, inv, usage, output, trials>>

\* The append ends within the record, or before its newline, and the process
\* with it.
TearAppend == /\ stage = "record"
              /\ Write(None, FALSE) \/ Write(MadeTrial, FALSE)
              /\ Exit /\ UNCHANGED output

\* Deviation: the output file is written as soon as there is a trial.
WriteOutputFirst == /\ stage \in {"record", "output"}
                    /\ output' = MadeTrial
                    /\ Exit /\ UNCHANGED ledger

WriteOutput == /\ stage = "output"
               /\ output' = MadeTrial
               /\ Exit /\ UNCHANGED ledger

\* write_text empties the file before it writes.
TearOutput == /\ stage = "output"
              /\ output' = Torn
              /\ Exit /\ UNCHANGED ledger

Kill == stage # "idle" /\ Exit /\ UNCHANGED files

TrialNext == \/ \E i \in Invocations : Launch(i)
             \/ SessionMoves \/ Returns \/ Drops
             \/ AppendTrial \/ TearAppend \/ WriteOutput \/ TearOutput \/ Kill

TrialSpec == TrialInit /\ [][TrialNext]_trialVars

-------------------------------------------------------------------------------
(* bench/fitness.py on the ledger.                                         *)

Parsable == \A n \in DOMAIN ledger : ledger[n].rec # None

\* validate_trial: what can be wrong with a record that make_trial made.
ValidTrial(rec) == /\ rec.inv.arm # "" /\ rec.inv.repeat \in 0..MaxRepeat
                   /\ rec.inv.controls = "complete"
                   /\ rec.inv.hardware # "incomplete"

Evaluable == /\ ledger # <<>> /\ Parsable
             /\ \A n \in DOMAIN ledger : ValidTrial(ledger[n].rec)
             /\ \A m, n \in DOMAIN ledger :
                  LET a == ledger[m].rec.inv   b == ledger[n].rec.inv
                  IN  a.arm = b.arm /\ a.repeat = b.repeat => m = n

\* Deviation: agent_failed is not looked at.
StatusReceipt(rec) == IF rec.receipt = None THEN "unverified"
                      ELSE IF Accepts(rec.receipt) THEN "pass" ELSE "fail"

\* judge_repo and evaluate's override.
Status(rec) == IF rec.agent_failed THEN "fail"
               ELSE IF rec.receipt = None THEN "unverified"
               ELSE IF Accepts(rec.receipt) THEN "pass" ELSE "fail"

-------------------------------------------------------------------------------
(* Properties.                                                             *)

TrialTypeOK == /\ TypeOK
               /\ stage \in {"idle", "session", "record", "output"}
               /\ inv \in Invocations \cup {None}
               /\ usage \in Seq(Tools) /\ Len(usage) <= Budget
               /\ ledger \in Seq([rec : LedgerRecord \cup {None}, ended : BOOLEAN])
               /\ Len(ledger) <= trials
               /\ output \in LedgerRecord \cup {None, Torn}
               /\ trials \in 0..MaxTrials

\* The evaluator, which has nothing but the ledger, comes to the status that
\* run_live reported when the trial ended, whether it ended in a grade, in a
\* failure of the agent or in one of the infrastructure.
VerdictStands == \A n \in DOMAIN ledger :
                   LET rec == ledger[n].rec IN rec # None => Status(rec) = rec.said

\* The turns and tokens a trial reports are those of its own session: every
\* call that was carried out and at most one more, the call that ended it
\* (usage is kept by the transport, the transcript by the loop).
TurnsAreTheSessions ==
  stage \in {"record", "output"} =>
    /\ SubSeq(usage, 1, Len(trace)) = [n \in DOMAIN trace |-> trace[n].tool]
    /\ Len(usage) - Len(trace) \in 0..1
    /\ receipt # None => Len(usage) = Len(trace)

\* Whatever was killed or torn before, a result in the output file is also in
\* the ledger, unless an append that was cut short has spoilt the ledger.
OutputIsRecorded ==
  output \notin {None, Torn} /\ Parsable => \E n \in DOMAIN ledger : ledger[n].rec = output

\* bench/agent_live_README.md:50: a run "writes one private ... record compatible
\* with `python -m bench.fitness`": the evaluator takes every ledger the trials
\* leave behind, but for a torn append, a repeat above its own limit, and an arm
\* and repeat used twice.
RecordsCompatible ==
  ledger # <<>> /\ ~Evaluable =>
    \/ ~Parsable
    \/ \E n \in DOMAIN ledger : ledger[n].rec.inv.repeat > MaxRepeat
    \/ \E m, n \in DOMAIN ledger : /\ m # n
                                   /\ ledger[m].rec.inv.arm = ledger[n].rec.inv.arm
                                   /\ ledger[m].rec.inv.repeat = ledger[n].rec.inv.repeat
===============================================================================
