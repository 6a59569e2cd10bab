---------------------------- MODULE AgentTrialProofs ----------------------------
(***************************************************************************)
(* Proofs about AgentTrial for every set of invocations and every task:    *)
(* what a session's invariant says carries over to trial after trial, the  *)
(* evaluator agrees with every status that was reported, and the ledger    *)
(* and the output file agree whatever was killed or torn.                  *)
(***************************************************************************)
EXTENDS AgentTrial, AgentSessionProofs

Line == [rec : LedgerRecord \cup {None}, ended : BOOLEAN]

\* A record as make_trial leaves it.
Sound(rec) == /\ rec \in LedgerRecord
              /\ Status(rec) = rec.said
              /\ rec.inv.repeat >= 0 /\ rec.inv.arm # ""
              /\ rec.inv.controls = "complete" /\ rec.inv.hardware = "pinned"

\* The transport has counted the calls that were carried out, and the one that
\* ended the session by being refused.
UsageFollows == /\ Len(usage) - Len(trace) \in 0..1
                /\ \A n \in DOMAIN trace : usage[n] = trace[n].tool
                /\ phase # "done" \/ receipt # None => Len(usage) = Len(trace)

\* One trial: the session's own invariant, and what each stage has settled.
StageInv == /\ SessionInv
            /\ stage \in {"idle", "session", "record", "output"}
            /\ inv \in Invocations \cup {None}
            /\ usage \in Seq(Tools) /\ Len(usage) <= Budget
            /\ stage # "idle" => inv \in Invocations /\ UsageFollows
            /\ stage \in {"record", "output"} =>
                 phase = "done" /\ verdict # "lost" /\ Recordable

\* The files: a line is no record or a sound one, and what is in the output
\* file was in the ledger first.
FilesInv == /\ ledger \in Seq(Line)
            /\ \A n \in DOMAIN ledger : ledger[n].rec = None \/ Sound(ledger[n].rec)
            /\ output \in LedgerRecord \cup {None, Torn}
            /\ trials \in 0..MaxTrials /\ Len(ledger) <= trials
            /\ stage \in {"session", "record"} => Len(ledger) < trials
            /\ stage = "output" /\ Parsable => \E n \in DOMAIN ledger : ledger[n].rec = MadeTrial
            /\ OutputIsRecorded

TrialInv == StageInv /\ FilesInv

(***************************************************************************)
(* The session within a trial.                                             *)
(***************************************************************************)
LEMMA NewSession == Init' => SessionInv'
BY SessionInit, PTL

LEMMA TypesOfASession ==
  ASSUME SessionInv
  PROVE  trace \in Seq(Call) /\ Len(trace) <= Budget /\ Budget \in Nat /\ Len(trace) \in Nat
BY BudgetAssumption DEF SessionInv, TypeOK

LEMMA StageLaunch ==
  ASSUME StageInv, NEW i \in Invocations, Launch(i)
  PROVE  StageInv'
<1>1. Init'
  BY DEF Launch, Init
<1>2. SessionInv'
  BY <1>1, NewSession
<1>3. UsageFollows' /\ usage' \in Seq(Tools) /\ Len(usage') <= Budget
  BY BudgetAssumption DEF Launch, FreshUsage, UsageFollows
<1> QED
  BY <1>2, <1>3 DEF StageInv, Launch

\* A tool call that is carried out is counted and recorded; one that is not
\* ends the session with one call more in the count than in the transcript.
LEMMA UsageToolStep ==
  ASSUME SessionInv, usage \in Seq(Tools), UsageFollows,
         NEW c \in Calls, ToolStep(c), usage' = Append(usage, c.tool)
  PROVE  UsageFollows' /\ usage' \in Seq(Tools) /\ Len(usage') <= Budget
<1>1. c \in Call /\ c.tool \in Tools
  BY EnvironmentAssumption DEF Call
<1>2. /\ InLoop
      /\ \/ Record(c) /\ receipt' = receipt
         \/ trace' = trace /\ phase' = "done" /\ receipt' = None
  BY DEF ToolStep, ListFiles, ReadFile, WriteFile, RunTests, RunTestsBreaks, Finish, Reject,
         RejectEncoding, Raise
<1>3. Len(usage) = Len(trace)
  BY <1>2 DEF InLoop, UsageFollows
<1>4. /\ usage' \in Seq(Tools) /\ Len(usage') = Len(trace) + 1
      /\ \A n \in DOMAIN trace : usage'[n] = trace[n].tool
      /\ usage'[Len(trace) + 1] = c.tool
  BY <1>1, <1>3, TypesOfASession DEF UsageFollows
<1>5. Len(usage') <= Budget
  BY <1>2, <1>4, TypesOfASession DEF InLoop
<1>6. CASE Record(c) /\ receipt' = receipt
  BY <1>1, <1>4, <1>5, <1>6, RecordAppends, TypesOfASession DEF UsageFollows
<1>7. CASE trace' = trace /\ phase' = "done" /\ receipt' = None
  BY <1>4, <1>5, <1>7, TypesOfASession DEF UsageFollows
<1> QED
  BY <1>2, <1>6, <1>7

\* Every other step of a session leaves both alone.
LEMMA UsageOtherStep ==
  ASSUME UsageFollows, NoCall \/ Exhausted \/ Close \/ Judge, UNCHANGED usage, SessionInv
  PROVE  UsageFollows'
<1>1. trace' = trace
  BY DEF NoCall, Exhausted, Close, Judge, Incomplete, Grade, GradeTimesOut, GradeBreaks, Raise
<1>2. phase # "done"
  BY DEF NoCall, Exhausted, Close, Judge, Incomplete, Grade, GradeTimesOut, GradeBreaks, InLoop
<1> QED
  BY <1>1, <1>2 DEF UsageFollows

LEMMA StageMoves ==
  ASSUME StageInv, SessionMoves
  PROVE  StageInv'
<1>1. stage = "session" /\ SessionInv /\ UsageFollows
  BY DEF SessionMoves, StageInv
<1>2. Next
  BY DEF SessionMoves, Next
<1>3. SessionInv'
  BY <1>1, <1>2, SessionStep
<1>4. UsageFollows' /\ usage' \in Seq(Tools) /\ Len(usage') <= Budget
  BY <1>1, UsageToolStep, UsageOtherStep DEF SessionMoves, StageInv
<1> QED
  BY <1>1, <1>3, <1>4 DEF SessionMoves, StageInv

\* Steps that leave the session alone.
LEMMA StageRests ==
  ASSUME StageInv, UNCHANGED <<vars, inv, usage>>,
         \/ stage' = "idle"
         \/ stage' = stage
         \/ /\ stage \in {"session", "record"} /\ stage' \in {"record", "output"}
            /\ phase = "done" /\ verdict # "lost" /\ Recordable
  PROVE  StageInv'
<1>1. SessionInv'
  BY SessionStep DEF StageInv
<1>2. (UsageFollows' <=> UsageFollows) /\ (Recordable' <=> Recordable)
  BY DEF vars, UsageFollows, Recordable
<1> QED
  BY <1>1, <1>2 DEF StageInv, vars

LEMMA StageStep == StageInv /\ [TrialNext]_trialVars => StageInv'
<1> SUFFICES ASSUME StageInv, [TrialNext]_trialVars PROVE StageInv'
  OBVIOUS
<1>1. CASE \E i \in Invocations : Launch(i)
  BY <1>1, StageLaunch
<1>2. CASE SessionMoves
  BY <1>2, StageMoves
<1>3. CASE Returns
  BY <1>3, StageRests DEF Returns
<1>4. CASE AppendTrial
  BY <1>4, StageRests DEF AppendTrial, StageInv
<1>5. CASE Drops \/ TearAppend \/ WriteOutput \/ TearOutput \/ Kill
  BY <1>5, StageRests DEF Drops, TearAppend, WriteOutput, TearOutput, Kill, Exit
<1>6. CASE UNCHANGED trialVars
  BY <1>6, StageRests DEF trialVars
<1> QED
  BY <1>1, <1>2, <1>3, <1>4, <1>5, <1>6 DEF TrialNext

(***************************************************************************)
(* The files.                                                              *)
(***************************************************************************)

\* What main appends is a sound record: the status run_live reported is the one
\* the evaluator will derive.
LEMMA MadeTrialSound ==
  ASSUME StageInv, stage \in {"record", "output"}
  PROVE  Sound(MadeTrial)
<1>1. /\ SessionInv /\ phase = "done" /\ verdict # "lost" /\ Recordable
      /\ inv \in Invocations /\ usage \in Seq(Tools) /\ Len(usage) <= Budget
  BY DEF StageInv
<1>2. verdict \in Verdicts /\ verdict # "open" /\ receipt \in Receipt \cup {None}
  BY <1>1 DEF SessionInv, TypeOK
<1>3. Len(usage) \in 0..Budget
  BY <1>1, BudgetAssumption
<1>4. MadeTrial \in LedgerRecord
  BY <1>1, <1>2, <1>3 DEF MadeTrial, LedgerRecord
<1>5. CASE receipt = None
  <2>1. verdict \in {"fail", "unverified"}
    BY <1>1, <1>2, <1>5 DEF SessionInv, Verdicts
  <2>2. Status(MadeTrial) = verdict
    BY <1>5, <2>1 DEF Status, MadeTrial
  <2> QED
    BY <1>1, <1>4, <2>2 DEF Sound, MadeTrial, Recordable
<1>6. CASE receipt # None
  <2>1. verdict = IF Accepts(receipt) THEN "pass" ELSE "fail"
    BY <1>1, <1>6 DEF SessionInv
  <2>2. Status(MadeTrial) = verdict
    BY <1>6, <2>1 DEF Status, MadeTrial
  <2> QED
    BY <1>1, <1>4, <2>2 DEF Sound, MadeTrial, Recordable
<1> QED
  BY <1>5, <1>6

\* A write keeps the lines that were there, or spoils the ledger for good.
LEMMA WriteLines ==
  ASSUME ledger \in Seq(Line), NEW rec \in LedgerRecord \cup {None}, NEW ended \in BOOLEAN,
         Write(rec, ended)
  PROVE  /\ ledger' \in Seq(Line) /\ Len(ledger') <= Len(ledger) + 1
         /\ \A n \in DOMAIN ledger' :
              \/ ledger'[n].rec \in {None, rec}
              \/ n \in DOMAIN ledger /\ ledger'[n].rec = ledger[n].rec
         /\ Parsable' => /\ Parsable
                         /\ \A n \in DOMAIN ledger : n \in DOMAIN ledger' /\ ledger'[n] = ledger[n]
                         /\ Len(ledger') \in DOMAIN ledger' /\ ledger'[Len(ledger')].rec = rec
<1> DEFINE last == Len(ledger)
<1>1. CASE Unended
  <2>1. last \in DOMAIN ledger /\ last \in Nat
    BY <1>1 DEF Unended
  <2>2. ledger' = [ledger EXCEPT ![last] = [rec |-> None, ended |-> ended]]
    BY <1>1 DEF Write
  <2>3. [rec |-> None, ended |-> ended] \in Line
    BY DEF Line
  <2>4. ledger' \in Seq(Line) /\ Len(ledger') = last /\ DOMAIN ledger' = DOMAIN ledger
    BY <2>1, <2>2, <2>3
  <2>5. ledger'[last].rec = None /\ \A n \in DOMAIN ledger : n # last => ledger'[n] = ledger[n]
    BY <2>1, <2>2
  <2>6. ~Parsable'
    BY <2>1, <2>4, <2>5 DEF Parsable
  <2> QED
    BY <2>1, <2>4, <2>5, <2>6
<1>2. CASE ~Unended
  <2>1. ledger' = Append(ledger, [rec |-> rec, ended |-> ended])
    BY <1>2 DEF Write
  <2>2. [rec |-> rec, ended |-> ended] \in Line
    BY DEF Line
  <2>3. /\ ledger' \in Seq(Line) /\ Len(ledger') = last + 1
        /\ ledger'[last + 1].rec = rec /\ last + 1 \in DOMAIN ledger'
        /\ \A n \in DOMAIN ledger : n \in DOMAIN ledger' /\ ledger'[n] = ledger[n]
        /\ \A n \in DOMAIN ledger' : n \in DOMAIN ledger \/ n = last + 1
    BY <2>1, <2>2
  <2>4. Parsable' => Parsable
    BY <2>3 DEF Parsable
  <2> QED
    BY <2>3, <2>4
<1> QED
  BY <1>1, <1>2

\* A ledger that still parses has lost no record.
LEMMA OutputStaysRecorded ==
  ASSUME FilesInv, NEW rec, NEW ended \in BOOLEAN, rec \in LedgerRecord \cup {None},
         Write(rec, ended), output' = output
  PROVE  OutputIsRecorded'
BY WriteLines DEF FilesInv, OutputIsRecorded

LEMMA FilesAppend ==
  ASSUME StageInv, FilesInv, AppendTrial
  PROVE  FilesInv'
<1>1. Sound(MadeTrial) /\ MadeTrial \in LedgerRecord
  BY MadeTrialSound DEF AppendTrial, Sound
<1>2. Write(MadeTrial, TRUE) /\ ledger \in Seq(Line) /\ stage = "record" /\ stage' = "output"
  BY DEF AppendTrial, FilesInv
<1>3. MadeTrial' = MadeTrial
  BY DEF AppendTrial, MadeTrial, vars
<1>4. OutputIsRecorded'
  BY <1>1, <1>2, OutputStaysRecorded DEF AppendTrial
<1>5. \A n \in DOMAIN ledger' : ledger'[n].rec = None \/ Sound(ledger'[n].rec)
  BY <1>1, <1>2, WriteLines DEF FilesInv
<1>6. Parsable' => \E n \in DOMAIN ledger' : ledger'[n].rec = MadeTrial'
  BY <1>1, <1>2, <1>3, WriteLines
<1>7. ledger' \in Seq(Line) /\ Len(ledger') <= trials'
  <2>1. ledger' \in Seq(Line) /\ Len(ledger') <= Len(ledger) + 1
    BY <1>1, <1>2, WriteLines
  <2>2. Len(ledger) < trials /\ trials' = trials /\ trials \in Nat
    BY <1>2 DEF AppendTrial, FilesInv
  <2> QED
    BY <2>1, <2>2, <1>2
<1> QED
  BY <1>2, <1>4, <1>5, <1>6, <1>7 DEF FilesInv, AppendTrial, Sound

LEMMA FilesTear ==
  ASSUME StageInv, FilesInv, TearAppend
  PROVE  FilesInv'
<1>1. Sound(MadeTrial) /\ MadeTrial \in LedgerRecord
  BY MadeTrialSound DEF TearAppend, Sound
<1>2. PICK rec \in {None, MadeTrial} : Write(rec, FALSE)
  BY DEF TearAppend
<1>3. /\ rec \in LedgerRecord \cup {None} /\ (rec = None \/ Sound(rec))
      /\ ledger \in Seq(Line) /\ stage = "record" /\ stage' = "idle" /\ trials' = trials
      /\ output' = output
  BY <1>1 DEF FilesInv, TearAppend, Exit
<1>4. OutputIsRecorded'
  BY <1>2, <1>3, OutputStaysRecorded
<1>5. \A n \in DOMAIN ledger' : ledger'[n].rec = None \/ Sound(ledger'[n].rec)
  BY <1>2, <1>3, WriteLines DEF FilesInv
<1>6. ledger' \in Seq(Line) /\ Len(ledger') <= trials'
  <2>1. ledger' \in Seq(Line) /\ Len(ledger') <= Len(ledger) + 1
    BY <1>2, <1>3, WriteLines
  <2>2. Len(ledger) < trials /\ trials \in Nat
    BY <1>3 DEF FilesInv
  <2> QED
    BY <2>1, <2>2, <1>3
<1> QED
  BY <1>3, <1>4, <1>5, <1>6 DEF FilesInv

\* Steps that leave the ledger alone.
LEMMA FilesRest ==
  ASSUME FilesInv, UNCHANGED ledger,
         UNCHANGED <<output, trials>>,
         \/ stage' \in {stage, "idle"}
         \/ stage = "session" /\ stage' = "record",
         stage' # "output" \/ MadeTrial' = MadeTrial
  PROVE  FilesInv'
<1>1. Parsable' <=> Parsable
  BY DEF Parsable
<1>2. OutputIsRecorded'
  BY <1>1 DEF FilesInv, OutputIsRecorded
<1> QED
  BY <1>1, <1>2 DEF FilesInv

LEMMA FilesLaunch ==
  ASSUME FilesInv, NEW i \in Invocations, Launch(i)
  PROVE  FilesInv'
<1>1. ledger' = ledger /\ output' = output /\ (Parsable' <=> Parsable)
  BY DEF Launch, files, Parsable
<1>2. trials' \in 0..MaxTrials /\ Len(ledger) < trials'
  BY TrialsAssumption DEF Launch, FilesInv
<1> QED
  BY <1>1, <1>2 DEF FilesInv, Launch, OutputIsRecorded

LEMMA FilesWriteOutput ==
  ASSUME StageInv, FilesInv, WriteOutput
  PROVE  FilesInv'
<1>1. MadeTrial \in LedgerRecord
  BY MadeTrialSound DEF WriteOutput, Sound
<1>2. /\ ledger' = ledger /\ (Parsable' <=> Parsable) /\ output' = MadeTrial
      /\ stage = "output" /\ stage' = "idle" /\ trials' = trials
  BY DEF WriteOutput, Exit, Parsable
<1> QED
  BY <1>1, <1>2 DEF FilesInv, OutputIsRecorded

LEMMA FilesStep == StageInv /\ FilesInv /\ [TrialNext]_trialVars => FilesInv'
<1> SUFFICES ASSUME StageInv, FilesInv, [TrialNext]_trialVars PROVE FilesInv'
  OBVIOUS
<1>1. CASE \E i \in Invocations : Launch(i)
  BY <1>1, FilesLaunch
<1>2. CASE SessionMoves \/ Returns
  BY <1>2, FilesRest DEF SessionMoves, Returns, files
<1>3. CASE Drops \/ Kill
  BY <1>3, FilesRest DEF Drops, Kill, Exit, files
<1>4. CASE AppendTrial
  BY <1>4, FilesAppend
<1>5. CASE TearAppend
  BY <1>5, FilesTear
<1>6. CASE WriteOutput
  BY <1>6, FilesWriteOutput
<1>7. CASE TearOutput
  <2>1. /\ ledger' = ledger /\ (Parsable' <=> Parsable) /\ output' = Torn
        /\ stage' = "idle" /\ trials' = trials
    BY <1>7 DEF TearOutput, Exit, Parsable
  <2> QED
    BY <2>1 DEF FilesInv, OutputIsRecorded
<1>8. CASE UNCHANGED trialVars
  BY <1>8, FilesRest DEF trialVars, files, vars, MadeTrial
<1> QED
  BY <1>1, <1>2, <1>3, <1>4, <1>5, <1>6, <1>7, <1>8 DEF TrialNext

LEMMA TrialStarts == TrialInit => TrialInv
<1> SUFFICES ASSUME TrialInit PROVE TrialInv
  OBVIOUS
<1>1. SessionInv
  BY SessionInit DEF TrialInit
<1>2. StageInv
  BY <1>1, BudgetAssumption DEF TrialInit, StageInv
<1>3. FilesInv
  BY TrialsAssumption DEF TrialInit, FilesInv, OutputIsRecorded
<1> QED
  BY <1>2, <1>3 DEF TrialInv

\* The session's invariant holds in every trial, and the files agree with it.
THEOREM TrialCorrect == TrialSpec => []TrialInv
<1>1. TrialInv /\ [TrialNext]_trialVars => TrialInv'
  BY StageStep, FilesStep DEF TrialInv
<1> QED
  BY <1>1, TrialStarts, PTL DEF TrialSpec

(***************************************************************************)
(* What follows from it.                                                   *)
(***************************************************************************)

\* Every variable keeps its type, and there is at most one line a trial.
THEOREM TrialTypeCorrect == TrialSpec => []TrialTypeOK
<1>1. TrialInv => TrialTypeOK
  BY DEF TrialInv, StageInv, FilesInv, SessionInv, TrialTypeOK, Line
<1> QED
  BY <1>1, TrialCorrect, PTL

\* The evaluator, from the ledger alone, comes to the status that was reported.
THEOREM VerdictStandsHolds == TrialSpec => []VerdictStands
<1>1. TrialInv => VerdictStands
  BY DEF TrialInv, FilesInv, VerdictStands, Sound
<1> QED
  BY <1>1, TrialCorrect, PTL

\* A trial's turns are its own session's, whatever earlier trials did.
THEOREM TurnsAreTheSessionsHolds == TrialSpec => []TurnsAreTheSessions
<1>1. TrialInv => TurnsAreTheSessions
  <2> SUFFICES ASSUME TrialInv, stage \in {"record", "output"}
               PROVE  /\ SubSeq(usage, 1, Len(trace)) = [n \in DOMAIN trace |-> trace[n].tool]
                      /\ Len(usage) - Len(trace) \in 0..1
                      /\ receipt # None => Len(usage) = Len(trace)
    BY DEF TurnsAreTheSessions
  <2>1. /\ UsageFollows /\ usage \in Seq(Tools) /\ trace \in Seq(Call)
    BY DEF TrialInv, StageInv, SessionInv, TypeOK
  <2>2. DOMAIN trace = 1..Len(trace) /\ Len(trace) \in Nat /\ Len(trace) <= Len(usage)
    BY <2>1 DEF UsageFollows
  <2>3. SubSeq(usage, 1, Len(trace)) = [n \in 1..Len(trace) |-> usage[n]]
    BY <2>1, <2>2
  <2> QED
    BY <2>1, <2>2, <2>3 DEF UsageFollows
<1> QED
  BY <1>1, TrialCorrect, PTL

\* A result in the output file is in the ledger too, unless that was spoilt.
THEOREM OutputIsRecordedHolds == TrialSpec => []OutputIsRecorded
<1>1. TrialInv => OutputIsRecorded
  BY DEF TrialInv, FilesInv
<1> QED
  BY <1>1, TrialCorrect, PTL

\* The evaluator takes the ledger, but for the three things an operator can see.
THEOREM RecordsCompatibleHolds == TrialSpec => []RecordsCompatible
<1>1. TrialInv => RecordsCompatible
  <2> SUFFICES ASSUME TrialInv, ledger # <<>>, Parsable,
                      \A n \in DOMAIN ledger : ~(ledger[n].rec.inv.repeat > MaxRepeat),
                      \A m, n \in DOMAIN ledger :
                        /\ ledger[m].rec.inv.arm = ledger[n].rec.inv.arm
                        /\ ledger[m].rec.inv.repeat = ledger[n].rec.inv.repeat
                        => m = n
               PROVE  Evaluable
    BY DEF RecordsCompatible
  <2>1. ASSUME NEW n \in DOMAIN ledger PROVE ValidTrial(ledger[n].rec)
    <3>1. Sound(ledger[n].rec)
      BY DEF TrialInv, FilesInv, Parsable
    <3>2. ledger[n].rec.inv.repeat \in Int
      BY <3>1, TrialsAssumption DEF Sound, LedgerRecord, Invocation
    <3>3. ledger[n].rec.inv.repeat \in 0..MaxRepeat
      <4>1. ledger[n].rec.inv.repeat >= 0
        BY <3>1 DEF Sound
      <4>2. ~(ledger[n].rec.inv.repeat > MaxRepeat)
        OBVIOUS
      <4> QED
        BY <3>2, <4>1, <4>2, TrialsAssumption
    <3> QED
      BY <3>1, <3>3 DEF Sound, ValidTrial
  <2> QED
    BY <2>1 DEF Evaluable
<1> QED
  BY <1>1, TrialCorrect, PTL

\* A pass is earned in every trial, not only in the first.
THEOREM PassIsEarnedInEveryTrial == TrialSpec => []PassIsEarned
<1>1. TrialInv => PassIsEarned
  BY SessionPassIsEarned DEF TrialInv, StageInv
<1> QED
  BY <1>1, TrialCorrect, PTL
===============================================================================
