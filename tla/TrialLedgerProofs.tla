-------------------------- MODULE TrialLedgerProofs --------------------------
(***************************************************************************)
(* The ledger for any suite, any controls and any number of runs: what an  *)
(* accepted file says of the runs that wrote it.                           *)
(***************************************************************************)
EXTENDS TrialLedger, SequenceTheorems, FiniteSetTheorems, TLAPS

Line == [rec : Trial \cup {None}, ended : BOOLEAN]

\* Every line so far is a record.
AllParse == \A i \in DOMAIN ledger : ledger[i].rec # None

\* A record carries what its run was started with.
OfItsRun ==
  \A i \in DOMAIN ledger :
    ledger[i].rec # None =>
      LET r == ledger[i].rec IN
      /\ r.run \in DOMAIN runs
      /\ r.arm = runs[r.run].arm /\ r.repeat = runs[r.run].repeat
      /\ r.controls = runs[r.run].controls /\ r.telemetry = runs[r.run].telemetry

\* The suite's first case stands in the ledger for run k.
Opened(k) == \E i \in DOMAIN ledger : ledger[i].rec.run = k /\ ledger[i].rec.case = Cases[1]

\* As long as no line is torn, a run that has a record has one of the first case.
OpenedFirst ==
  AllParse => /\ \A i \in DOMAIN ledger : Opened(ledger[i].rec.run)
              /\ Running /\ next > 1 => Opened(Len(runs))

LedgerInv == TypeOK /\ OfItsRun /\ OpenedFirst

-------------------------------------------------------------------------------
(* What the operators do to the file.                                      *)

\* A last run exists while one is running.
LEMMA RunningRun ==
  ASSUME TypeOK, Running
  PROVE  Len(runs) \in DOMAIN runs /\ Len(runs) \in 1..MaxRuns /\ runs[Len(runs)] \in Run
<1>1. Len(runs) \in Nat /\ DOMAIN runs = 1..Len(runs) /\ Len(runs) # 0
  BY EmptySeq, LenProperties DEF TypeOK, Running
<1>2. Len(runs) \in DOMAIN runs /\ Len(runs) \in 1..MaxRuns
  BY <1>1, RangeAssumption DEF TypeOK
<1> QED
  BY <1>1, <1>2, ElementOfSeq DEF TypeOK

\* The record of the case that a running run has reached is a trial of that run.
LEMMA CurrentIsTrial == ASSUME TypeOK, Running PROVE Current \in Trial
<1>1. Len(runs) \in 1..MaxRuns /\ runs[Len(runs)] \in Run
  BY RunningRun
<1>2. next \in 1..Len(Cases)
  BY SuiteAssumption, LenProperties DEF TypeOK
<1>3. Cases[next] \in Suite
  BY <1>2 DEF Suite
<1> QED
  BY <1>1, <1>3 DEF Current, Trial, Run

\* Ending a run changes its end and nothing else.
LEMMA EndedRun ==
  ASSUME TypeOK, Running, NEW how \in {"completed", "failed"}, EndRun(how)
  PROVE  /\ runs' \in Seq(Run) /\ Len(runs') = Len(runs)
         /\ \A k \in DOMAIN runs : /\ k \in DOMAIN runs'
                                   /\ runs'[k].arm = runs[k].arm
                                   /\ runs'[k].repeat = runs[k].repeat
                                   /\ runs'[k].controls = runs[k].controls
                                   /\ runs'[k].telemetry = runs[k].telemetry
         /\ ~Running'
<1> DEFINE last == Len(runs)   run == [runs[last] EXCEPT !.end = how]
<1>1. last \in 1..Len(runs) /\ runs[last] \in Run /\ DOMAIN runs = 1..Len(runs)
  BY RunningRun, LenProperties DEF TypeOK
<1>2. /\ run \in Run /\ run.end = how
      /\ run.arm = runs[last].arm /\ run.repeat = runs[last].repeat
      /\ run.controls = runs[last].controls /\ run.telemetry = runs[last].telemetry
  BY <1>1 DEF Run
<1>3. runs' = [runs EXCEPT ![last] = run]
  BY DEF EndRun
<1>4. /\ runs' \in Seq(Run) /\ Len(runs') = Len(runs)
      /\ \A k \in 1..Len(runs) : runs'[k] = IF k = last THEN run ELSE runs[k]
  BY <1>1, <1>2, <1>3, ExceptSeq DEF TypeOK
<1>5. DOMAIN runs' = DOMAIN runs
  BY <1>3
<1>6. ~Running'
  BY <1>1, <1>2, <1>4 DEF Running
<1> HIDE DEF run
<1> QED
  BY <1>1, <1>2, <1>4, <1>5, <1>6

\* A write keeps the file's earlier lines, except that it spoils an unended last one.
LEMMA Written ==
  ASSUME TypeOK, NEW rec \in Trial \cup {None}, NEW ended \in BOOLEAN, Write(rec, ended)
  PROVE  /\ ledger' \in Seq(Line) /\ ledger' # <<>>
         /\ DOMAIN ledger \subseteq DOMAIN ledger'
         /\ \A i \in DOMAIN ledger' :
              \/ i \in DOMAIN ledger /\ ledger'[i] = ledger[i]
              \/ ledger'[i].rec \in {rec, None}
         /\ AllParse' => /\ ledger' = Append(ledger, [rec |-> rec, ended |-> ended])
                         /\ AllParse
                         /\ \A i \in DOMAIN ledger : ledger'[i] = ledger[i]
                         /\ Len(ledger') \in DOMAIN ledger' /\ ledger'[Len(ledger')].rec = rec
                         /\ \A i \in DOMAIN ledger' : i \in DOMAIN ledger \/ i = Len(ledger')
<1> DEFINE new == [rec |-> rec, ended |-> ended]   torn == [rec |-> None, ended |-> ended]
<1>1. /\ ledger \in Seq(Line) /\ Len(ledger) \in Nat /\ DOMAIN ledger = 1..Len(ledger)
      /\ new \in Line /\ torn \in Line /\ new.rec = rec /\ torn.rec = None
  BY LenProperties DEF TypeOK, Line
<1> HIDE DEF new, torn
<1>2. CASE Unended
  <2>1. ledger # <<>> /\ ledger' = [ledger EXCEPT ![Len(ledger)] = torn]
    BY <1>2 DEF Write, Unended, torn
  <2>2. Len(ledger) \in 1..Len(ledger)
    BY <1>1, <2>1, EmptySeq
  <2>3. /\ ledger' \in Seq(Line) /\ Len(ledger') = Len(ledger)
        /\ \A j \in 1..Len(ledger) : ledger'[j] = IF j = Len(ledger) THEN torn ELSE ledger[j]
    BY <1>1, <2>1, <2>2, ExceptSeq
  <2>4. DOMAIN ledger' = DOMAIN ledger /\ ledger' # <<>>
    BY <1>1, <2>1, <2>2
  <2>5. Len(ledger) \in DOMAIN ledger' /\ ledger'[Len(ledger)].rec = None
    BY <1>1, <2>2, <2>3, <2>4
  <2>6. ~AllParse'
    BY <2>5 DEF AllParse
  <2>7. \A i \in DOMAIN ledger' : \/ i \in DOMAIN ledger /\ ledger'[i] = ledger[i]
                                  \/ ledger'[i].rec \in {rec, None}
    BY <1>1, <2>3, <2>4, <2>5
  <2> QED
    BY <2>3, <2>4, <2>6, <2>7
<1>3. CASE ~Unended
  <2>1. ledger' = Append(ledger, new)
    BY <1>3 DEF Write, new
  <2>2. /\ ledger' \in Seq(Line) /\ ledger' # <<>> /\ Len(ledger') = Len(ledger) + 1
        /\ \A i \in 1..Len(ledger) : ledger'[i] = ledger[i]
        /\ ledger'[Len(ledger) + 1] = new
    BY <1>1, <2>1, AppendProperties
  <2>3. DOMAIN ledger' = 1..(Len(ledger) + 1)
    BY <2>2, LenProperties
  <2>4. /\ DOMAIN ledger \subseteq DOMAIN ledger'
        /\ \A i \in DOMAIN ledger' : i \in DOMAIN ledger \/ i = Len(ledger')
        /\ Len(ledger') \in DOMAIN ledger' /\ ledger'[Len(ledger')].rec = rec
    BY <1>1, <2>2, <2>3
  <2>5. \A i \in DOMAIN ledger : ledger'[i] = ledger[i]
    BY <1>1, <2>2
  <2>6. AllParse' => AllParse
    BY <2>4, <2>5 DEF AllParse
  <2> QED
    BY <2>1, <2>2, <2>4, <2>5, <2>6 DEF new
<1> QED
  BY <1>2, <1>3

-------------------------------------------------------------------------------
(* Types.                                                                  *)

LEMMA LedgerTypeStep == TypeOK /\ [Next]_vars => TypeOK'
<1> SUFFICES ASSUME TypeOK, [Next]_vars PROVE TypeOK'
  OBVIOUS
<1>0. /\ Len(runs) \in Nat /\ DOMAIN runs = 1..Len(runs)
      /\ Len(Cases) \in Nat \ {0}
  BY SuiteAssumption, EmptySeq, LenProperties DEF TypeOK
<1>1. ASSUME NEW arm \in Arms, NEW repeat \in Repeats,
             NEW settings \in SettingsOf[arm], Start(arm, repeat, settings)
      PROVE  TypeOK'
  <2> DEFINE run == [arm |-> arm, repeat |-> repeat, controls |-> settings.controls,
                     telemetry |-> settings.telemetry, end |-> "running"]
  <2>1. settings \in Settings
    BY ControlAssumption
  <2>2. run \in Run
    BY <2>1 DEF Run, Settings
  <2>3. runs' = Append(runs, run) /\ Len(runs) < MaxRuns /\ next' = 1 /\ ledger' = ledger
    BY <1>1 DEF Start
  <2>4. runs' \in Seq(Run) /\ Len(runs') = Len(runs) + 1
    BY <2>2, <2>3, AppendProperties DEF TypeOK
  <2>5. Len(runs') <= MaxRuns
    BY <1>0, <2>3, <2>4, RangeAssumption
  <2>6. next' \in 1..Len(Cases) + 1 /\ next' <= Len(Cases)
    BY <1>0, <2>3
  <2> QED
    BY <2>3, <2>4, <2>5, <2>6 DEF TypeOK
<1>2. CASE Fail
  <2>1. Running /\ EndRun("failed") /\ ledger' = ledger /\ next' = next
    BY <1>2 DEF Fail
  <2>2. runs' \in Seq(Run) /\ Len(runs') = Len(runs) /\ ~Running'
    BY <2>1, EndedRun
  <2> QED
    BY <2>1, <2>2 DEF TypeOK
<1>3. CASE AppendCase
  <2>1. Running /\ Current \in Trial /\ Write(Current, TRUE)
    BY <1>3, CurrentIsTrial DEF AppendCase
  <2>2. ledger' \in Seq([rec : Trial \cup {None}, ended : BOOLEAN])
    BY <2>1, Written DEF Line
  <2>3. next' = next + 1 /\ next \in 1..Len(Cases)
    BY <1>0, <1>3, <2>1 DEF AppendCase, TypeOK
  <2>4. CASE next = Len(Cases)
    <3>1. runs' \in Seq(Run) /\ Len(runs') = Len(runs) /\ ~Running'
      BY <1>3, <2>1, <2>4, EndedRun DEF AppendCase
    <3> QED
      BY <1>0, <2>2, <2>3, <3>1 DEF TypeOK
  <2>5. CASE next # Len(Cases)
    <3>1. runs' = runs
      BY <1>3, <2>5 DEF AppendCase
    <3>2. next' \in 1..Len(Cases) + 1 /\ next' <= Len(Cases)
      BY <1>0, <2>3, <2>5
    <3> QED
      BY <2>2, <3>1, <3>2 DEF TypeOK
  <2> QED
    BY <2>4, <2>5
<1>4. CASE TearAppend
  <2>1. Running /\ Current \in Trial /\ EndRun("failed") /\ next' = next
    BY <1>4, CurrentIsTrial DEF TearAppend
  <2>2. ledger' \in Seq([rec : Trial \cup {None}, ended : BOOLEAN])
    BY <1>4, <2>1, Written DEF TearAppend, Line
  <2>3. runs' \in Seq(Run) /\ Len(runs') = Len(runs) /\ ~Running'
    BY <2>1, EndedRun
  <2> QED
    BY <2>1, <2>2, <2>3 DEF TypeOK
<1>5. CASE UNCHANGED vars
  BY <1>5 DEF vars, TypeOK, Running
<1> QED
  BY <1>1, <1>2, <1>3, <1>4, <1>5 DEF Next

-------------------------------------------------------------------------------
(* Every record is of its run.                                             *)

\* It stays so when a record of the running run is written and the runs so far keep
\* what they were started with.
LEMMA OfItsRunKept ==
  ASSUME TypeOK, OfItsRun,
         \A k \in DOMAIN runs : /\ k \in DOMAIN runs'
                                /\ runs'[k].arm = runs[k].arm
                                /\ runs'[k].repeat = runs[k].repeat
                                /\ runs'[k].controls = runs[k].controls
                                /\ runs'[k].telemetry = runs[k].telemetry,
         \A i \in DOMAIN ledger' :
           \/ i \in DOMAIN ledger /\ ledger'[i] = ledger[i]
           \/ Running /\ ledger'[i].rec \in {Current, None}
  PROVE  OfItsRun'
<1> SUFFICES ASSUME NEW i \in DOMAIN ledger', ledger'[i].rec # None
             PROVE  LET r == ledger'[i].rec IN
                    /\ r.run \in DOMAIN runs'
                    /\ r.arm = runs'[r.run].arm /\ r.repeat = runs'[r.run].repeat
                    /\ r.controls = runs'[r.run].controls
                    /\ r.telemetry = runs'[r.run].telemetry
  BY DEF OfItsRun
<1>1. CASE i \in DOMAIN ledger /\ ledger'[i] = ledger[i]
  BY <1>1 DEF OfItsRun
<1>2. CASE Running /\ ledger'[i].rec = Current
  <2>1. Len(runs) \in DOMAIN runs
    BY <1>2, RunningRun
  <2> QED
    BY <1>2, <2>1 DEF Current
<1> QED
  BY <1>1, <1>2

LEMMA OfItsRunStep == TypeOK /\ OfItsRun /\ [Next]_vars => OfItsRun'
<1> SUFFICES ASSUME TypeOK, OfItsRun, [Next]_vars PROVE OfItsRun'
  OBVIOUS
<1> DEFINE Kept == \A k \in DOMAIN runs : /\ k \in DOMAIN runs'
                                          /\ runs'[k].arm = runs[k].arm
                                          /\ runs'[k].repeat = runs[k].repeat
                                          /\ runs'[k].controls = runs[k].controls
                                          /\ runs'[k].telemetry = runs[k].telemetry
<1>1. ASSUME NEW arm \in Arms, NEW repeat \in Repeats,
             NEW settings \in SettingsOf[arm], Start(arm, repeat, settings)
      PROVE  OfItsRun'
  <2> DEFINE run == [arm |-> arm, repeat |-> repeat, controls |-> settings.controls,
                     telemetry |-> settings.telemetry, end |-> "running"]
  <2>1. run \in Run /\ runs' = Append(runs, run) /\ ledger' = ledger
    BY <1>1, ControlAssumption DEF Start, Run, Settings
  <2>2. Kept
    BY <2>1, AppendProperties, LenProperties DEF TypeOK
  <2> QED
    BY <2>1, <2>2, OfItsRunKept
<1>2. CASE Fail
  BY <1>2, EndedRun, OfItsRunKept DEF Fail
<1>3. CASE AppendCase
  <2>1. Running /\ Current \in Trial /\ Write(Current, TRUE)
    BY <1>3, CurrentIsTrial DEF AppendCase
  <2>2. Kept
    BY <1>3, <2>1, EndedRun DEF AppendCase
  <2> QED
    BY <2>1, <2>2, Written, OfItsRunKept
<1>4. CASE TearAppend
  <2>1. Running /\ Current \in Trial /\ EndRun("failed")
    BY <1>4, CurrentIsTrial DEF TearAppend
  <2>2. Kept
    BY <2>1, EndedRun
  <2>3. \A i \in DOMAIN ledger' : \/ i \in DOMAIN ledger /\ ledger'[i] = ledger[i]
                                  \/ ledger'[i].rec \in {Current, None}
    BY <1>4, <2>1, Written DEF TearAppend
  <2> QED
    BY <2>1, <2>2, <2>3, OfItsRunKept
<1>5. CASE UNCHANGED vars
  BY <1>5 DEF vars, OfItsRun
<1> QED
  BY <1>1, <1>2, <1>3, <1>4, <1>5 DEF Next

-------------------------------------------------------------------------------
(* A run's records begin with the first case.                              *)

\* Writing the current record keeps it so, and the running run has one afterwards.
LEMMA OpenedByWrite ==
  ASSUME TypeOK, OpenedFirst, Running, NEW ended \in BOOLEAN, Write(Current, ended), AllParse'
  PROVE  /\ \A i \in DOMAIN ledger' : \E j \in DOMAIN ledger' :
              ledger'[j].rec.run = ledger'[i].rec.run /\ ledger'[j].rec.case = Cases[1]
         /\ \E j \in DOMAIN ledger' :
              ledger'[j].rec.run = Len(runs) /\ ledger'[j].rec.case = Cases[1]
<1>1. /\ AllParse /\ \A i \in DOMAIN ledger : i \in DOMAIN ledger' /\ ledger'[i] = ledger[i]
      /\ Len(ledger') \in DOMAIN ledger' /\ ledger'[Len(ledger')].rec = Current
      /\ \A i \in DOMAIN ledger' : i \in DOMAIN ledger \/ i = Len(ledger')
  BY CurrentIsTrial, Written
<1>2. ASSUME NEW k, Opened(k)
      PROVE  \E i \in DOMAIN ledger' : ledger'[i].rec.run = k /\ ledger'[i].rec.case = Cases[1]
  BY <1>1, <1>2 DEF Opened
<1>3. Current.run = Len(runs) /\ Current.case = Cases[next] /\ next \in Nat /\ next >= 1
  BY LenProperties, SuiteAssumption DEF Current, TypeOK
<1>4. \E i \in DOMAIN ledger' : /\ ledger'[i].rec.run = Len(runs)
                                /\ ledger'[i].rec.case = Cases[1]
  <2>1. CASE next = 1
    BY <1>1, <1>3, <2>1
  <2>2. CASE next # 1
    BY <1>1, <1>2, <1>3, <2>2 DEF OpenedFirst
  <2> QED
    BY <2>1, <2>2
<1>5. ASSUME NEW i \in DOMAIN ledger'
      PROVE  \E j \in DOMAIN ledger' : /\ ledger'[j].rec.run = ledger'[i].rec.run
                                       /\ ledger'[j].rec.case = Cases[1]
  <2>1. CASE i \in DOMAIN ledger
    BY <1>1, <1>2, <2>1 DEF OpenedFirst
  <2>2. CASE i = Len(ledger')
    BY <1>1, <1>3, <1>4, <2>2
  <2> QED
    BY <1>1, <2>1, <2>2
<1> QED
  BY <1>4, <1>5

LEMMA OpenedFirstStep == TypeOK /\ OpenedFirst /\ [Next]_vars => OpenedFirst'
<1> SUFFICES ASSUME TypeOK, OpenedFirst, [Next]_vars, AllParse' PROVE OpenedFirst'
  BY DEF OpenedFirst
<1>1. ASSUME NEW arm \in Arms, NEW repeat \in Repeats,
             NEW settings \in SettingsOf[arm], Start(arm, repeat, settings)
      PROVE  OpenedFirst'
  BY <1>1 DEF Start, OpenedFirst, AllParse, Opened
<1>2. CASE Fail
  <2>1. ledger' = ledger /\ ~Running'
    BY <1>2, EndedRun DEF Fail
  <2> QED
    BY <2>1 DEF OpenedFirst, AllParse, Opened
<1>3. CASE AppendCase
  <2>1. Running /\ Write(Current, TRUE)
    BY <1>3 DEF AppendCase
  <2>2. Len(runs') = Len(runs)
    BY <1>3, <2>1, EndedRun DEF AppendCase
  <2> QED
    BY <2>1, <2>2, OpenedByWrite DEF OpenedFirst, Opened
<1>4. CASE TearAppend
  <2>1. Running /\ EndRun("failed") /\ ~Running'
    BY <1>4, EndedRun DEF TearAppend
  <2>2. ~Write(None, FALSE)
    BY Written DEF AllParse
  <2>3. Write(Current, FALSE)
    BY <1>4, <2>2 DEF TearAppend
  <2> QED
    BY <2>1, <2>3, OpenedByWrite DEF OpenedFirst, Opened
<1>5. CASE UNCHANGED vars
  BY <1>5 DEF vars, OpenedFirst, AllParse, Opened, Running
<1> QED
  BY <1>1, <1>2, <1>3, <1>4, <1>5 DEF Next

-------------------------------------------------------------------------------
\* The inductive invariant: every record is of its run, and a run that has a record has
\* one of the suite's first case, unless a line is torn.
THEOREM LedgerCorrect == Spec => []LedgerInv
<1>1. Init => LedgerInv
  <2> SUFFICES ASSUME Init PROVE LedgerInv
    OBVIOUS
  <2>1. ~Running /\ DOMAIN ledger = {}
    BY DEF Init, Running
  <2>2. Len(Cases) \in Nat /\ Len(runs) <= MaxRuns
    BY SuiteAssumption, RangeAssumption, LenProperties, EmptySeq DEF Init
  <2>3. TypeOK
    BY <2>1, <2>2, EmptySeq DEF Init, TypeOK
  <2> QED
    BY <2>1, <2>3 DEF LedgerInv, OfItsRun, OpenedFirst
<1>2. LedgerInv /\ [Next]_vars => LedgerInv'
  BY LedgerTypeStep, OfItsRunStep, OpenedFirstStep DEF LedgerInv
<1> QED
  BY <1>1, <1>2, PTL DEF Spec

\* Types and bounds of the ledger and its runs (collector.capture).
THEOREM LedgerTypeCorrect == Spec => []TypeOK
  BY LedgerCorrect, PTL DEF LedgerInv

\* In a ledger that evaluate accepts, the records of one arm and repeat come from one
\* run: two runs of them would both have recorded the first case.
LEMMA FirstCasesTell == LedgerInv => OneRunPerRepeat
<1> SUFFICES ASSUME LedgerInv, Evaluable,
                    NEW i \in DOMAIN ledger, NEW j \in DOMAIN ledger,
                    ledger[i].rec.arm = ledger[j].rec.arm,
                    ledger[i].rec.repeat = ledger[j].rec.repeat
             PROVE  ledger[i].rec.run = ledger[j].rec.run
  BY DEF OneRunPerRepeat, Records
<1>1. AllParse
  BY DEF Evaluable, Parsable, AllParse
<1>2. PICK m \in DOMAIN ledger : ledger[m].rec.run = ledger[i].rec.run
                                 /\ ledger[m].rec.case = Cases[1]
  BY <1>1 DEF LedgerInv, OpenedFirst, Opened
<1>3. PICK n \in DOMAIN ledger : ledger[n].rec.run = ledger[j].rec.run
                                 /\ ledger[n].rec.case = Cases[1]
  BY <1>1 DEF LedgerInv, OpenedFirst, Opened
<1>4. /\ ledger[m].rec.arm = ledger[i].rec.arm /\ ledger[m].rec.repeat = ledger[i].rec.repeat
      /\ ledger[n].rec.arm = ledger[j].rec.arm /\ ledger[n].rec.repeat = ledger[j].rec.repeat
  BY <1>1, <1>2, <1>3 DEF LedgerInv, OfItsRun, AllParse
<1>5. Identity(ledger[m].rec) = Identity(ledger[n].rec)
  BY <1>2, <1>3, <1>4 DEF Identity
<1>6. m = n
  BY <1>5 DEF Evaluable, Unique
<1> QED
  BY <1>2, <1>3, <1>6

\* One run of the collector per arm and repeat, for any suite and any failures.
THEOREM OneRunPerRepeatHolds == Spec => []OneRunPerRepeat
  BY LedgerCorrect, FirstCasesTell, PTL

\* The file is only appended to, so what evaluate rejects it rejects for good: an
\* accepted longer file has an accepted beginning.
LEMMA PrefixAccepted ==
  TypeOK /\ [Next]_vars => (ledger # <<>> /\ ~Evaluable => ~Evaluable')
<1> SUFFICES ASSUME TypeOK, [Next]_vars, ledger # <<>>, Evaluable' PROVE Evaluable
  OBVIOUS
<1>1. CASE ledger' = ledger
  BY <1>1 DEF Evaluable, Parsable, Unique, Records
<1>2. ASSUME NEW rec \in Trial \cup {None}, NEW ended \in BOOLEAN, Write(rec, ended)
      PROVE  Evaluable
  <2>1. AllParse'
    BY DEF Evaluable, Parsable, AllParse
  <2>2. /\ AllParse /\ DOMAIN ledger \subseteq DOMAIN ledger'
        /\ \A i \in DOMAIN ledger : ledger'[i] = ledger[i]
    BY <1>2, <2>1, Written
  <2>3. Parsable
    BY <2>2 DEF Parsable, AllParse
  <2>4. Unique
    BY <2>2 DEF Evaluable, Unique
  <2>5. \A r \in Records : r.repeat <= MaxRepeat
    <3> SUFFICES ASSUME NEW i \in DOMAIN ledger PROVE ledger[i].rec.repeat <= MaxRepeat
      BY DEF Records
    <3> QED
      BY <2>2 DEF Evaluable, Records
  <2> QED
    BY <2>3, <2>4, <2>5 DEF Evaluable
<1>3. CASE AppendCase
  BY <1>2, <1>3, CurrentIsTrial DEF AppendCase
<1>4. CASE TearAppend
  BY <1>2, <1>4, CurrentIsTrial DEF TearAppend
<1> QED
  BY <1>1, <1>3, <1>4 DEF Next, Start, Fail, vars

\* A rejected ledger stays rejected.
THEOREM RejectedForGoodHolds == Spec => RejectedForGood
<1>1. TypeOK /\ [Next]_vars => [ledger # <<>> /\ ~Evaluable => ~Evaluable']_vars
  BY PrefixAccepted
<1> QED
  BY <1>1, LedgerTypeCorrect, PTL DEF Spec, RejectedForGood

-------------------------------------------------------------------------------
(* What a comparison compares.                                             *)

\* compare counts distinct values; the sets it counts are finite.
LEMMA FiniteValues ==
  ASSUME TypeOK, NEW S \in SUBSET Records
  PROVE  IsFiniteSet({r.controls : r \in S}) /\ IsFiniteSet({r.telemetry : r \in S})
<1> DEFINE C == {r.controls : r \in S}   T == {r.telemetry : r \in S}
           lines == [i \in DOMAIN ledger |-> ledger[i].rec]
           controls == [r \in S |-> r.controls]   telemetry == [r \in S |-> r.telemetry]
<1>1. IsFiniteSet(DOMAIN ledger)
  BY LenProperties, FS_Interval DEF TypeOK
<1>2. lines \in Surjection(DOMAIN ledger, Records)
  BY DEF Surjection, Records
<1>3. IsFiniteSet(S)
  BY <1>1, <1>2, FS_Surjection, FS_Subset
<1>4. controls \in Surjection(S, C) /\ telemetry \in Surjection(S, T)
  BY DEF Surjection
<1> QED
  BY <1>3, <1>4, FS_Surjection

\* Where one value is counted, all values are equal.
LEMMA OneValue ==
  ASSUME NEW S, IsFiniteSet(S), Cardinality(S) = 1, NEW x \in S, NEW y \in S
  PROVE  x = y
  BY FS_Singleton

LEMMA LikeWithLike == LedgerInv => ComparesLikeWithLike
<1> SUFFICES ASSUME LedgerInv, Comparable, NEW r \in Records, NEW s \in Records
             PROVE  /\ runs[r.run].telemetry = runs[s.run].telemetry
                    /\ runs[r.run].arm = runs[s.run].arm =>
                         runs[r.run].controls = runs[s.run].controls
                    /\ \A key \in RequiredControl \ Declared :
                         runs[r.run].controls[key] = runs[s.run].controls[key]
  BY DEF ComparesLikeWithLike
<1>1. \A t \in Records : /\ t \in Trial
                         /\ t.arm = runs[t.run].arm /\ t.controls = runs[t.run].controls
                         /\ t.telemetry = runs[t.run].telemetry
  <2>1. ASSUME NEW i \in DOMAIN ledger
        PROVE  LET t == ledger[i].rec IN
               /\ t \in Trial
               /\ t.arm = runs[t.run].arm /\ t.controls = runs[t.run].controls
               /\ t.telemetry = runs[t.run].telemetry
    <3>1. ledger[i].rec # None
      BY DEF Comparable, Evaluable, Parsable
    <3>2. ledger[i] \in [rec : Trial \cup {None}, ended : BOOLEAN]
      BY LenProperties, ElementOfSeq DEF LedgerInv, TypeOK
    <3>3. ledger[i].rec \in Trial
      BY <3>1, <3>2
    <3> QED
      BY <3>1, <3>3 DEF LedgerInv, OfItsRun
  <2> QED
    BY <2>1 DEF Records
<1>2. \A t \in Records : t.arm \in Arms /\ t \in Of(t.arm)
  BY <1>1 DEF Of, Trial
<1>3. ASSUME NEW arm \in Arms, NEW t \in Of(arm), NEW u \in Of(arm)
      PROVE  t.controls = u.controls
  <2>1. Cardinality({v.controls : v \in Of(arm)}) = 1
    BY DEF Comparable, Controlled
  <2>2. IsFiniteSet({v.controls : v \in Of(arm)})
    BY FiniteValues DEF LedgerInv, Of
  <2> QED
    BY <2>1, <2>2, OneValue
<1>4. r.telemetry = s.telemetry
  <2> DEFINE Both == Of("A") \cup Of("B")
  <2>1. Cardinality({v.telemetry : v \in Both}) = 1
    BY DEF Comparable, SameInstruments
  <2>2. IsFiniteSet({v.telemetry : v \in Both})
    BY FiniteValues DEF LedgerInv, Of
  <2>3. r \in Both /\ s \in Both
    BY <1>2 DEF Arms
  <2> QED
    BY <2>1, <2>2, <2>3, OneValue
<1>5. \A arm \in Arms : \A t \in Of(arm) : ControlsIn(arm) = t.controls
  BY <1>3 DEF ControlsIn
<1>6. \A key \in RequiredControl \ Declared : ControlsIn("A")[key] = ControlsIn("B")[key]
  BY DEF Comparable, Controlled, Differences
<1>7. \A key \in RequiredControl \ Declared : r.controls[key] = s.controls[key]
  BY <1>2, <1>5, <1>6 DEF Arms
<1>8. r.arm = s.arm => r.controls = s.controls
  BY <1>2, <1>3
<1> QED
  BY <1>1, <1>4, <1>7, <1>8

\* A comparison is of two arms run with one controls file each and the same
\* instruments, whatever was run, failed or was killed in between.
THEOREM ComparesLikeWithLikeHolds == Spec => []ComparesLikeWithLike
  BY LedgerCorrect, LikeWithLike, PTL

-------------------------------------------------------------------------------
(* What carrying out the plan gives.                                       *)

NoneFailed == \A k \in DOMAIN runs : runs[k].end # "failed"

\* The case that run k has still to reach.
Reached(k) == IF k = Len(runs) /\ Running THEN next ELSE Len(Cases) + 1

Recorded(k, n) == \E i \in DOMAIN ledger : /\ ledger[i].rec.run = k
                                           /\ ledger[i].rec.case = Cases[n]

\* As long as no run failed, the file is whole: each run has one line for each
\* case it has got past, and none for another.
Whole ==
  NoneFailed =>
    /\ \A i \in DOMAIN ledger : ledger[i].rec # None /\ ledger[i].ended
    /\ \A i, j \in DOMAIN ledger : /\ ledger[i].rec.run = ledger[j].rec.run
                                    /\ ledger[i].rec.case = ledger[j].rec.case => i = j
    /\ \A k \in DOMAIN runs : \A n \in 1..Len(Cases) : Recorded(k, n) <=> n < Reached(k)

\* A run that has just started has no line, and the runs before it are over.
LEMMA WholeStart ==
  ASSUME LedgerInv, Whole, NoneFailed', NEW arm \in Arms, NEW repeat \in Repeats,
         NEW settings \in SettingsOf[arm], Start(arm, repeat, settings)
  PROVE  Whole'
<1> DEFINE run == [arm |-> arm, repeat |-> repeat, controls |-> settings.controls,
                   telemetry |-> settings.telemetry, end |-> "running"]
<1>1. settings \in Settings /\ run \in Run /\ run.end = "running"
  BY ControlAssumption DEF Run, Settings
<1>2. runs' = Append(runs, run) /\ ~Running /\ next' = 1 /\ ledger' = ledger
  BY DEF Start
<1> HIDE DEF run
<1>3. /\ Len(runs) \in Nat /\ DOMAIN runs = 1..Len(runs) /\ Len(runs') = Len(runs) + 1
      /\ runs' \in Seq(Run) /\ runs' # <<>> /\ runs'[Len(runs) + 1] = run
      /\ \A k \in 1..Len(runs) : runs'[k] = runs[k]
  BY <1>1, <1>2, AppendProperties, LenProperties DEF LedgerInv, TypeOK
<1>4. DOMAIN runs' = 1..(Len(runs) + 1) /\ Running'
  BY <1>1, <1>3, LenProperties DEF Running
<1>5. NoneFailed
  BY <1>3, <1>4 DEF NoneFailed
<1>6. \A k, n : Recorded(k, n)' <=> Recorded(k, n)
  BY <1>2 DEF Recorded
<1>7. \A n : ~Recorded(Len(runs) + 1, n)
  BY <1>3, <1>5 DEF Whole, Recorded, LedgerInv, OfItsRun
<1>8. ASSUME NEW k \in DOMAIN runs', NEW n \in 1..Len(Cases)
      PROVE  Recorded(k, n)' <=> n < Reached(k)'
  <2>1. CASE k \in DOMAIN runs
    <3>1. Reached(k) = Len(Cases) + 1 /\ Reached(k)' = Len(Cases) + 1
      BY <1>2, <1>3, <2>1 DEF Reached
    <3> QED
      BY <1>5, <1>6, <2>1, <3>1 DEF Whole
  <2>2. CASE k = Len(runs) + 1
    <3>1. Reached(k)' = 1
      BY <1>2, <1>3, <1>4, <2>2 DEF Reached
    <3> QED
      BY <1>6, <1>7, <2>2, <3>1
  <2> QED
    BY <1>3, <1>4, <2>1, <2>2
<1> QED
  BY <1>2, <1>5, <1>8 DEF Whole

\* A complete append adds the one line that was due.
LEMMA WholeAppend ==
  ASSUME LedgerInv, Whole, NoneFailed', AppendCase
  PROVE  Whole'
<1> DEFINE line == [rec |-> Current, ended |-> TRUE]
<1>1. Running /\ Current \in Trial /\ Len(runs) \in DOMAIN runs
  BY CurrentIsTrial, RunningRun DEF AppendCase, LedgerInv
<1>2. /\ ledger \in Seq(Line) /\ Len(ledger) \in Nat /\ DOMAIN ledger = 1..Len(ledger)
      /\ line \in Line
  BY <1>1, LenProperties DEF LedgerInv, TypeOK, Line
<1>3. /\ DOMAIN runs' = DOMAIN runs /\ Len(runs') = Len(runs)
      /\ IF next = Len(Cases) THEN ~Running' ELSE Running'
      /\ NoneFailed
  <2>1. CASE next = Len(Cases)
    <3>1. EndRun("completed") /\ runs \in Seq(Run)
      BY <2>1 DEF AppendCase, LedgerInv, TypeOK
    <3>2. Len(runs') = Len(runs) /\ ~Running'
      BY <1>1, <3>1, EndedRun DEF LedgerInv
    <3>3. DOMAIN runs' = DOMAIN runs /\ \A k \in DOMAIN runs : k # Len(runs) => runs'[k] = runs[k]
      BY <3>1 DEF EndRun
    <3>4. NoneFailed
      BY <1>1, <3>3 DEF NoneFailed, Running
    <3> QED
      BY <2>1, <3>2, <3>3, <3>4
  <2>2. CASE next # Len(Cases)
    <3>1. runs' = runs
      BY <2>2 DEF AppendCase
    <3> QED
      BY <1>1, <2>2, <3>1 DEF Running, NoneFailed
  <2> QED
    BY <2>1, <2>2
<1>4. ledger' = Append(ledger, line)
  <2>1. ~Unended
    BY <1>2, <1>3, EmptySeq DEF Unended, Whole
  <2> QED
    BY <2>1 DEF AppendCase, Write
<1>5. line.rec = Current /\ line.ended /\ Current.run = Len(runs) /\ Current.case = Cases[next]
  BY DEF Current
<1>6. /\ Len(ledger') = Len(ledger) + 1 /\ DOMAIN ledger' = 1..(Len(ledger) + 1)
      /\ \A i \in 1..Len(ledger) : ledger'[i] = ledger[i]
      /\ ledger'[Len(ledger) + 1] = line
  <2> HIDE DEF line
  <2> QED
    BY <1>2, <1>4, AppendProperties, LenProperties
<1>7. next \in 1..Len(Cases) /\ Len(Cases) \in Nat /\ next' = next + 1
  BY <1>1, SuiteAssumption, LenProperties DEF AppendCase, LedgerInv, TypeOK
<1>8. \A k, n : Recorded(k, n)' <=> Recorded(k, n) \/ (k = Len(runs) /\ Cases[n] = Cases[next])
  BY <1>2, <1>5, <1>6 DEF Recorded
<1>9. ~Recorded(Len(runs), next)
  BY <1>1, <1>3, <1>7 DEF Whole, Reached
<1>10. \A i, j \in DOMAIN ledger' : /\ ledger'[i].rec.run = ledger'[j].rec.run
                                     /\ ledger'[i].rec.case = ledger'[j].rec.case => i = j
  <2>1. \A i \in DOMAIN ledger : ~(ledger[i].rec.run = Len(runs) /\ ledger[i].rec.case = Cases[next])
    BY <1>9 DEF Recorded
  <2>2. \A i \in DOMAIN ledger' : i \in DOMAIN ledger \/ i = Len(ledger) + 1
    BY <1>2, <1>6
  <2> QED
    BY <1>2, <1>3, <1>5, <1>6, <2>1, <2>2 DEF Whole
<1>11. ASSUME NEW k \in DOMAIN runs', NEW n \in 1..Len(Cases)
       PROVE  Recorded(k, n)' <=> n < Reached(k)'
  <2>1. k \in DOMAIN runs /\ (Recorded(k, n) <=> n < Reached(k))
    BY <1>3 DEF Whole
  <2>2. CASE k = Len(runs)
    <3>1. Reached(k) = next /\ Reached(k)' = next + 1
      BY <1>1, <1>3, <1>7, <2>2 DEF Reached
    <3>2. Cases[n] = Cases[next] <=> n = next
      BY <1>7, SuiteAssumption
    <3> QED
      BY <1>7, <1>8, <2>1, <2>2, <3>1, <3>2
  <2>3. CASE k # Len(runs)
    <3>1. Reached(k)' = Reached(k)
      BY <1>3, <2>3 DEF Reached
    <3> QED
      BY <1>8, <2>1, <2>3, <3>1
  <2> QED
    BY <2>2, <2>3
<1>12. \A i \in DOMAIN ledger' : ledger'[i].rec # None /\ ledger'[i].ended
  <2>1. Current # None
    BY <1>1, RangeAssumption
  <2> QED
    BY <1>2, <1>3, <1>5, <1>6, <2>1 DEF Whole
<1> QED
  BY <1>10, <1>11, <1>12 DEF Whole

LEMMA WholeStep == LedgerInv /\ Whole /\ [Next]_vars => Whole'
<1> SUFFICES ASSUME LedgerInv, Whole, [Next]_vars, NoneFailed' PROVE Whole'
  BY DEF Whole
<1>1. ~(Fail \/ TearAppend)
  <2> SUFFICES ASSUME Fail \/ TearAppend PROVE FALSE
    OBVIOUS
  <2>1. Running /\ EndRun("failed")
    BY DEF Fail, TearAppend
  <2>2. Len(runs) \in DOMAIN runs' /\ runs'[Len(runs)].end = "failed"
    BY <2>1, RunningRun DEF EndRun, LedgerInv, Run
  <2> QED
    BY <2>2 DEF NoneFailed
<1>2. CASE UNCHANGED vars
  BY <1>2 DEF vars, Whole, NoneFailed, Recorded, Reached, Running
<1> QED
  BY <1>1, <1>2, WholeStart, WholeAppend DEF Next

\* As long as no run failed, the file is whole.
THEOREM WholeHolds == Spec => [](LedgerInv /\ Whole)
<1>1. Init => Whole
  BY DEF Init, Whole, Recorded
<1> QED
  BY <1>1, LedgerCorrect, WholeStep, PTL DEF Spec

\* The plan runs every arm once with every repeat, and both arms with the same.
LEMMA PlanBalanced ==
  /\ DOMAIN Plan = 1..(4 * Blocks)
  /\ \A n \in DOMAIN Plan : Plan[n].arm \in Arms /\ Plan[n].repeat \in 0..(2 * Blocks - 1)
  /\ \A m, n \in DOMAIN Plan :
       Plan[m].arm = Plan[n].arm /\ Plan[m].repeat = Plan[n].repeat => m = n
  /\ \A n \in DOMAIN Plan : \A arm \in Arms :
       \E m \in DOMAIN Plan : Plan[m].arm = arm /\ Plan[m].repeat = Plan[n].repeat
<1> DEFINE block(n) == (n - 1) \div 4   place(n) == (n - 1) % 4
           armAt(p) == IF p \in {0, 3} THEN "A" ELSE "B"
           half(p) == IF p \in {0, 1} THEN 0 ELSE 1
<1>0. Blocks \in Nat
  BY RangeAssumption
<1>1. DOMAIN Plan = 1..(4 * Blocks)
  BY DEF Plan
<1>2. ASSUME NEW n \in 1..(4 * Blocks)
      PROVE  /\ block(n) \in 0..(Blocks - 1) /\ place(n) \in 0..3
             /\ n = 4 * block(n) + place(n) + 1
  BY <1>0
<1>3. \A p \in 0..3 : <<"A", "B", "B", "A">>[p + 1] = armAt(p) /\ p \div 2 = half(p)
  OBVIOUS
<1>4. \A n \in DOMAIN Plan : /\ Plan[n].arm = armAt(place(n))
                             /\ Plan[n].repeat = 2 * block(n) + half(place(n))
  <2> SUFFICES ASSUME NEW n \in 1..(4 * Blocks)
               PROVE  /\ Plan[n].arm = armAt(place(n))
                      /\ Plan[n].repeat = 2 * block(n) + half(place(n))
    BY <1>1
  <2>1. Plan[n] = [arm |-> <<"A", "B", "B", "A">>[place(n) + 1],
                   repeat |-> (2 * block(n)) + (place(n) \div 2)]
    BY DEF Plan
  <2> HIDE DEF block, place, armAt, half
  <2> QED
    BY <1>2, <1>3, <2>1
<1> HIDE DEF block, place
<1>5. ASSUME NEW n \in DOMAIN Plan
      PROVE  Plan[n].arm \in Arms /\ Plan[n].repeat \in 0..(2 * Blocks - 1)
  <2>1. block(n) \in 0..(Blocks - 1) /\ half(place(n)) \in 0..1 /\ armAt(place(n)) \in Arms
    BY <1>1, <1>2 DEF Arms
  <2> HIDE DEF half, armAt
  <2>2. 2 * block(n) + half(place(n)) \in 0..(2 * Blocks - 1)
    BY <1>0, <2>1
  <2> QED
    BY <1>4, <2>1, <2>2
<1>6. \A m, n \in DOMAIN Plan :
        Plan[m].arm = Plan[n].arm /\ Plan[m].repeat = Plan[n].repeat => m = n
  BY <1>1, <1>2, <1>4
<1>7. ASSUME NEW n \in DOMAIN Plan, NEW arm \in Arms
      PROVE  \E m \in DOMAIN Plan : Plan[m].arm = arm /\ Plan[m].repeat = Plan[n].repeat
  <2>1. block(n) \in 0..(Blocks - 1) /\ place(n) \in 0..3
    BY <1>1, <1>2
  <2>2. PICK p \in 0..3 : armAt(p) = arm /\ half(p) = half(place(n))
    <3>1. /\ armAt(0) = "A" /\ armAt(1) = "B" /\ armAt(2) = "B" /\ armAt(3) = "A"
          /\ half(0) = 0 /\ half(1) = 0 /\ half(2) = 1 /\ half(3) = 1
      OBVIOUS
    <3>2. half(place(n)) \in {0, 1}
      OBVIOUS
    <3> HIDE DEF half, armAt
    <3> QED
      BY <3>1, <3>2 DEF Arms
  <2> DEFINE m == 4 * block(n) + p + 1
  <2>3. m \in 1..(4 * Blocks)
    BY <1>0, <2>1
  <2>4. block(m) = block(n) /\ place(m) = p
    <3>1. \A b \in Nat, q \in 0..3 : (4 * b + q + 1 - 1) \div 4 = b /\ (4 * b + q + 1 - 1) % 4 = q
      OBVIOUS
    <3> QED
      BY <1>0, <2>1, <3>1 DEF block, place
  <2> HIDE DEF m, half, armAt
  <2> QED
    BY <1>1, <1>4, <2>2, <2>3, <2>4
<1> QED
  BY <1>1, <1>5, <1>6, <1>7

\* Where all values are equal, and there is one, one value is counted.
LEMMA ValuesAgree ==
  ASSUME NEW S, NEW x \in S, \A y \in S : y = x
  PROVE  Cardinality(S) = 1
<1>1. S = {x}
  OBVIOUS
<1> QED
  BY <1>1, FS_Singleton

LEMMA PlanIsComparable == LedgerInv /\ Whole => PlanCompares
<1> SUFFICES ASSUME LedgerInv, Whole, PlanCarriedOut, Differences = Declared PROVE Comparable
  BY DEF PlanCompares
<1>1. /\ DOMAIN runs = DOMAIN Plan /\ DOMAIN runs = 1..(4 * Blocks) /\ Blocks \in Nat /\ Blocks > 0
      /\ \A n \in DOMAIN runs : /\ runs[n].end = "completed"
                                /\ runs[n].arm = Plan[n].arm /\ runs[n].repeat = Plan[n].repeat
  BY PlanBalanced, RangeAssumption DEF PlanCarriedOut
<1>2. NoneFailed /\ ~Running
  <2>1. NoneFailed
    BY <1>1 DEF NoneFailed
  <2>2. Running => Len(runs) \in DOMAIN runs
    BY RunningRun DEF LedgerInv
  <2> QED
    BY <1>1, <2>1, <2>2 DEF Running
<1>3. \A k \in DOMAIN runs : \A n \in 1..Len(Cases) : Recorded(k, n)
  <2>1. \A k : Reached(k) = Len(Cases) + 1
    BY <1>2 DEF Reached
  <2>2. Len(Cases) \in Nat
    BY SuiteAssumption, LenProperties
  <2> QED
    BY <1>2, <2>1, <2>2 DEF Whole
<1>4. \A i \in DOMAIN ledger :
        LET r == ledger[i].rec IN
        /\ r # None /\ r \in Trial /\ r \in Records /\ r.run \in DOMAIN runs
        /\ r.arm = Plan[r.run].arm /\ r.repeat = Plan[r.run].repeat
        /\ r.controls = runs[r.run].controls /\ r.telemetry = runs[r.run].telemetry
  <2> TAKE i \in DOMAIN ledger
  <2>1. ledger[i].rec # None
    BY <1>2 DEF Whole
  <2>2. ledger[i] \in [rec : Trial \cup {None}, ended : BOOLEAN]
    BY LenProperties, ElementOfSeq DEF LedgerInv, TypeOK
  <2> QED
    BY <1>1, <2>1, <2>2 DEF LedgerInv, OfItsRun, Records
<1>5. \A r \in Records : \E i \in DOMAIN ledger : ledger[i].rec = r
  BY DEF Records
<1>6. Evaluable
  <2>1. Parsable
    <3>1. 1 \in DOMAIN runs /\ 1 \in 1..Len(Cases)
      BY <1>1, SuiteAssumption, LenProperties, EmptySeq
    <3>2. \E i \in DOMAIN ledger : TRUE
      BY <1>3, <3>1 DEF Recorded
    <3>3. ledger # <<>>
      BY <3>2
    <3> QED
      BY <1>4, <3>3 DEF Parsable
  <2>2. Unique
    <3> SUFFICES ASSUME NEW i \in DOMAIN ledger, NEW j \in DOMAIN ledger,
                        Identity(ledger[i].rec) = Identity(ledger[j].rec)
                 PROVE  i = j
      BY DEF Unique
    <3>1. /\ ledger[i].rec.arm = ledger[j].rec.arm /\ ledger[i].rec.case = ledger[j].rec.case
          /\ ledger[i].rec.repeat = ledger[j].rec.repeat
      BY DEF Identity
    <3>2. ledger[i].rec.run \in DOMAIN Plan /\ ledger[j].rec.run \in DOMAIN Plan
      BY <1>1, <1>4
    <3>3. /\ Plan[ledger[i].rec.run].arm = Plan[ledger[j].rec.run].arm
          /\ Plan[ledger[i].rec.run].repeat = Plan[ledger[j].rec.run].repeat
      BY <1>4, <3>1
    <3>4. \A m, n \in DOMAIN Plan :
            Plan[m].arm = Plan[n].arm /\ Plan[m].repeat = Plan[n].repeat => m = n
      BY PlanBalanced
    <3>5. ledger[i].rec.run = ledger[j].rec.run
      BY <3>2, <3>3, <3>4
    <3> QED
      BY <1>2, <3>1, <3>5 DEF Whole
  <2>3. \A r \in Records : r.repeat <= MaxRepeat
    <3> SUFFICES ASSUME NEW i \in DOMAIN ledger PROVE ledger[i].rec.repeat <= MaxRepeat
      BY <1>5
    <3>1. Plan[ledger[i].rec.run].repeat \in 0..(2 * Blocks - 1)
      BY <1>1, <1>4, PlanBalanced
    <3> QED
      BY <1>1, <1>4, <3>1, PlanAssumption, RangeAssumption
  <2> QED
    BY <2>1, <2>2, <2>3 DEF Evaluable
<1>7. ASSUME NEW arm \in Arms, NEW n \in DOMAIN Plan, NEW c \in 1..Len(Cases)
      PROVE  \E r \in Of(arm) : r.case = Cases[c] /\ r.repeat = Plan[n].repeat
  <2>1. PICK m \in DOMAIN Plan : Plan[m].arm = arm /\ Plan[m].repeat = Plan[n].repeat
    BY PlanBalanced
  <2>2. PICK i \in DOMAIN ledger : ledger[i].rec.run = m /\ ledger[i].rec.case = Cases[c]
    BY <1>1, <1>3 DEF Recorded
  <2> QED
    BY <1>4, <2>1, <2>2 DEF Of
<1>8. \A arm \in Arms : \A x :
        x \in Keys(arm) <=> \E c \in 1..Len(Cases) : \E n \in DOMAIN Plan : x = <<Cases[c], Plan[n].repeat>>
  <2> TAKE arm \in Arms
  <2>1. ASSUME NEW r \in Of(arm)
        PROVE  \E c \in 1..Len(Cases) : \E n \in DOMAIN Plan : r.case = Cases[c] /\ r.repeat = Plan[n].repeat
    BY <1>1, <1>4, <1>5 DEF Of, Trial, Suite
  <2>2. \A x : x \in Keys(arm) <=> \E r \in Of(arm) : x = <<r.case, r.repeat>>
    BY DEF Keys
  <2> TAKE x
  <2>3. ASSUME NEW r \in Of(arm), x = <<r.case, r.repeat>>
        PROVE  \E c \in 1..Len(Cases) : \E n \in DOMAIN Plan : x = <<Cases[c], Plan[n].repeat>>
    BY <2>1, <2>3
  <2>4. ASSUME NEW c \in 1..Len(Cases), NEW n \in DOMAIN Plan, x = <<Cases[c], Plan[n].repeat>>
        PROVE  \E r \in Of(arm) : x = <<r.case, r.repeat>>
    <3>1. PICK r \in Of(arm) : r.case = Cases[c] /\ r.repeat = Plan[n].repeat
      BY <1>7
    <3> QED
      BY <2>4, <3>1
  <2> QED
    BY <2>2, <2>3, <2>4
<1>9. 1 \in DOMAIN Plan /\ 1 \in 1..Len(Cases)
  BY <1>1, SuiteAssumption, LenProperties, EmptySeq
<1>10. Paired
  <2>1. Keys("A") = Keys("B")
    <3>1. \A x : x \in Keys("A") <=> x \in Keys("B")
      BY <1>8 DEF Arms
    <3> QED
      BY <3>1
  <2>2. Keys("A") # {}
    <3>1. <<Cases[1], Plan[1].repeat>> \in Keys("A")
      BY <1>8, <1>9 DEF Arms
    <3> QED
      BY <3>1
  <2>3. ASSUME NEW x PROVE x \in {k[1] : k \in Keys("A")} <=> x \in Suite
    <3>1. x \in Suite <=> \E c \in 1..Len(Cases) : x = Cases[c]
      BY DEF Suite
    <3>2. "A" \in Arms
      BY DEF Arms
    <3>3. ASSUME NEW c \in 1..Len(Cases), x = Cases[c] PROVE x \in {k[1] : k \in Keys("A")}
      <4>1. <<Cases[c], Plan[1].repeat>> \in Keys("A")
        BY <1>8, <1>9, <3>2
      <4> QED
        BY <3>3, <4>1
    <3>4. ASSUME NEW k \in Keys("A"), x = k[1] PROVE \E c \in 1..Len(Cases) : x = Cases[c]
      BY <1>8, <3>2, <3>4
    <3> QED
      BY <3>1, <3>3, <3>4
  <2>4. {k[1] : k \in Keys("A")} = Suite
    BY <2>3
  <2> QED
    BY <2>1, <2>2, <2>4 DEF Paired
<1>11. \A arm \in Arms : \E r \in Of(arm) : r \in Records /\ r.arm = arm
  BY <1>7, <1>9 DEF Of
<1>12. Controlled
  <2> SUFFICES ASSUME NEW arm \in Arms PROVE Cardinality({r.controls : r \in Of(arm)}) = 1
    BY DEF Controlled
  <2>1. PICK r \in Of(arm) : r \in Records /\ r.arm = arm
    BY <1>11
  <2>2. \A s \in Of(arm) : s.controls = r.controls
    BY <1>1, <1>4, <1>5 DEF Of, PlanCarriedOut
  <2> QED
    BY <2>2, ValuesAgree
<1>13. SameInstruments
  <2>1. PICK r \in Of("A") : r \in Records
    BY <1>11 DEF Arms
  <2>2. \A s \in Of("A") \cup Of("B") : s.telemetry = r.telemetry
    BY <1>1, <1>4, <1>5 DEF Of, PlanCarriedOut
  <2> QED
    BY <2>2, ValuesAgree DEF SameInstruments
<1> QED
  BY <1>6, <1>10, <1>12, <1>13 DEF Comparable

\* Carrying out any plan of build_campaign, each run complete and with one
\* controls file per arm, gives a ledger that compare accepts.
THEOREM PlanComparesHolds == Spec => []PlanCompares
  BY WholeHolds, PlanIsComparable, PTL
===============================================================================
