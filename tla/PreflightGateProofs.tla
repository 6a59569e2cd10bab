------------------------- MODULE PreflightGateProofs -------------------------
(***************************************************************************)
(* The preflight and the gate for any number of edits and preflights: what *)
(* TLC checks with three edits and two preflights holds of every history.  *)
(***************************************************************************)
EXTENDS PreflightGate, TLAPS

\* What a preflight has established when it reaches a step, as long as nobody has
\* edited anything since it began.
Established ==
  quiet => /\ step \in {"head", "source", "patch"} => changed = {}
           /\ step \in {"source", "patch"} => checkout.pinned
           /\ step = "patch" => SourceFits(checkout, phase)

\* Every claim that the engine is armed was preceded by a dispatcher with the guard:
\* the step past the source audit makes one, so does a report, so does a live run.
GuardBehindClaims ==
  /\ HasGuard(checkout) => hadGuard
  /\ step = "patch" /\ phase = "armed" => hadGuard
  /\ \A r \in reports : r.phase = "armed" => hadGuard
  /\ contact # None => hadGuard

GateInv == TypeOK /\ Established /\ GuardBehindClaims /\ ReportsMeanWhatTheySay

-------------------------------------------------------------------------------
(* Types.                                                                  *)

LEMMA TypeStep == TypeOK /\ [Next]_vars => TypeOK'
<1> SUFFICES ASSUME TypeOK, [Next]_vars PROVE TypeOK'
  OBVIOUS
<1> USE DEF TypeOK
<1>1. CASE EditCheckout
  <2>1. checkout' \in Checkout
    BY <1>1 DEF EditCheckout, Checkout
  <2>2. edits' \in 0..MaxEdits
    BY <1>1, BoundsAssumption DEF EditCheckout, Edited
  <2>3. hadGuard' \in BOOLEAN
    BY <1>1 DEF EditCheckout
  <2> QED
    BY <1>1, <2>1, <2>2, <2>3 DEF EditCheckout, Edited
<1>2. CASE EditInput
  <2>1. edits' \in 0..MaxEdits
    BY <1>2, BoundsAssumption DEF EditInput, Edited
  <2> QED
    BY <1>2, <2>1 DEF EditInput, Edited
<1>3. CASE Begin
  <2>1. preflights' \in 0..MaxRuns
    BY <1>3, BoundsAssumption DEF Begin
  <2> QED
    BY <1>3, <2>1 DEF Begin
<1>4. CASE Digests \/ Head \/ Source \/ Refuse
  BY <1>4 DEF Digests, Head, Source, Refuse, GoOn
<1>5. CASE Accept
  <2>1. reports' \subseteq Report
    BY <1>5 DEF Accept, Report
  <2> QED
    BY <1>5, <2>1 DEF Accept
<1>6. ASSUME NEW report \in reports \cup {None}, Collect(report)
      PROVE  TypeOK'
  BY <1>6 DEF Collect, Gate
<1>7. CASE UNCHANGED vars
  BY <1>7 DEF vars
<1> QED
  BY <1>1, <1>2, <1>3, <1>4, <1>5, <1>6, <1>7 DEF Next, Preflight

-------------------------------------------------------------------------------
(* The guard.                                                              *)

LEMMA GuardStep == TypeOK /\ GuardBehindClaims /\ [Next]_vars => GuardBehindClaims'
<1> SUFFICES ASSUME TypeOK, GuardBehindClaims, [Next]_vars PROVE GuardBehindClaims'
  OBVIOUS
<1> USE DEF GuardBehindClaims
<1>1. CASE EditCheckout
  BY <1>1 DEF EditCheckout, Edited
<1>2. CASE EditInput
  BY <1>2 DEF EditInput, Edited, HasGuard
<1>3. CASE Begin
  BY <1>3 DEF Begin, HasGuard
<1>4. CASE Digests \/ Head \/ Refuse
  BY <1>4 DEF Digests, Head, Refuse, GoOn, HasGuard
\* The source audit of the armed phase finds the guard's text.
<1>5. CASE Source
  BY <1>5 DEF Source, GoOn, SourceFits, HasGuard
<1>6. CASE Accept
  BY <1>6 DEF Accept, HasGuard
<1>7. ASSUME NEW report \in reports \cup {None}, Collect(report)
      PROVE  GuardBehindClaims'
  BY <1>7 DEF Collect, Gate, HasGuard
<1>8. CASE UNCHANGED vars
  BY <1>8 DEF vars, HasGuard
<1> QED
  BY <1>1, <1>2, <1>3, <1>4, <1>5, <1>6, <1>7, <1>8 DEF Next, Preflight

-------------------------------------------------------------------------------
(* What a quiet preflight knows, and what it reports.                      *)

LEMMA EstablishedStep == TypeOK /\ Established /\ [Next]_vars => Established'
<1> SUFFICES ASSUME TypeOK, Established, [Next]_vars PROVE Established'
  OBVIOUS
<1> USE DEF Established
<1>1. CASE EditCheckout \/ EditInput
  BY <1>1 DEF EditCheckout, EditInput, Edited
<1>2. CASE Begin
  BY <1>2 DEF Begin
<1>3. CASE Digests
  BY <1>3 DEF Digests, GoOn
<1>4. CASE Head
  BY <1>4 DEF Head, GoOn
<1>5. CASE Source
  BY <1>5 DEF Source, GoOn, SourceFits, HasGuard
<1>6. CASE Accept \/ Refuse
  BY <1>6 DEF Accept, Refuse, GoOn
<1>7. ASSUME NEW report \in reports \cup {None}, Collect(report)
      PROVE  Established'
  BY <1>7 DEF Collect, SourceFits, HasGuard
<1>8. CASE UNCHANGED vars
  BY <1>8 DEF vars, SourceFits, HasGuard
<1> QED
  BY <1>1, <1>2, <1>3, <1>4, <1>5, <1>6, <1>7, <1>8 DEF Next, Preflight

\* A quiet preflight of the prepared phase accepts a tree only if applying the guard
\* patch, and nothing else, makes it one that the armed phase accepts.
LEMMA PreparedIsReady ==
  ASSUME TypeOK, Established, quiet, step = "patch", MayAccept, phase = "prepared"
  PROVE  LET patched == [checkout EXCEPT !.dispatch = "guarded"] IN
           /\ patched.pinned /\ SourceFits(patched, "armed")
           /\ ApplyAnswers(patched, "armed", FALSE) = {TRUE}
<1> DEFINE patched == [checkout EXCEPT !.dispatch = "guarded"]
<1>1. changed = {} /\ checkout.pinned = TRUE
  BY DEF Established, TypeOK, Checkout
<1>2. checkout.rest = "upstream"
  BY <1>1 DEF MayAccept, CleanAnswers
<1>3. /\ patched.pinned /\ patched.dispatch = "guarded" /\ patched.rest = "upstream"
  BY <1>1, <1>2 DEF TypeOK, Checkout
<1>4. SourceFits(patched, "armed")
  BY <1>3 DEF SourceFits, HasGuard
<1>5. ApplyAnswers(patched, "armed", FALSE) = {TRUE}
  BY <1>3 DEF ApplyAnswers
<1> QED
  BY <1>3, <1>4, <1>5

\* A quiet preflight of the armed phase accepts only the pinned commit with the patch.
LEMMA ArmedIsArmed ==
  ASSUME TypeOK, Established, quiet, step = "patch", MayAccept, phase = "armed"
  PROVE  Armed(checkout)
<1>1. changed = {} /\ checkout.pinned /\ SourceFits(checkout, "armed")
  BY DEF Established
<1>2. TRUE \in {checkout.dispatch \in {"guarded", "guardedEdited"}}
  BY <1>1 DEF MayAccept, ApplyAnswers
<1> QED
  BY <1>1, <1>2 DEF Armed, SourceFits

\* What one report says of the checkout it saw.
MeansIt(r) ==
  /\ r.changed = {}
  /\ IF r.phase = "armed" THEN Armed(r.saw)
     ELSE LET patched == [r.saw EXCEPT !.dispatch = "guarded"] IN
          /\ patched.pinned /\ SourceFits(patched, "armed")
          /\ ApplyAnswers(patched, "armed", FALSE) = {TRUE}

LEMMA ReportStep ==
  TypeOK /\ Established /\ ReportsMeanWhatTheySay /\ [Next]_vars => ReportsMeanWhatTheySay'
<1> SUFFICES ASSUME TypeOK, Established, ReportsMeanWhatTheySay, [Next]_vars
             PROVE  ReportsMeanWhatTheySay'
  OBVIOUS
<1>1. CASE reports' = reports
  BY <1>1 DEF ReportsMeanWhatTheySay
<1>2. CASE Accept
  <2> DEFINE new == [phase |-> phase, quiet |-> quiet, saw |-> checkout, changed |-> changed]
  <2>1. step = "patch" /\ MayAccept /\ reports' = reports \cup {new}
    BY <1>2 DEF Accept
  <2>2. ASSUME quiet PROVE MeansIt(new)
    <3>1. new.changed = {}
      BY <2>1, <2>2 DEF Established
    <3>2. CASE phase = "armed"
      BY <2>1, <2>2, <3>1, <3>2, ArmedIsArmed DEF MeansIt
    <3>3. CASE phase = "prepared"
      BY <2>1, <2>2, <3>1, <3>3, PreparedIsReady DEF MeansIt
    <3> QED
      BY <3>2, <3>3 DEF TypeOK, Phases
  <2>3. \A r \in reports : r.quiet => MeansIt(r)
    BY DEF ReportsMeanWhatTheySay, MeansIt
  <2>4. \A r \in reports' : r.quiet => MeansIt(r)
    <3> SUFFICES ASSUME NEW r \in reports', r.quiet PROVE MeansIt(r)
      OBVIOUS
    <3> HIDE DEF MeansIt
    <3>1. CASE r = new
      BY <2>2, <3>1
    <3> QED
      BY <2>1, <2>3, <3>1
  <2> QED
    BY <2>4 DEF ReportsMeanWhatTheySay, MeansIt
<1> QED
  BY <1>1, <1>2 DEF Next, vars, EditCheckout, EditInput, Preflight, Begin, Digests, Head,
                    Source, Refuse, GoOn, Collect

-------------------------------------------------------------------------------
\* The inductive invariant: a preflight and its reports mean what they say as long as
\* nobody edits meanwhile, and a claim that the engine is armed had a guard behind it
\* even if somebody does.
THEOREM GateCorrect == Spec => []GateInv
<1>1. Init => GateInv
  <2> SUFFICES ASSUME Init PROVE GateInv
    OBVIOUS
  <2>1. checkout \in Checkout /\ ~HasGuard(checkout)
    BY DEF Init, Checkout, Dispatchers, Rests, HasGuard
  <2>2. TypeOK
    <3>1. edits \in 0..MaxEdits /\ preflights \in 0..MaxRuns
      BY BoundsAssumption DEF Init
    <3>2. reports \subseteq Report /\ changed \in SUBSET Inputs /\ contact = None
      BY DEF Init
    <3> QED
      BY <2>1, <3>1, <3>2 DEF Init, TypeOK, Phases
  <2>3. Established /\ GuardBehindClaims /\ ReportsMeanWhatTheySay
    BY <2>1 DEF Init, Established, GuardBehindClaims, ReportsMeanWhatTheySay
  <2> QED
    BY <2>2, <2>3 DEF GateInv
<1>2. GateInv /\ [Next]_vars => GateInv'
  BY TypeStep, GuardStep, EstablishedStep, ReportStep DEF GateInv
<1> QED
  BY <1>1, <1>2, PTL DEF Spec

\* Types and bounds of the preflight and the gate (serving_preflight.py, collector.py).
THEOREM GateTypeCorrect == Spec => []TypeOK
  BY GateCorrect, PTL DEF GateInv

\* No live run without an engine that had the guard, however the checkout and the patch
\* file were edited while the preflight read them.
THEOREM GuardWasThereHolds == Spec => []GuardWasThere
<1>1. GateInv => GuardWasThere
  BY DEF GateInv, GuardBehindClaims, GuardWasThere
<1> QED
  BY <1>1, GateCorrect, PTL

\* A report from a checkout that nobody edited meanwhile means what it says.
THEOREM ReportsMeanWhatTheySayHolds == Spec => []ReportsMeanWhatTheySay
  BY GateCorrect, PTL DEF GateInv
===============================================================================
