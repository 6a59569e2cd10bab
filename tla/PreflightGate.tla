---------------------------- MODULE PreflightGate ----------------------------
(***************************************************************************)
(* The static gate in front of every live run: the two phases of           *)
(* tools/serving_preflight.py over a checkout of the inference engine, and *)
(* bench/collector.py:enforce_final_gate, which decides from a report file *)
(* alone.  A preflight reads the files named by the profile, then the      *)
(* checkout, then asks git about the patch; an operator may edit any of    *)
(* them in between, and at any time after the report was written.          *)
(*                                                                         *)
(* The engine's dispatcher is one of five texts, and the profile's own     *)
(* numbers are sound (validate_profile is arithmetic on constants).        *)
(***************************************************************************)
EXTENDS Naturals

CONSTANTS MaxEdits,   \* bound: changes to the checkout and to the files
          MaxRuns,    \* bound: preflights
          None        \* no report

\* dispatch.py as pinned; with the guard patch applied; so and edited elsewhere;
\* with the guard written by hand, so that the patch cannot be reversed; without
\* the predicates the audit relies on.
Dispatchers == {"upstream", "guarded", "guardedEdited", "handmade", "foreign"}

\* The rest of the tree: as pinned; edited; edited so that the staging default
\* or the eligibility test of the batched path is gone.
Rests == {"upstream", "edited", "unaudited"}

\* The files whose digests the profile pins.
Inputs == {"config", "manifest", "patch"}

Checkout == [pinned : BOOLEAN, dispatch : Dispatchers, rest : Rests]

Phases == {"prepared", "armed"}

\* A report names its phase only; the rest is history: whether anything was edited
\* while the preflight ran, and what it had in front of it at the end.
Report == [phase : Phases, quiet : BOOLEAN, saw : Checkout, changed : SUBSET Inputs]

ASSUME BoundsAssumption == MaxEdits \in Nat /\ MaxRuns \in Nat /\ None \notin Report

VARIABLES
  checkout,   \* the engine's source tree
  changed,    \* inputs that differ from their pinned digests
  step,       \* how far the running preflight is
  phase,      \* its --phase
  quiet,      \* history: nothing was edited since it began
  reports,    \* the reports on disk
  contact,    \* history: the report and the checkout at the first live run
  hadGuard,   \* history: the dispatcher had the guard at some time
  edits, preflights   \* numbers of each so far

vars == <<checkout, changed, step, phase, quiet, reports, contact, hadGuard, edits,
          preflights>>

Init == /\ checkout = [pinned |-> TRUE, dispatch |-> "upstream", rest |-> "upstream"]
        /\ changed = {}
        /\ step = "idle" /\ phase = "prepared"
        /\ quiet = FALSE
        /\ reports = {} /\ contact = None /\ hadGuard = FALSE
        /\ edits = 0 /\ preflights = 0

-------------------------------------------------------------------------------
(* The operator, at any time.                                              *)

HasGuard(c) == c.dispatch \in {"guarded", "guardedEdited", "handmade"}

Edited == edits < MaxEdits /\ edits' = edits + 1 /\ quiet' = FALSE

EditCheckout == /\ Edited
                /\ \/ \E d \in Dispatchers : checkout' = [checkout EXCEPT !.dispatch = d]
                   \/ \E r \in Rests : checkout' = [checkout EXCEPT !.rest = r]
                   \/ checkout' = [checkout EXCEPT !.pinned = ~@]
                /\ hadGuard' = (hadGuard \/ HasGuard(checkout'))
                /\ UNCHANGED <<changed, step, phase, reports, contact, preflights>>

EditInput == /\ Edited
             /\ \E f \in Inputs : changed' \in {changed \cup {f}, changed \ {f}}
             /\ UNCHANGED <<checkout, step, phase, reports, contact, hadGuard, preflights>>

-------------------------------------------------------------------------------
(* preflight: its requirements, in order.                                  *)

Begin == /\ step = "idle" /\ preflights < MaxRuns
         /\ preflights' = preflights + 1
         /\ phase' \in Phases
         /\ step' = "digests"
         /\ quiet' = TRUE
         /\ UNCHANGED <<checkout, changed, reports, contact, hadGuard, edits>>

\* The first requirement that fails ends the run without a report.
GoOn(from, to, holds) ==
  /\ step = from
  /\ step' = IF holds THEN to ELSE "idle"
  /\ UNCHANGED <<checkout, changed, phase, quiet, reports, contact, hadGuard, edits,
                 preflights>>

Digests == GoOn("digests", "head", changed = {})

Head == GoOn("head", "source", checkout.pinned)

\* Deviation: the guard itself is left to git.
SourceAudited(c, p) == c.dispatch # "foreign" /\ c.rest # "unaudited"

\* Deviation: an edited dispatcher counts as one that is not patched.
SourceExact(c, p) == /\ c.dispatch # "foreign" /\ c.rest # "unaudited"
                     /\ (c.dispatch = "guardedEdited") <=> p = "armed"

\* The audited predicates, and the guard's own text.
SourceFits(c, p) == /\ c.dispatch # "foreign" /\ c.rest # "unaudited"
                    /\ HasGuard(c) <=> p = "armed"

Source == GoOn("source", "patch", SourceFits(checkout, phase))

\* Whether git status may be empty; at another commit it may be either.
CleanAnswers(c) == IF c.pinned THEN {c.dispatch = "upstream" /\ c.rest = "upstream"}
                               ELSE BOOLEAN

\* What git apply --check, or --reverse --check, may say.  Edits elsewhere do not
\* keep a patch from being reversed; a patch file that was replaced since its digest
\* was taken may get either answer.
ApplyAnswers(c, p, replaced) ==
  IF replaced THEN BOOLEAN
  ELSE IF p = "prepared" THEN {c.dispatch = "upstream"}
  ELSE {c.dispatch \in {"guarded", "guardedEdited"}}

\* Whether the last requirements of the phase may hold, and whether they may fail.
MayAccept == /\ phase = "prepared" => TRUE \in CleanAnswers(checkout)
             /\ TRUE \in ApplyAnswers(checkout, phase, "patch" \in changed)

MayReject == \/ phase = "prepared" /\ FALSE \in CleanAnswers(checkout)
             \/ FALSE \in ApplyAnswers(checkout, phase, "patch" \in changed)

Accept == /\ step = "patch" /\ MayAccept
          /\ step' = "idle"
          /\ reports' = reports \cup {[phase |-> phase, quiet |-> quiet,
                                       saw |-> checkout, changed |-> changed]}
          /\ UNCHANGED <<checkout, changed, phase, quiet, contact, hadGuard, edits,
                         preflights>>

Refuse == MayReject /\ GoOn("patch", "idle", FALSE)

-------------------------------------------------------------------------------
(* enforce_final_gate, for a run with --execute and the authorization      *)
(* word; without either the endpoint is not contacted.                     *)

\* Deviation: a report is looked at only if there is one.
GateOptional(report) == report = None \/ report.phase = "armed"

Gate(report) == report # None /\ report.phase = "armed"

Collect(report) == /\ contact = None /\ Gate(report)
                   /\ contact' = [report |-> report, checkout |-> checkout]
                   /\ UNCHANGED <<checkout, changed, step, phase, quiet, reports,
                                  hadGuard, edits, preflights>>

Preflight == Begin \/ Digests \/ Head \/ Source \/ Accept \/ Refuse

Next == \/ EditCheckout \/ EditInput \/ Preflight
        \/ \E report \in reports \cup {None} : Collect(report)

Spec == Init /\ [][Next]_vars

-------------------------------------------------------------------------------
(* Properties.                                                             *)

Armed(c) == /\ c.pinned /\ c.rest # "unaudited"
            /\ c.dispatch \in {"guarded", "guardedEdited"}

TypeOK == /\ checkout \in Checkout
          /\ changed \in SUBSET Inputs
          /\ step \in {"idle", "digests", "head", "source", "patch"}
          /\ phase \in Phases /\ quiet \in BOOLEAN /\ hadGuard \in BOOLEAN
          /\ reports \subseteq Report
          /\ contact # None => contact.report \in reports /\ contact.checkout \in Checkout
          /\ edits \in 0..MaxEdits /\ preflights \in 0..MaxRuns

\* A report from a checkout that nobody edited meanwhile means what it says: armed
\* stands for the pinned commit with the guard patch applied, prepared for a tree on
\* which applying that patch, and nothing else, makes the armed phase accept.
ReportsMeanWhatTheySay ==
  \A r \in reports : r.quiet =>
    /\ r.changed = {}
    /\ IF r.phase = "armed" THEN Armed(r.saw)
       ELSE LET patched == [r.saw EXCEPT !.dispatch = "guarded"] IN
            /\ patched.pinned /\ SourceFits(patched, "armed")
            /\ ApplyAnswers(patched, "armed", FALSE) = {TRUE}

\* No live run without an engine that had the guard in its dispatcher, however the
\* checkout and the patch file were edited while the preflight read them: git's word
\* on the patch and the guard's text are looked for separately.
GuardWasThere == contact # None => hadGuard

\* bench/README.md:27: "Only after [...] a reviewed patched source checkout [...] and
\* an `armed` preflight may `bench.collector --execute` contact" the endpoint: the
\* engine's checkout is patched when the live run starts, if nobody edited it while
\* the preflight ran.
ContactIsArmed == contact # None /\ contact.report.quiet => Armed(contact.checkout)
===============================================================================
