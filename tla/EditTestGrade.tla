---------------------------- MODULE EditTestGrade ----------------------------
(***************************************************************************)
(* What one agent trial promises, with nothing of how it is carried out.   *)
(* A candidate workspace is edited within its allowlist, is shown to the   *)
(* visible tests, and is graded at most once; a trial that is graded was   *)
(* edited and, when the task asks for it, graded in exactly the contents   *)
(* that the visible tests saw last.  A trial may be given up at any time,  *)
(* and then it never passes.                                               *)
(*                                                                         *)
(* Stated for bench/agent_loop.py:run_session as driven by                 *)
(* bench/agent_http.py:run_live.  AgentSession implements it.              *)
(***************************************************************************)
CONSTANTS Files,             \* names of the files in the task's workspace
          Writable,          \* the allowlisted ones
          Source,            \* file contents
          Template,          \* the unsolved workspace
          TestCallRequired,  \* the task demands a visible test run
          None               \* a value that is no workspace

VARIABLES doc,      \* the candidate workspace
          checked,  \* the contents the visible tests saw last, or None
          graded,   \* the contents the final grader judged, or None
          outcome   \* "open" until the trial is settled

vars == <<doc, checked, graded, outcome>>

Init == /\ doc = Template
        /\ checked = None
        /\ graded = None
        /\ outcome = "open"

Edit == /\ outcome = "open" /\ graded = None
        /\ doc' \in [Files -> Source]
        /\ \A f \in Files \ Writable : doc'[f] = doc[f]
        /\ UNCHANGED <<checked, graded, outcome>>

Check == /\ outcome = "open" /\ graded = None
         /\ checked' = doc
         /\ UNCHANGED <<doc, graded, outcome>>

Grade == /\ outcome = "open" /\ graded = None
         /\ doc # Template
         /\ TestCallRequired => checked = doc
         /\ graded' = doc
         /\ UNCHANGED <<doc, checked, outcome>>

Settle == /\ outcome = "open" /\ graded # None
          /\ outcome' \in {"pass", "fail"}
          /\ UNCHANGED <<doc, checked, graded>>

GiveUp == /\ outcome = "open" /\ graded = None
          /\ outcome' \in {"fail", "unverified", "lost"}
          /\ UNCHANGED <<doc, checked, graded>>

Next == Edit \/ Check \/ Grade \/ Settle \/ GiveUp

Spec == Init /\ [][Next]_vars /\ WF_vars(Next)
==============================================================================
