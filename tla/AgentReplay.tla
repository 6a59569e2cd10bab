------------------------------ MODULE AgentReplay ------------------------------
(***************************************************************************)
(* The offline rehearsal of bench/agent_replay.py:replay, which carries    *)
(* out a transcript again over the same tool_step, without a model or a    *)
(* container, and the live session whose transcripts it is given.          *)
(***************************************************************************)
EXTENDS AgentSession

\* tool_step on a replay's own state rather than on the session's.
In(s) == INSTANCE AgentSession WITH working <- s.working, inspected <- s.seen,
                                    writes <- s.writes

\* replay's local variables.
Fresh == [working |-> Template, seen |-> {}, writes |-> {},
          tested |-> FALSE, ended |-> FALSE]

\* The transcript is rejected.
Rejected == [Fresh EXCEPT !.working = None]

\* No edit has to come before run_tests here.
StepAllowed(s, c) == \/ In(s)!ListAllowed(c) \/ In(s)!ReadAllowed(c)
                     \/ In(s)!WriteAllowed(c) \/ In(s)!FinishAllowed(c)
                     \/ c.tool = "run_tests" /\ c.path = None /\ c.source = None

\* Deviation: a file that was read is not remembered.
SeenAfterNothing(s, c) == s.seen

SeenAfter(s, c) == IF c.tool = "read_file" THEN s.seen \cup {c.path} ELSE s.seen

\* Deviation: an edit resets the flag, as in the live loop.
TestedSince(s, c) == (s.tested \/ c.tool = "run_tests") /\ c.tool # "write_file"

TestedAfter(s, c) == s.tested \/ c.tool = "run_tests"

\* One step of the transcript; nothing may follow finish.
Step(s, c) ==
  LET edit == c.tool = "write_file"
  IN  IF s = Rejected \/ s.ended \/ ~StepAllowed(s, c) THEN Rejected
      ELSE [working |-> IF edit THEN [s.working EXCEPT ![c.path] = c.source] ELSE s.working,
            seen    |-> SeenAfter(s, c),
            writes  |-> IF edit THEN s.writes \cup {c.path} ELSE s.writes,
            tested  |-> TestedAfter(s, c),
            ended   |-> c.tool = "finish"]

Replayed(transcript) ==
  LET after[n \in 0..Len(transcript)] ==
        IF n = 0 THEN Fresh ELSE Step(after[n - 1], transcript[n])
  IN  after[Len(transcript)]

\* source_file_hashes: the changed sources and what they are now.
Sources(s) == LET changed == {f \in Writable : s.working[f] # Template[f]}
              IN  [f \in changed |-> s.working[f]]

ReplayAccepts(transcript) ==
  LET s == Replayed(transcript)
  IN  /\ Len(transcript) \in 1..Budget
      /\ s # Rejected
      /\ s.ended /\ s.writes # {} /\ (s.tested \/ ~TestCallRequired)
      /\ DOMAIN Sources(s) # {}

-------------------------------------------------------------------------------
(* Properties.                                                             *)

\* Every session that reached the grader can be rehearsed, and the rehearsal
\* arrives at the sources that were graded: two loops with flags of their own
\* over one tool_step.
GradedReplays ==
  Graded => /\ ReplayAccepts(trace)
            /\ Sources(Replayed(trace)) = [f \in receipt.changed |-> receipt.graded[f]]

\* Where the loops differ: a rehearsal does not ask that the tests follow the
\* latest edit ("tested" is never reset), so it accepts a finished session that
\* the live loop is about to reject for an untested edit, and no other.
ReplayForgetsEdits ==
  phase = "grading" =>
    (ReplayAccepts(trace) <=> /\ Changed # {}
                              /\ At("run_tests") # {} \/ ~TestCallRequired)
===============================================================================
