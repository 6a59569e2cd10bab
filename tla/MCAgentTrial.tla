----------------------------- MODULE MCAgentTrial -----------------------------
(***************************************************************************)
(* AgentTrial for TLC: a task that demands no test run and lets the agent  *)
(* edit one file more than the evaluator's case does, a few calls of which *)
(* two are refused, and an invocation for every check of make_trial and    *)
(* for the evaluator's own limit.                                          *)
(***************************************************************************)
EXTENDS AgentTrial

CONSTANTS code, lib, original, fix, surrogate

MCSource == {original, fix, surrogate}
MCTemplate == [f \in {code, lib} |-> original]

call(tool, path, source) == [tool |-> tool, path |-> path, source |-> source]

MCCalls == { call("read_file", code, None), call("read_file", None, None),
             call("write_file", code, fix), call("write_file", lib, fix),
             call("write_file", code, surrogate), call("run_tests", None, None),
             call("finish", None, original) }

\* Both suites passed; the private one failed.
MCRuns == { [rc |-> 0, counts |-> <<2, 5>>], [rc |-> 1, counts |-> <<2, 5>>] }

invocation(arm, repeat, controls, hardware) ==
  [arm |-> arm, repeat |-> repeat, controls |-> controls, hardware |-> hardware]

MCInvocations == { invocation("A", 0, "complete", "pinned"),
                   invocation("B", 0, "complete", "pinned"),
                   invocation("A", MaxRepeat + 1, "complete", "pinned"),
                   invocation("A", -1, "complete", "pinned"),
                   invocation("", 0, "complete", "pinned"),
                   invocation("A", 0, "incomplete", "pinned"),
                   invocation("A", 0, "complete", "incomplete"),
                   invocation("A", 0, "complete", "other") }
===============================================================================
