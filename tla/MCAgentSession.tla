---------------------------- MODULE MCAgentSession ----------------------------
(***************************************************************************)
(* AgentSession for TLC: a workspace of a task text, one or two source     *)
(* files and one file over the size bound; a call of each kind that        *)
(* tool_step carries out, and one for each way it refuses a call.          *)
(***************************************************************************)
EXTENDS AgentReplay

CONSTANTS readme, code, lib, large, outside,    \* paths
          original, fix, long, empty, number, surrogate   \* texts

MCNames == {readme, code, lib, large, outside}
MCFiles == MCNames \ {outside}
MCSource == {original, fix, long, empty, number, surrogate}
MCTemplate == [f \in MCFiles |-> IF f = large THEN long ELSE original]

call(tool, path, source) == [tool |-> tool, path |-> path, source |-> source]

Useful == { call("list_files", None, None), call("run_tests", None, None),
            call("finish", None, empty) }
          \cup {call("read_file", f, None) : f \in {readme, code}}
          \cup {call("write_file", code, s) : s \in {original, fix}}
          \cup {call("write_file", lib, fix)}

Refused == { call("list_files", code, None), call("read_file", outside, None),
             call("read_file", large, None), call("read_file", None, None),
             call("write_file", readme, fix), call("write_file", code, None),
             call("write_file", code, long), call("write_file", code, empty),
             call("write_file", code, number), call("write_file", code, surrogate),
             call("run_tests", code, None), call("finish", None, None),
             call("finish", None, number), call("finish", None, surrogate) }

MCCalls == Useful \cup Refused

\* Exit codes and test counts: all ran and passed; too few of either; the
\* public suite failed and stopped the shell; the private one failed; the
\* container did not start; a third count in the report.
MCRuns == { [rc |-> 0, counts |-> <<2, 5>>], [rc |-> 0, counts |-> <<1, 5>>],
            [rc |-> 0, counts |-> <<2, 4>>], [rc |-> 1, counts |-> <<2>>],
            [rc |-> 1, counts |-> <<2, 5>>], [rc |-> NotStarted, counts |-> <<>>],
            [rc |-> 0, counts |-> <<2, 5, 1>>] }
===============================================================================
