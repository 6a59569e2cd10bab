----------------------------- MODULE MCSseStream -----------------------------
(* SseStream for TLC: every combination of fields that matters in a chunk. *)
EXTENDS SseStream

chunk(u, f, t, c) == [usage |-> u, finish |-> f, text |-> t, tool |-> c]

part(i, p) == [index |-> i, part |-> p]

MCChunks == { chunk(None, None, "a", None), chunk(None, "stop", "b", None),
              chunk(None, None, None, part(0, "{")), chunk(None, "tool_calls", None, part(0, "}")),
              chunk(None, "length", None, part(1, "}")), chunk(None, None, "a", part(0, "{")),
              chunk("counts", None, None, None), chunk("nocounts", "stop", None, None) }

\* An empty object is the one JSON text that the parts make up.
MCComplete == { <<"{", "}">> }
===============================================================================
