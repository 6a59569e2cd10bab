------------------------------ MODULE SseStream ------------------------------
(***************************************************************************)
(* One streamed answer: bench/collector.py:collect_stream over the lines   *)
(* of a server-sent event stream, as request_case calls it.  The server    *)
(* sends any lines in any order, may stop in the middle, and takes any     *)
(* time between lines.  A record leaves this code only from a complete     *)
(* stream, and its timings are what fitness.validate_trial checks.         *)
(*                                                                         *)
(* A chunk has at most one choice, with at most one text and one piece of  *)
(* a tool call.  Strings that the code concatenates are sequences of       *)
(* pieces.                                                                 *)
(***************************************************************************)
EXTENDS Naturals, Sequences, FiniteSets

CONSTANTS Text,       \* pieces of content
          Part,       \* pieces of tool arguments
          Index,      \* indices of tool calls
          Complete,   \* the sequences of parts that are a JSON text
          Chunks,     \* the chunks the server may send
          MaxLines,   \* bound: lines of the stream
          MaxGap,     \* bound: time between two lines
          None        \* an absent field

Chunk == [usage  : {None, "counts", "nocounts"},
          finish : {None, "stop", "length", "tool_calls"},
          text   : Text \cup {None},
          tool   : [index : Index, part : Part] \cup {None}]

\* What a line may be: a chunk; a comment, an event name or an empty data line; the
\* end marker; an error chunk; data that is no JSON or has another shape.
Kinds == {"chunk", "skip", "done", "error", "malformed"}

Line == [kind : Kinds, chunk : Chunk \cup {None}, at : Nat]

Record == [response : Seq(Text) \cup Seq(Part), finish : {"stop", "length", "tool_calls"},
           metrics : [ttft : Nat, decode : Nat, e2e : Nat]]

ASSUME ChunkAssumption == /\ Chunks \subseteq Chunk
                          /\ Complete \subseteq Seq(Part)
                          /\ MaxLines \in Nat /\ MaxGap \in Nat
                          /\ None \notin Text \cup [index : Index, part : Part]
                          /\ None \notin Record \cup Nat /\ None # "counts"

VARIABLES
  clock,    \* time.monotonic()
  began,    \* when the code started to read
  first,    \* when the first output arrived, or None
  content,  \* pieces of text so far
  tools,    \* index -> pieces of arguments so far
  usage, finish,   \* the last of each, or None
  status,   \* "reading", "recorded" or "raised"
  record,   \* the record, once there is one
  sent      \* history: the lines read, each with its time of arrival

vars == <<clock, began, first, content, tools, usage, finish, status, record, sent>>

Init == /\ clock = 0 /\ began = clock
        /\ first = None
        /\ content = <<>>
        /\ tools = <<>>
        /\ usage = None /\ finish = None
        /\ status = "reading" /\ record = None
        /\ sent = <<>>

Reading == status = "reading"

\* The next line arrives, after a while.
Arrive(kind, c) == /\ Reading /\ Len(sent) < MaxLines
                   /\ clock' \in clock..(clock + MaxGap)
                   /\ sent' = Append(sent, [kind |-> kind, chunk |-> c, at |-> clock'])

-------------------------------------------------------------------------------
(* A chunk.                                                                *)

Newest(value, kept) == IF value # None THEN value ELSE kept

Output(c) == c.text # None \/ c.tool # None

\* Deviation: only text counts as output.
FirstOutputText(c) == IF first = None /\ c.text # None THEN clock' ELSE first

FirstOutput(c) == IF first = None /\ Output(c) THEN clock' ELSE first

\* tool_calls.setdefault(index, ...), then the piece is joined on.
Joined(c) ==
  IF c.tool = None THEN tools
  ELSE [i \in DOMAIN tools \cup {c.tool.index} |->
          LET kept == IF i \in DOMAIN tools THEN tools[i] ELSE <<>>
          IN  IF i = c.tool.index THEN Append(kept, c.tool.part) ELSE kept]

ReadChunk(c) == /\ Arrive("chunk", c)
                /\ usage' = Newest(c.usage, usage)
                /\ finish' = Newest(c.finish, finish)
                /\ first' = FirstOutput(c)
                /\ content' = IF c.text = None THEN content ELSE Append(content, c.text)
                /\ tools' = Joined(c)
                /\ UNCHANGED <<began, status, record>>

Skip == /\ Arrive("skip", None)
        /\ UNCHANGED <<began, first, content, tools, usage, finish, status, record>>

\* Deviation: what came before the fault is recorded.
RaisePartial == /\ status' = "raised"
                /\ record' = [response |-> content, finish |-> finish, metrics |-> None]
                /\ UNCHANGED <<began, first, content, tools, usage, finish>>

Raise == /\ status' = "raised"
         /\ UNCHANGED <<began, first, content, tools, usage, finish, record>>

\* CollectorError for an error chunk; JSONDecodeError, UnicodeDecodeError,
\* KeyError for the rest.
ReadBad == (Arrive("error", None) \/ Arrive("malformed", None)) /\ Raise

\* The connection breaks or is silent for the whole timeout.
Break == Reading /\ Raise /\ UNCHANGED <<clock, sent>>

-------------------------------------------------------------------------------
(* The end of the stream.                                                  *)

\* Deviation: the end marker is not waited for.
CanRecordUndone(done) == /\ first # None /\ finish # None /\ usage = "counts"
                         /\ DOMAIN tools # {} =>
                              \E i \in DOMAIN tools : DOMAIN tools = {i} /\ tools[i] \in Complete

CanRecord(done) == /\ done
                   /\ first # None /\ finish # None /\ usage = "counts"
                   /\ DOMAIN tools # {} =>
                        \E i \in DOMAIN tools : DOMAIN tools = {i} /\ tools[i] \in Complete

\* Deviation: text comes first where there is any.
ResponseText == IF content # <<>> THEN content ELSE tools[CHOOSE i \in DOMAIN tools : TRUE]

Response == IF DOMAIN tools = {} THEN content ELSE tools[CHOOSE i \in DOMAIN tools : TRUE]

Metrics(finished) == [ttft |-> first - began, decode |-> finished - first, e2e |-> finished - began]

\* What follows the loop, the end marker having been read or not.
Close(done) ==
  IF CanRecord(done)
    THEN /\ status' = "recorded"
         /\ record' = [response |-> Response, finish |-> finish, metrics |-> Metrics(clock')]
         /\ UNCHANGED <<began, first, content, tools, usage, finish>>
    ELSE Raise

ReadDone == Arrive("done", None) /\ Close(TRUE)

EndOfFile == Reading /\ UNCHANGED <<clock, sent>> /\ Close(FALSE)

Next == \/ \E c \in Chunks : ReadChunk(c)
        \/ Skip \/ ReadBad \/ Break \/ ReadDone \/ EndOfFile

Spec == Init /\ [][Next]_vars

-------------------------------------------------------------------------------
(* The stream as a whole, against which the record is judged.              *)

ChunkAt == {n \in DOMAIN sent : sent[n].kind = "chunk"}

OutputAt == {n \in ChunkAt : Output(sent[n].chunk)}

TextAt == {n \in ChunkAt : sent[n].chunk.text # None}

PartAt == {n \in ChunkAt : sent[n].chunk.tool # None}

\* Every piece once, in the order of the lines it was sent in.
InOrder(response, pieces) ==
  \E at \in [1..Len(response) -> DOMAIN pieces] :
    /\ \A n \in DOMAIN pieces : \E k \in 1..Len(response) : at[k] = n
    /\ \A k, l \in 1..Len(response) : k < l => at[k] < at[l]
    /\ \A k \in 1..Len(response) : response[k] = pieces[at[k]]

Indices == {sent[n].chunk.tool.index : n \in PartAt}

\* Whether the last chunk that carries usage carries counts.
Counted == \E n \in ChunkAt : /\ sent[n].chunk.usage = "counts"
                              /\ \A m \in ChunkAt : m > n => sent[m].chunk.usage = None

-------------------------------------------------------------------------------
(* Properties.                                                             *)

TypeOK == /\ clock \in Nat /\ began \in Nat
          /\ first \in Nat \cup {None}
          /\ content \in Seq(Text)
          /\ DOMAIN tools \subseteq Index /\ \A i \in DOMAIN tools : tools[i] \in Seq(Part)
          /\ usage \in {None, "counts", "nocounts"}
          /\ finish \in {None, "stop", "length", "tool_calls"}
          /\ status \in {"reading", "recorded", "raised"}
          /\ sent \in Seq(Line) /\ Len(sent) <= MaxLines
          /\ IF status = "recorded" THEN record \in Record ELSE record = None

Recorded == status = "recorded"

\* A stream becomes a record only if it ended in the end marker, gave a finish
\* reason and token counts (the last usage counts, whatever came before), had no
\* error in it, and had one tool call at most ("A backend that cannot report
\* token counts fails closed").
RecordedIsComplete ==
  Recorded => /\ sent[Len(sent)].kind = "done"
              /\ \A n \in DOMAIN sent : sent[n].kind \notin {"error", "malformed"}
              /\ OutputAt # {} /\ Counted
              /\ \E n \in ChunkAt : sent[n].chunk.finish # None
              /\ Cardinality(Indices) <= 1

\* The recorded response is what the server sent, in the order it sent it: the
\* arguments of the one tool call if there is one, else the text, however the
\* pieces were spread over the chunks and mixed with each other.
ResponseIsTheStream ==
  Recorded => InOrder(record.response,
                      IF Indices = {} THEN [n \in TextAt |-> sent[n].chunk.text]
                      ELSE [n \in PartAt |-> sent[n].chunk.tool.part])

\* The time to first token is that of the first output of the stream, and the
\* spans add up: what validate_trial calls inconsistent is never recorded.
TimingsAreTheStreams ==
  Recorded =>
    LET m == record.metrics
        earliest == CHOOSE n \in OutputAt : \A k \in OutputAt : n <= k
    IN  /\ m.ttft = sent[earliest].at - began
        /\ m.ttft + m.decode = m.e2e
        /\ m.e2e = sent[Len(sent)].at - began
===============================================================================
