--------------------------- MODULE SseStreamProofs ---------------------------
(***************************************************************************)
(* The collector's reading of a stream, for streams of any length, any     *)
(* chunks and any delays: what reaches a record was sent, and when.        *)
(***************************************************************************)
EXTENDS SseStream, SequenceTheorems, FiniteSetTheorems, TLAPS

\* The clock is not behind what it was read for.
Timed == began <= clock /\ (first # None => began <= first /\ first <= clock)

\* Nothing read so far ends the stream.
Clean == \A n \in DOMAIN sent : sent[n].kind \in {"chunk", "skip"}

\* first is the time of the earliest output.
FirstIsEarliest ==
  IF first = None THEN OutputAt = {}
  ELSE \E n \in OutputAt : first = sent[n].at /\ \A k \in OutputAt : n <= k

UsageIsLatest == usage = "counts" => Counted

FinishWasSent == finish # None => \E n \in ChunkAt : sent[n].chunk.finish # None

ToolsAreTheirs == DOMAIN tools = Indices

SoFar == Clean /\ FirstIsEarliest /\ UsageIsLatest /\ FinishWasSent /\ ToolsAreTheirs

SseInv == /\ TypeOK /\ Timed
          /\ Reading => SoFar
          /\ RecordedIsComplete /\ TimingsAreTheStreams

-------------------------------------------------------------------------------
(* A line is read.                                                         *)

LEMMA Arrived ==
  ASSUME TypeOK, Timed, NEW kind \in Kinds, NEW c \in Chunk \cup {None}, Arrive(kind, c)
  PROVE  /\ sent' \in Seq(Line) /\ Len(sent') <= MaxLines
         /\ Len(sent) \in Nat /\ Len(sent') = Len(sent) + 1
         /\ DOMAIN sent = 1..Len(sent) /\ DOMAIN sent' = 1..(Len(sent) + 1)
         /\ \A n \in DOMAIN sent : n \in DOMAIN sent' /\ sent'[n] = sent[n]
         /\ \A n \in DOMAIN sent' : n \in DOMAIN sent \/ n = Len(sent')
         /\ sent'[Len(sent')] = [kind |-> kind, chunk |-> c, at |-> clock']
         /\ sent'[Len(sent')].kind = kind /\ sent'[Len(sent')].at = clock'
         /\ clock' \in Nat /\ clock <= clock'
<1> DEFINE line == [kind |-> kind, chunk |-> c, at |-> clock']
<1>1. clock' \in Nat /\ clock <= clock' /\ Len(sent) < MaxLines /\ sent' = Append(sent, line)
  BY ChunkAssumption DEF Arrive, TypeOK
<1>2. line \in Line
  BY <1>1 DEF Line
<1>3. Len(sent) \in Nat /\ DOMAIN sent = 1..Len(sent)
  BY LenProperties DEF TypeOK
<1> HIDE DEF line
<1>4. /\ sent' \in Seq(Line) /\ Len(sent') = Len(sent) + 1
      /\ \A n \in 1..Len(sent) : sent'[n] = sent[n]
      /\ sent'[Len(sent) + 1] = line
  BY <1>1, <1>2, AppendProperties DEF TypeOK
<1>5. DOMAIN sent' = 1..(Len(sent) + 1)
  BY <1>4, LenProperties
<1>6. \A n \in DOMAIN sent' : n \in DOMAIN sent \/ n = Len(sent')
  BY <1>3, <1>4, <1>5
<1>7. line.kind = kind /\ line.at = clock' /\ sent'[Len(sent')] = line
  BY <1>4 DEF line
<1>8. Len(sent') <= MaxLines
  BY <1>1, <1>3, <1>4, ChunkAssumption
<1>9. \A n \in DOMAIN sent : n \in DOMAIN sent' /\ sent'[n] = sent[n]
  BY <1>3, <1>4, <1>5
<1>10. sent'[Len(sent')] = [kind |-> kind, chunk |-> c, at |-> clock']
  BY <1>7 DEF line
<1> QED
  BY <1>1, <1>3, <1>4, <1>5, <1>6, <1>7, <1>8, <1>9, <1>10

\* A line that is no chunk leaves the chunks and their outputs as they were.
LEMMA NoChunkArrived ==
  ASSUME TypeOK, Timed, NEW kind \in Kinds, kind # "chunk", Arrive(kind, None)
  PROVE  /\ ChunkAt' = ChunkAt /\ OutputAt' = OutputAt
         /\ \A n \in ChunkAt : n \in DOMAIN sent /\ sent'[n] = sent[n]
         /\ Counted => Counted'
         /\ Indices' = Indices
<1>0. None \in Chunk \cup {None}
  OBVIOUS
<1>1. /\ Len(sent) \in Nat
      /\ DOMAIN sent = 1..Len(sent) /\ DOMAIN sent' = 1..(Len(sent) + 1)
      /\ \A n \in DOMAIN sent : n \in DOMAIN sent' /\ sent'[n] = sent[n]
      /\ sent'[Len(sent) + 1] = [kind |-> kind, chunk |-> None, at |-> clock']
  BY <1>0, Arrived, Zenon
<1>2. ChunkAt' = ChunkAt /\ \A n \in ChunkAt : n \in DOMAIN sent /\ sent'[n] = sent[n]
  BY <1>1 DEF ChunkAt
<1>3. OutputAt' = OutputAt
  <2>1. \A n : n \in OutputAt' <=> n \in OutputAt
    BY <1>2 DEF OutputAt
  <2> QED
    BY <2>1
<1>4. Counted => Counted'
  BY <1>2 DEF Counted
<1>5. Indices' = Indices
  <2>1. \A i : i \in Indices' <=> i \in Indices
    BY <1>2 DEF Indices, PartAt
  <2> QED
    BY <2>1
<1> QED
  BY <1>2, <1>3, <1>4, <1>5

\* A chunk is the newest of them.
LEMMA ChunkArrived ==
  ASSUME TypeOK, Timed, NEW c \in Chunk, Arrive("chunk", c)
  PROVE  LET new == Len(sent) + 1 IN
         /\ ChunkAt' = ChunkAt \cup {new}
         /\ \A n \in ChunkAt : n \in 1..Len(sent) /\ sent'[n] = sent[n]
         /\ sent'[new].chunk = c /\ sent'[new].at = clock' /\ Len(sent) \in Nat
         /\ OutputAt' = OutputAt \cup (IF Output(c) THEN {new} ELSE {})
<1> DEFINE new == Len(sent) + 1
<1>1. /\ Len(sent) \in Nat
      /\ DOMAIN sent = 1..Len(sent) /\ DOMAIN sent' = 1..new
      /\ \A n \in DOMAIN sent : sent'[n] = sent[n]
      /\ sent'[new] = [kind |-> "chunk", chunk |-> c, at |-> clock']
  BY Arrived DEF Kinds
<1>2. /\ ChunkAt' = ChunkAt \cup {new}
      /\ \A n \in ChunkAt : n \in 1..Len(sent) /\ sent'[n] = sent[n]
  BY <1>1 DEF ChunkAt
<1>3. OutputAt' = OutputAt \cup (IF Output(c) THEN {new} ELSE {})
  BY <1>1, <1>2 DEF OutputAt
<1> QED
  BY <1>1, <1>2, <1>3

-------------------------------------------------------------------------------
(* What is known of the stream, kept by every line that does not end it.   *)

\* A chunk brings the flags up to date with the chunks.
LEMMA ChunkKeepsSoFar ==
  ASSUME TypeOK, Timed, Reading, SoFar, NEW c \in Chunks, ReadChunk(c)
  PROVE  SoFar'
<1> DEFINE new == Len(sent) + 1
<1>1. c \in Chunk /\ Arrive("chunk", c)
  BY ChunkAssumption DEF ReadChunk
<1>2. /\ ChunkAt' = ChunkAt \cup {new} /\ Len(sent) \in Nat
      /\ \A n \in ChunkAt : n \in 1..Len(sent) /\ sent'[n] = sent[n]
      /\ sent'[new].chunk = c /\ sent'[new].at = clock'
      /\ OutputAt' = OutputAt \cup (IF Output(c) THEN {new} ELSE {})
  BY <1>1, ChunkArrived
<1>3. Clean'
  <2>1. /\ \A n \in DOMAIN sent' : n \in DOMAIN sent \/ n = Len(sent')
        /\ \A n \in DOMAIN sent : sent'[n] = sent[n]
        /\ sent'[Len(sent')].kind = "chunk"
    BY <1>1, Arrived DEF Kinds
  <2> QED
    BY <2>1 DEF SoFar, Clean
<1>4. FirstIsEarliest'
  <2>1. OutputAt \subseteq ChunkAt
    BY DEF OutputAt
  <2>2. clock' \in Nat /\ None \notin Nat
    BY <1>1, Arrived, ChunkAssumption DEF Kinds
  <2>3. CASE first = None /\ Output(c)
    <3>1. OutputAt' = {new} /\ first' = clock'
      BY <1>2, <2>3 DEF SoFar, FirstIsEarliest, ReadChunk, FirstOutput
    <3> QED
      BY <1>2, <2>2, <3>1 DEF FirstIsEarliest
  <2>4. CASE first = None /\ ~Output(c)
    <3>1. OutputAt' = {} /\ first' = first
      BY <1>2, <2>4 DEF SoFar, FirstIsEarliest, ReadChunk, FirstOutput
    <3> QED
      BY <2>4, <3>1 DEF FirstIsEarliest
  <2>5. CASE first # None
    <3>1. first' = first
      BY <2>5 DEF ReadChunk, FirstOutput
    <3>2. PICK n \in OutputAt : first = sent[n].at /\ \A k \in OutputAt : n <= k
      BY <2>5 DEF SoFar, FirstIsEarliest
    <3>3. n \in OutputAt' /\ first' = sent'[n].at /\ \A k \in OutputAt' : n <= k
      BY <1>2, <2>1, <3>1, <3>2
    <3> QED
      BY <2>5, <3>1, <3>3 DEF FirstIsEarliest
  <2> QED
    BY <2>3, <2>4, <2>5
<1>5. UsageIsLatest'
  <2> SUFFICES ASSUME usage' = "counts" PROVE Counted'
    BY DEF UsageIsLatest
  <2>1. CASE c.usage = None
    <3>1. Counted
      BY <2>1 DEF ReadChunk, Newest, SoFar, UsageIsLatest
    <3>2. PICK n \in ChunkAt : /\ sent[n].chunk.usage = "counts"
                               /\ \A m \in ChunkAt : m > n => sent[m].chunk.usage = None
      BY <3>1 DEF Counted
    <3>3. n \in ChunkAt' /\ sent'[n].chunk.usage = "counts"
      BY <1>2, <3>2
    <3>4. \A m \in ChunkAt' : m > n => sent'[m].chunk.usage = None
      BY <1>2, <2>1, <3>2
    <3> QED
      BY <3>3, <3>4 DEF Counted
  <2>2. CASE c.usage # None
    <3>1. sent'[new].chunk.usage = "counts"
      BY <1>2, <2>2 DEF ReadChunk, Newest
    <3>2. \A m \in ChunkAt' : ~(m > new)
      BY <1>2
    <3> QED
      BY <1>2, <3>1, <3>2 DEF Counted
  <2> QED
    BY <2>1, <2>2
<1>6. FinishWasSent'
  BY <1>2 DEF ReadChunk, Newest, SoFar, FinishWasSent
<1>7. ToolsAreTheirs'
  <2>1. CASE c.tool = None
    <3>1. \A i : i \in Indices' <=> i \in Indices
      BY <1>2, <2>1 DEF Indices, PartAt
    <3> QED
      BY <2>1, <3>1 DEF ReadChunk, Joined, SoFar, ToolsAreTheirs
  <2>2. CASE c.tool # None
    <3>1. \A i : i \in Indices' <=> i \in Indices \cup {c.tool.index}
      BY <1>2, <2>2 DEF Indices, PartAt
    <3>2. DOMAIN tools' = DOMAIN tools \cup {c.tool.index}
      BY <2>2 DEF ReadChunk, Joined
    <3> QED
      BY <3>1, <3>2 DEF SoFar, ToolsAreTheirs
  <2> QED
    BY <2>1, <2>2
<1> QED
  BY <1>3, <1>4, <1>5, <1>6, <1>7 DEF SoFar

LEMMA SkipKeepsSoFar == ASSUME TypeOK, Timed, Reading, SoFar, Skip PROVE SoFar'
<1>1. Arrive("skip", None) /\ UNCHANGED <<first, usage, finish, tools>>
  BY DEF Skip
<1>2. /\ ChunkAt' = ChunkAt /\ OutputAt' = OutputAt /\ Indices' = Indices
      /\ \A n \in ChunkAt : sent'[n] = sent[n]
      /\ Counted => Counted'
  BY <1>1, NoChunkArrived DEF Kinds
<1>3. Clean'
  <2>1. /\ \A n \in DOMAIN sent' : n \in DOMAIN sent \/ n = Len(sent')
        /\ \A n \in DOMAIN sent : sent'[n] = sent[n]
        /\ sent'[Len(sent')].kind = "skip"
    BY <1>1, Arrived DEF Kinds
  <2> QED
    BY <2>1 DEF SoFar, Clean
<1>4. OutputAt \subseteq ChunkAt
  BY DEF OutputAt
<1>5. FirstIsEarliest'
  BY <1>1, <1>2, <1>4 DEF SoFar, FirstIsEarliest
<1>6. UsageIsLatest'
  BY <1>1, <1>2 DEF SoFar, UsageIsLatest
<1>7. FinishWasSent'
  BY <1>1, <1>2 DEF SoFar, FinishWasSent
<1>8. ToolsAreTheirs'
  BY <1>1, <1>2 DEF SoFar, ToolsAreTheirs
<1> QED
  BY <1>3, <1>5, <1>6, <1>7, <1>8 DEF SoFar

-------------------------------------------------------------------------------
(* Types and times.                                                        *)

LEMMA ReadChunkTypes ==
  ASSUME TypeOK, Timed, NEW c \in Chunks, ReadChunk(c) PROVE TypeOK' /\ Timed'
<1>1. c \in Chunk /\ Arrive("chunk", c) /\ status' = status /\ record' = record
  BY ChunkAssumption DEF ReadChunk
<1>2. sent' \in Seq(Line) /\ Len(sent') <= MaxLines /\ clock' \in Nat /\ clock <= clock'
  BY <1>1, Arrived DEF Kinds
<1>3. first' \in Nat \cup {None} /\ (first' = first \/ first' = clock')
  BY <1>2 DEF ReadChunk, FirstOutput, TypeOK
<1>4. content' \in Seq(Text)
  BY <1>1, AppendProperties DEF ReadChunk, Chunk, TypeOK
<1>5. DOMAIN tools' \subseteq Index /\ \A i \in DOMAIN tools' : tools'[i] \in Seq(Part)
  <2>1. CASE c.tool = None
    BY <2>1 DEF ReadChunk, Joined, TypeOK
  <2>2. CASE c.tool # None
    <3>1. c.tool.index \in Index /\ c.tool.part \in Part
      BY <1>1, <2>2 DEF Chunk
    <3>2. DOMAIN tools' = DOMAIN tools \cup {c.tool.index}
      BY <2>2 DEF ReadChunk, Joined
    <3>3. ASSUME NEW i \in DOMAIN tools' PROVE tools'[i] \in Seq(Part)
      <4> DEFINE kept == IF i \in DOMAIN tools THEN tools[i] ELSE <<>>
      <4>1. kept \in Seq(Part)
        BY EmptySeq DEF TypeOK
      <4>2. tools'[i] = IF i = c.tool.index THEN Append(kept, c.tool.part) ELSE kept
        BY <2>2, <3>2, <3>3 DEF ReadChunk, Joined
      <4> QED
        BY <3>1, <4>1, <4>2, AppendProperties
    <3> QED
      BY <3>1, <3>2, <3>3 DEF TypeOK
  <2> QED
    BY <2>1, <2>2
<1>6. usage' \in {None, "counts", "nocounts"}
  BY <1>1 DEF ReadChunk, Newest, Chunk, TypeOK
<1>7. finish' \in {None, "stop", "length", "tool_calls"}
  BY <1>1 DEF ReadChunk, Newest, Chunk, TypeOK
<1>8. Timed'
  BY <1>2, <1>3 DEF ReadChunk, Timed, TypeOK
<1> QED
  BY <1>1, <1>2, <1>3, <1>4, <1>5, <1>6, <1>7, <1>8 DEF ReadChunk, TypeOK

\* A record has the type of one: its spans are not negative.
LEMMA RecordTypes ==
  ASSUME TypeOK, Timed, NEW finished \in Nat, clock <= finished, CanRecord(TRUE)
  PROVE  [response |-> Response, finish |-> finish, metrics |-> Metrics(finished)] \in Record
<1>1. Response \in Seq(Text) \cup Seq(Part)
  <2>1. CASE DOMAIN tools = {}
    BY <2>1 DEF Response, TypeOK
  <2>2. CASE DOMAIN tools # {}
    <3>1. (CHOOSE i \in DOMAIN tools : TRUE) \in DOMAIN tools
      BY <2>2
    <3> QED
      BY <2>2, <3>1 DEF Response, TypeOK
  <2> QED
    BY <2>1, <2>2
<1>2. finish \in {"stop", "length", "tool_calls"}
  BY DEF CanRecord, TypeOK
<1>3. Metrics(finished) \in [ttft : Nat, decode : Nat, e2e : Nat]
  <2>1. /\ first \in Nat /\ began \in Nat /\ clock \in Nat
        /\ began <= first /\ first <= clock /\ began <= clock
    BY DEF CanRecord, Timed, TypeOK
  <2>2. first - began \in Nat /\ finished - first \in Nat /\ finished - began \in Nat
    BY <2>1
  <2> QED
    BY <2>2 DEF Metrics
<1> QED
  BY <1>1, <1>2, <1>3 DEF Record

\* Reading ends in a record or without one.
LEMMA RaiseTypes ==
  ASSUME TypeOK, Timed, Reading, Raise, sent' \in Seq(Line), Len(sent') <= MaxLines,
         clock' \in Nat, clock <= clock'
  PROVE  TypeOK' /\ Timed'
<1>1. Timed'
  BY DEF Raise, Timed, TypeOK
<1> QED
  BY <1>1 DEF Raise, TypeOK, Reading

\* What a stream that ends in the end marker leaves behind.
LEMMA ReadDoneRecords ==
  ASSUME TypeOK, Timed, Reading, SoFar, ReadDone, CanRecord(TRUE)
  PROVE  TypeOK' /\ Timed' /\ RecordedIsComplete' /\ TimingsAreTheStreams'
<1>1. /\ Arrive("done", None) /\ status' = "recorded"
      /\ record' = [response |-> Response, finish |-> finish, metrics |-> Metrics(clock')]
      /\ UNCHANGED <<began, first, content, tools, usage, finish>>
  BY DEF ReadDone, Close
<1>2. /\ ChunkAt' = ChunkAt /\ OutputAt' = OutputAt /\ Indices' = Indices
      /\ \A n \in ChunkAt : sent'[n] = sent[n]
      /\ Counted => Counted'
  BY <1>1, NoChunkArrived DEF Kinds
<1>3. /\ sent' \in Seq(Line) /\ Len(sent') <= MaxLines
      /\ clock' \in Nat /\ clock <= clock'
      /\ \A n \in DOMAIN sent : sent'[n] = sent[n]
      /\ \A n \in DOMAIN sent' : n \in DOMAIN sent \/ n = Len(sent')
      /\ sent'[Len(sent')].kind = "done" /\ sent'[Len(sent')].at = clock'
  BY <1>1, Arrived DEF Kinds
<1>4. record' \in Record
  BY <1>1, <1>3, RecordTypes
<1>5. Timed'
  BY <1>1, <1>3 DEF Timed, TypeOK
<1>6. TypeOK'
  BY <1>1, <1>3, <1>4 DEF TypeOK
<1>7. PICK earliest \in OutputAt : /\ first = sent[earliest].at
                                   /\ \A k \in OutputAt : earliest <= k
  BY DEF SoFar, FirstIsEarliest, CanRecord
<1>8. OutputAt \subseteq ChunkAt /\ ChunkAt \subseteq Nat
  BY LenProperties DEF OutputAt, ChunkAt, TypeOK
<1>9. RecordedIsComplete'
  <2>1. \A n \in DOMAIN sent' : sent'[n].kind \notin {"error", "malformed"}
    BY <1>3 DEF SoFar, Clean
  <2>2. Counted'
    BY <1>2 DEF CanRecord, SoFar, UsageIsLatest
  <2>3. \E n \in ChunkAt' : sent'[n].chunk.finish # None
    BY <1>2 DEF CanRecord, SoFar, FinishWasSent
  <2>4. Cardinality(Indices) <= 1
    <3>1. Indices = {} \/ \E i : Indices = {i}
      BY DEF CanRecord, SoFar, ToolsAreTheirs
    <3>2. CASE Indices = {}
      BY <3>2, FS_EmptySet
    <3>3. CASE \E i : Indices = {i}
      BY <3>3, FS_Singleton
    <3> QED
      BY <3>1, <3>2, <3>3
  <2>5. Cardinality(Indices') <= 1
    BY <1>2, <2>4
  <2> QED
    BY <1>2, <1>3, <1>7, <2>1, <2>2, <2>3, <2>5 DEF RecordedIsComplete
<1>10. TimingsAreTheStreams'
  <2> DEFINE chosen == CHOOSE n \in OutputAt' : \A k \in OutputAt' : n <= k
  <2>1. chosen \in OutputAt /\ \A k \in OutputAt : chosen <= k
    BY <1>2, <1>7
  <2> HIDE DEF chosen
  <2>2. chosen = earliest
    BY <1>7, <1>8, <2>1
  <2>3. sent'[chosen].at = first
    BY <1>2, <1>7, <1>8, <2>2
  <2>4. /\ first \in Nat /\ began \in Nat
        /\ record'.metrics = [ttft |-> first - began, decode |-> clock' - first,
                              e2e |-> clock' - began]
    BY <1>1 DEF CanRecord, TypeOK, Metrics
  <2> QED
    BY <1>1, <1>3, <2>3, <2>4 DEF TimingsAreTheStreams, chosen
<1> QED
  BY <1>5, <1>6, <1>9, <1>10

-------------------------------------------------------------------------------
LEMMA SseStep == SseInv /\ [Next]_vars => SseInv'
<1> SUFFICES ASSUME SseInv, [Next]_vars PROVE SseInv'
  OBVIOUS
<1>0. /\ TypeOK /\ Timed /\ RecordedIsComplete /\ TimingsAreTheStreams
      /\ Reading => SoFar
  BY DEF SseInv
<1>1. ASSUME NEW c \in Chunks, ReadChunk(c) PROVE SseInv'
  <2>1. Reading /\ status' = status
    BY <1>1 DEF ReadChunk, Arrive
  <2>2. TypeOK' /\ Timed' /\ SoFar'
    BY <1>0, <1>1, <2>1, ReadChunkTypes, ChunkKeepsSoFar
  <2> QED
    BY <2>1, <2>2 DEF SseInv, RecordedIsComplete, TimingsAreTheStreams, Recorded, Reading
<1>2. CASE Skip
  <2>1. /\ Reading /\ Arrive("skip", None)
        /\ UNCHANGED <<began, first, content, tools, usage, finish, status, record>>
    BY <1>2 DEF Skip, Arrive
  <2>2. /\ sent' \in Seq(Line) /\ Len(sent') <= MaxLines
        /\ clock' \in Nat /\ clock <= clock'
    BY <1>0, <2>1, Arrived DEF Kinds
  <2>3. TypeOK'
    BY <1>0, <2>1, <2>2 DEF TypeOK
  <2>4. Timed'
    BY <1>0, <2>1, <2>2 DEF Timed, TypeOK
  <2>5. SoFar'
    BY <1>0, <1>2, <2>1, SkipKeepsSoFar
  <2> QED
    BY <2>1, <2>3, <2>4, <2>5
       DEF SseInv, RecordedIsComplete, TimingsAreTheStreams, Recorded, Reading
\* An end without a record.
<1>3. ASSUME Reading, Raise, sent' \in Seq(Line), Len(sent') <= MaxLines,
             clock' \in Nat, clock <= clock'
      PROVE  SseInv'
  <2>1. TypeOK' /\ Timed'
    BY <1>0, <1>3, RaiseTypes
  <2>2. status' = "raised"
    BY <1>3 DEF Raise
  <2> QED
    BY <2>1, <2>2 DEF SseInv, RecordedIsComplete, TimingsAreTheStreams, Recorded, Reading
<1>4. ASSUME NEW kind \in Kinds, Arrive(kind, None), Raise PROVE SseInv'
  <2>1. Reading
    BY <1>4 DEF Arrive
  <2>2. /\ sent' \in Seq(Line) /\ Len(sent') <= MaxLines
        /\ clock' \in Nat /\ clock <= clock'
    BY <1>0, <1>4, Arrived
  <2> QED
    BY <1>3, <1>4, <2>1, <2>2
<1>5. CASE ReadBad
  BY <1>4, <1>5 DEF ReadBad, Kinds
\* Nothing more arrives.
<1>6. ASSUME Reading, Raise, UNCHANGED <<clock, sent>> PROVE SseInv'
  <2>1. /\ sent' \in Seq(Line) /\ Len(sent') <= MaxLines
        /\ clock' \in Nat /\ clock <= clock'
    BY <1>0, <1>6 DEF TypeOK
  <2> QED
    BY <1>3, <1>6, <2>1
<1>7. CASE Break
  BY <1>6, <1>7 DEF Break
<1>8. CASE EndOfFile
  BY <1>6, <1>8 DEF EndOfFile, Close, CanRecord
<1>9. CASE ReadDone
  <2>1. Reading /\ Arrive("done", None)
    BY <1>9 DEF ReadDone, Arrive
  <2>2. CASE CanRecord(TRUE)
    <3>1. TypeOK' /\ Timed' /\ RecordedIsComplete' /\ TimingsAreTheStreams'
      BY <1>0, <1>9, <2>1, <2>2, ReadDoneRecords
    <3>2. status' = "recorded"
      BY <1>9, <2>2 DEF ReadDone, Close
    <3> QED
      BY <3>1, <3>2 DEF SseInv, Reading
  <2>3. CASE ~CanRecord(TRUE)
    BY <1>4, <1>9, <2>1, <2>3 DEF ReadDone, Close, Kinds
  <2> QED
    BY <2>2, <2>3
<1>10. CASE UNCHANGED vars
  <2>1. TypeOK' /\ Timed'
    BY <1>0, <1>10 DEF vars, TypeOK, Timed
  <2>2. /\ ChunkAt' = ChunkAt /\ sent' = sent /\ status' = status /\ record' = record
        /\ began' = began
    BY <1>10 DEF vars, ChunkAt
  <2>3. OutputAt' = OutputAt /\ Indices' = Indices /\ (Counted' <=> Counted)
    BY <2>2 DEF OutputAt, Indices, PartAt, Counted
  <2>4. (Reading => SoFar)'
    BY <1>0, <1>10, <2>2, <2>3 DEF vars, Reading, SoFar, Clean, FirstIsEarliest,
       UsageIsLatest, FinishWasSent, ToolsAreTheirs
  <2>5. RecordedIsComplete'
    BY <1>0, <2>2, <2>3 DEF RecordedIsComplete, Recorded
  <2>6. TimingsAreTheStreams'
    BY <1>0, <2>2, <2>3 DEF TimingsAreTheStreams, Recorded
  <2> QED
    BY <2>1, <2>4, <2>5, <2>6 DEF SseInv
<1> QED
  BY <1>1, <1>2, <1>5, <1>7, <1>8, <1>9, <1>10 DEF Next

LEMMA SseStart == Init => SseInv
<1> SUFFICES ASSUME Init PROVE SseInv
  OBVIOUS
<1>1. ChunkAt = {} /\ sent = <<>>
  BY DEF Init, ChunkAt
<1>2. OutputAt = {} /\ Indices = {} /\ DOMAIN tools = {}
  <2>1. OutputAt = {}
    BY <1>1 DEF OutputAt
  <2>2. \A i : i \notin Indices
    BY <1>1 DEF Indices, PartAt
  <2> QED
    BY <2>1, <2>2 DEF Init
<1>3. /\ sent \in Seq(Line) /\ Len(sent) <= MaxLines /\ content \in Seq(Text)
  BY <1>1, EmptySeq, ChunkAssumption DEF Init
<1>4. TypeOK
  BY <1>2, <1>3 DEF Init, TypeOK
<1>5. Timed
  BY DEF Init, Timed
<1>6. SoFar
  <2>1. Clean /\ FirstIsEarliest /\ ToolsAreTheirs
    BY <1>1, <1>2 DEF Init, Clean, FirstIsEarliest, ToolsAreTheirs
  <2>2. UsageIsLatest /\ FinishWasSent
    BY ChunkAssumption DEF Init, UsageIsLatest, FinishWasSent
  <2> QED
    BY <2>1, <2>2 DEF SoFar
<1> QED
  BY <1>4, <1>5, <1>6 DEF Init, SseInv, RecordedIsComplete, TimingsAreTheStreams, Recorded

\* The inductive invariant: while the code reads, its flags sum up the stream so far.
THEOREM SseCorrect == Spec => []SseInv
  BY SseStart, SseStep, PTL DEF Spec

\* Types: in particular a record has spans that are not negative, which is what
\* fitness.validate_trial asks of them.
THEOREM SseTypeCorrect == Spec => []TypeOK
  BY SseCorrect, PTL DEF SseInv

\* Only a whole stream with a finish reason, token counts, no error in it and one tool
\* call at most becomes a record, however long it is.
THEOREM RecordedIsCompleteHolds == Spec => []RecordedIsComplete
  BY SseCorrect, PTL DEF SseInv

\* Times are those of the first output and of the end marker, and the spans add up.
THEOREM TimingsAreTheStreamsHolds == Spec => []TimingsAreTheStreams
  BY SseCorrect, PTL DEF SseInv
-------------------------------------------------------------------------------
(* What the pieces of the response are: the same argument again for a      *)
(* second invariant, that each string collected so far is the stream's.    *)

TextPieces == [n \in TextAt |-> sent[n].chunk.text]

IndexAt(i) == {n \in PartAt : sent[n].chunk.tool.index = i}

PartPieces(i) == [n \in IndexAt(i) |-> sent[n].chunk.tool.part]

\* Collected strings are the pieces so far: the text, and each call's arguments.
Collected == /\ InOrder(content, TextPieces)
             /\ \A i \in DOMAIN tools : InOrder(tools[i], PartPieces(i))

PiecesInv == /\ Reading => Collected
             /\ ResponseIsTheStream

\* Nothing is in order with nothing.
LEMMA NothingInOrder ==
  ASSUME NEW pieces, DOMAIN pieces = {} PROVE InOrder(<<>>, pieces)
<1>1. Len(<<>>) = 0 /\ 1..0 = {}
  BY EmptySeq
<1>2. [n \in {} |-> n] \in [1..0 -> DOMAIN pieces]
  BY <1>1
<1> QED
  BY <1>1, <1>2 DEF InOrder

\* A piece later than all others is joined on at the end.
LEMMA JoinedInOrder ==
  ASSUME NEW S, NEW r \in Seq(S), NEW e \in S, NEW old, NEW latest \in Nat,
         DOMAIN old \subseteq Nat, \A n \in DOMAIN old : n < latest,
         NEW pieces, DOMAIN pieces = DOMAIN old \cup {latest},
         pieces[latest] = e, \A n \in DOMAIN old : pieces[n] = old[n],
         InOrder(r, old)
  PROVE  InOrder(Append(r, e), pieces)
<1> DEFINE joined == Append(r, e)
<1>1. PICK at \in [1..Len(r) -> DOMAIN old] :
        /\ \A n \in DOMAIN old : \E k \in 1..Len(r) : at[k] = n
        /\ \A k, l \in 1..Len(r) : k < l => at[k] < at[l]
        /\ \A k \in 1..Len(r) : r[k] = old[at[k]]
  BY DEF InOrder
<1>2. /\ Len(r) \in Nat /\ Len(joined) = Len(r) + 1
      /\ \A k \in 1..Len(r) : joined[k] = r[k]
      /\ joined[Len(r) + 1] = e
  BY LenProperties, AppendProperties
<1> DEFINE last == Len(joined)
           more == [k \in 1..last |-> IF k = last THEN latest ELSE at[k]]
<1> HIDE DEF joined
<1>3. latest \notin DOMAIN old
  OBVIOUS
<1>4. /\ more[last] = latest /\ \A k \in 1..Len(r) : more[k] = at[k]
      /\ \A k \in 1..last : k \in 1..Len(r) \/ k = last
      /\ \A k \in 1..Len(r) : k \in 1..last /\ k < last
      /\ last \in 1..last
      /\ more \in [1..last -> DOMAIN pieces]
  BY <1>2, <1>3
<1> HIDE DEF more
<1>5. \A n \in DOMAIN pieces : \E k \in 1..last : more[k] = n
  BY <1>1, <1>3, <1>4
<1>6. \A k, l \in 1..last : k < l => more[k] < more[l]
  BY <1>1, <1>2, <1>4
<1>7. \A k \in 1..last : joined[k] = pieces[more[k]]
  BY <1>1, <1>2, <1>3, <1>4
<1>8. InOrder(joined, pieces)
  BY <1>4, <1>5, <1>6, <1>7 DEF InOrder
<1> QED
  BY <1>8 DEF joined

\* What a line that is no chunk does to the pieces: nothing.
LEMMA NoChunkCollected ==
  ASSUME TypeOK, Timed, NEW kind \in Kinds, kind # "chunk", Arrive(kind, None)
  PROVE  /\ TextPieces' = TextPieces /\ PartAt' = PartAt
         /\ \A i : PartPieces(i)' = PartPieces(i)
         /\ [n \in PartAt |-> sent[n].chunk.tool.part]'
              = [n \in PartAt |-> sent[n].chunk.tool.part]
<1>1. ChunkAt' = ChunkAt /\ \A n \in ChunkAt : sent'[n] = sent[n]
  BY NoChunkArrived
<1>2. TextAt' = TextAt /\ PartAt' = PartAt /\ TextAt \subseteq ChunkAt /\ PartAt \subseteq ChunkAt
  BY <1>1 DEF TextAt, PartAt
<1>3. \A i : IndexAt(i)' = IndexAt(i) /\ IndexAt(i) \subseteq ChunkAt
  BY <1>1, <1>2 DEF IndexAt
<1> QED
  BY <1>1, <1>2, <1>3 DEF TextPieces, PartPieces

LEMMA ChunkCollected ==
  ASSUME TypeOK, Timed, Reading, SoFar, Collected, NEW c \in Chunks, ReadChunk(c)
  PROVE  Collected'
<1> DEFINE new == Len(sent) + 1
<1>1. c \in Chunk /\ Arrive("chunk", c)
  BY ChunkAssumption DEF ReadChunk
<1>2. /\ ChunkAt' = ChunkAt \cup {new} /\ Len(sent) \in Nat
      /\ \A n \in ChunkAt : n \in 1..Len(sent) /\ sent'[n] = sent[n]
      /\ sent'[new].chunk = c
  BY <1>1, ChunkArrived
<1>3. new \in Nat /\ new \notin ChunkAt /\ ChunkAt \subseteq Nat /\ \A n \in ChunkAt : n < new
  BY <1>2
<1> HIDE DEF new
<1>4. InOrder(content, TextPieces)'
  <2>1. CASE c.text = None
    <3>1. TextAt' = TextAt /\ TextAt \subseteq ChunkAt
      BY <1>2, <1>3, <2>1 DEF TextAt
    <3>2. TextPieces' = TextPieces
      BY <1>2, <3>1 DEF TextPieces
    <3>3. content' = content
      BY <2>1 DEF ReadChunk
    <3> QED
      BY <3>2, <3>3 DEF Collected
  <2>2. CASE c.text # None
    <3>1. TextAt' = TextAt \cup {new} /\ TextAt \subseteq ChunkAt
      BY <1>2, <1>3, <2>2 DEF TextAt
    <3>2. /\ DOMAIN TextPieces' = DOMAIN TextPieces \cup {new}
          /\ TextPieces'[new] = c.text
          /\ \A n \in DOMAIN TextPieces : TextPieces'[n] = TextPieces[n]
      BY <1>2, <1>3, <3>1 DEF TextPieces
    <3>3. content' = Append(content, c.text) /\ content \in Seq(Text) /\ c.text \in Text
      BY <1>1, <2>2 DEF ReadChunk, Chunk, TypeOK
    <3>4. DOMAIN TextPieces \subseteq Nat /\ \A n \in DOMAIN TextPieces : n < new
      BY <1>3, <3>1 DEF TextPieces
    <3>5. InOrder(content, TextPieces)
      BY DEF Collected
    <3>6. InOrder(content', TextPieces')
      BY <1>3, <3>2, <3>3, <3>4, <3>5, JoinedInOrder
    <3> QED
      BY <3>6
  <2> QED
    BY <2>1, <2>2
<1>5. CASE c.tool = None
  <2>1. PartAt' = PartAt /\ PartAt \subseteq ChunkAt
    BY <1>2, <1>3, <1>5 DEF PartAt
  <2>2. \A i : IndexAt(i)' = IndexAt(i) /\ IndexAt(i) \subseteq ChunkAt
    BY <1>2, <2>1 DEF IndexAt
  <2>3. \A i : PartPieces(i)' = PartPieces(i)
    BY <1>2, <2>2 DEF PartPieces
  <2>4. tools' = tools
    BY <1>5 DEF ReadChunk, Joined
  <2> QED
    BY <1>4, <2>3, <2>4 DEF Collected
<1>6. CASE c.tool # None
  <2> DEFINE own == c.tool.index
             part == c.tool.part
             kept == IF own \in DOMAIN tools THEN tools[own] ELSE <<>>
  <2>1. own \in Index /\ part \in Part
    BY <1>1, <1>6 DEF Chunk
  <2>2. PartAt' = PartAt \cup {new} /\ PartAt \subseteq ChunkAt
    BY <1>2, <1>3, <1>6 DEF PartAt
  <2>3. \A i : IndexAt(i)' = IndexAt(i) \cup (IF i = own THEN {new} ELSE {})
    BY <1>2, <1>3, <2>2 DEF IndexAt
  <2>4. \A i : IndexAt(i) \subseteq ChunkAt
    BY <2>2 DEF IndexAt
  <2>5. \A i : i # own => PartPieces(i)' = PartPieces(i)
    BY <1>2, <2>3, <2>4 DEF PartPieces
  <2>6. /\ DOMAIN PartPieces(own)' = DOMAIN PartPieces(own) \cup {new}
        /\ PartPieces(own)'[new] = part
        /\ \A n \in DOMAIN PartPieces(own) : PartPieces(own)'[n] = PartPieces(own)[n]
    BY <1>2, <1>3, <2>3, <2>4 DEF PartPieces
  <2>7. /\ DOMAIN tools' = DOMAIN tools \cup {own}
        /\ tools'[own] = Append(kept, part)
        /\ \A i \in DOMAIN tools : i # own => tools'[i] = tools[i]
    BY <1>6 DEF ReadChunk, Joined
  <2>8. kept \in Seq(Part)
    BY EmptySeq DEF TypeOK
  <2>9. InOrder(kept, PartPieces(own))
    <3>1. CASE own \in DOMAIN tools
      BY <3>1 DEF Collected
    <3>2. CASE own \notin DOMAIN tools
      <4>1. IndexAt(own) = {}
        BY <3>2 DEF SoFar, ToolsAreTheirs, Indices, IndexAt
      <4>2. DOMAIN PartPieces(own) = {}
        BY <4>1 DEF PartPieces
      <4> QED
        BY <3>2, <4>2, NothingInOrder
    <3> QED
      BY <3>1, <3>2
  <2>10. DOMAIN PartPieces(own) \subseteq Nat /\ \A n \in DOMAIN PartPieces(own) : n < new
    BY <1>3, <2>4 DEF PartPieces
  <2> HIDE DEF own, part, kept
  <2>11. InOrder(Append(kept, part), PartPieces(own)')
    BY <1>3, <2>1, <2>6, <2>8, <2>9, <2>10, JoinedInOrder
  <2>12. \A i \in DOMAIN tools' : InOrder(tools'[i], PartPieces(i)')
    BY <2>5, <2>7, <2>11 DEF Collected
  <2> QED
    BY <1>4, <2>12 DEF Collected
<1> QED
  BY <1>5, <1>6

\* The string that is recorded is one of those collected.
LEMMA DoneRecordsPieces ==
  ASSUME TypeOK, Timed, Reading, SoFar, Collected, ReadDone, CanRecord(TRUE)
  PROVE  ResponseIsTheStream'
<1>1. /\ Arrive("done", None)
      /\ record' = [response |-> Response, finish |-> finish, metrics |-> Metrics(clock')]
  BY DEF ReadDone, Close
<1>2. record'.response = Response
  BY <1>1
<1>3. /\ TextPieces' = TextPieces /\ Indices' = Indices
      /\ [n \in PartAt |-> sent[n].chunk.tool.part]'
           = [n \in PartAt |-> sent[n].chunk.tool.part]
  BY <1>1, NoChunkCollected, NoChunkArrived DEF Kinds
<1>4. DOMAIN tools = Indices
  BY DEF SoFar, ToolsAreTheirs
<1>5. CASE Indices = {}
  <2>1. InOrder(Response, TextPieces)
    BY <1>4, <1>5 DEF Response, Collected
  <2> QED
    BY <1>2, <1>3, <1>5, <2>1 DEF ResponseIsTheStream, TextPieces
<1>6. CASE Indices # {}
  <2>1. PICK i \in DOMAIN tools : DOMAIN tools = {i}
    BY <1>4, <1>6 DEF CanRecord
  <2>2. Response = tools[i]
    BY <2>1 DEF Response
  <2>3. IndexAt(i) = PartAt
    BY <1>4, <2>1 DEF IndexAt, Indices
  <2>4. PartPieces(i) = [n \in PartAt |-> sent[n].chunk.tool.part]
    BY <2>3 DEF PartPieces
  <2>5. InOrder(Response, [n \in PartAt |-> sent[n].chunk.tool.part])
    BY <2>1, <2>2, <2>4 DEF Collected
  <2> QED
    BY <1>2, <1>3, <1>6, <2>5 DEF ResponseIsTheStream
<1> QED
  BY <1>5, <1>6

LEMMA PiecesStep == SseInv /\ PiecesInv /\ [Next]_vars => PiecesInv'
<1> SUFFICES ASSUME SseInv, PiecesInv, [Next]_vars PROVE PiecesInv'
  OBVIOUS
<1>0. /\ TypeOK /\ Timed /\ ResponseIsTheStream
      /\ Reading => SoFar /\ Collected
  BY DEF SseInv, PiecesInv
<1>1. ASSUME NEW c \in Chunks, ReadChunk(c) PROVE PiecesInv'
  <2>1. Reading /\ status' = status
    BY <1>1 DEF ReadChunk, Arrive
  <2>2. Collected'
    BY <1>0, <1>1, <2>1, ChunkCollected
  <2> QED
    BY <2>1, <2>2 DEF PiecesInv, ResponseIsTheStream, Recorded, Reading
<1>2. CASE Skip
  <2>1. Reading /\ Arrive("skip", None) /\ UNCHANGED <<content, tools, status>>
    BY <1>2 DEF Skip, Arrive
  <2>2. TextPieces' = TextPieces /\ \A i : PartPieces(i)' = PartPieces(i)
    BY <1>0, <2>1, NoChunkCollected DEF Kinds
  <2>3. Collected'
    BY <1>0, <2>1, <2>2 DEF Collected
  <2> QED
    BY <2>1, <2>3 DEF PiecesInv, ResponseIsTheStream, Recorded, Reading
\* An end without a record.
<1>3. ASSUME Raise PROVE PiecesInv'
  BY <1>3 DEF Raise, PiecesInv, ResponseIsTheStream, Recorded, Reading
<1>4. CASE ReadBad \/ Break \/ EndOfFile
  BY <1>3, <1>4 DEF ReadBad, Break, EndOfFile, Close, CanRecord
<1>5. CASE ReadDone
  <2>1. Reading
    BY <1>5 DEF ReadDone, Arrive
  <2>2. CASE CanRecord(TRUE)
    <3>1. ResponseIsTheStream'
      BY <1>0, <1>5, <2>1, <2>2, DoneRecordsPieces
    <3>2. status' = "recorded"
      BY <1>5, <2>2 DEF ReadDone, Close
    <3> QED
      BY <3>1, <3>2 DEF PiecesInv, Reading
  <2>3. CASE ~CanRecord(TRUE)
    BY <1>3, <1>5, <2>3 DEF ReadDone, Close
  <2> QED
    BY <2>2, <2>3
<1>6. CASE UNCHANGED vars
  <2>1. UNCHANGED <<sent, content, tools, status, record>>
    BY <1>6 DEF vars
  <2>2. ChunkAt' = ChunkAt
    BY <2>1 DEF ChunkAt
  <2>3. TextAt' = TextAt /\ PartAt' = PartAt
    BY <2>1, <2>2 DEF TextAt, PartAt
  <2>4. /\ Indices' = Indices /\ TextPieces' = TextPieces
        /\ \A i : PartPieces(i)' = PartPieces(i)
    BY <2>1, <2>3 DEF Indices, TextPieces, PartPieces, IndexAt
  <2>5. (Reading => Collected)'
    BY <1>0, <2>1, <2>4 DEF Reading, Collected
  <2>6. ResponseIsTheStream'
    BY <1>0, <2>1, <2>3, <2>4 DEF ResponseIsTheStream, Recorded
  <2> QED
    BY <2>5, <2>6 DEF PiecesInv
<1> QED
  BY <1>1, <1>2, <1>4, <1>5, <1>6 DEF Next

LEMMA PiecesStart == Init => PiecesInv
<1> SUFFICES ASSUME Init PROVE PiecesInv
  OBVIOUS
<1>1. ChunkAt = {}
  BY DEF Init, ChunkAt
<1>2. DOMAIN TextPieces = {} /\ DOMAIN tools = {}
  BY <1>1 DEF Init, TextPieces, TextAt
<1>3. Collected
  BY <1>2, NothingInOrder DEF Init, Collected
<1> QED
  BY <1>3 DEF Init, PiecesInv, ResponseIsTheStream, Recorded

\* The recorded response is what was sent, in order: the text, or the arguments of
\* the one tool call, however long the stream and however its pieces are mixed.
THEOREM ResponseIsTheStreamHolds == Spec => []ResponseIsTheStream
<1>1. Spec => []PiecesInv
  BY SseCorrect, PiecesStart, PiecesStep, PTL DEF Spec
<1> QED
  BY <1>1, PTL DEF PiecesInv

===============================================================================
