--------------------------- MODULE OfflineToolsProofs ---------------------------
(***************************************************************************)
(* Proofs about the offline tools for every checkpoint, every number of    *)
(* shards, runs and changes of the server, and all that is tried on them.  *)
(***************************************************************************)
EXTENDS OfflineTools, ArithmeticProofs

(* What a fetching run accepts is whole.                                   *)

\* The stored length of a shard's file is that of the version its header is of.
LengthFits(s) == sizes[s] = FileLength(headers[s].ver, s) /\ headers[s].ver \in Versions
                 /\ headers[s].bytes \in Nat

Fits(s) == headers[s].bytes = HeaderLength(headers[s].ver, s) /\ LengthFits(s)

Shapes == /\ remote \in Versions
          /\ DOMAIN headers = Shard /\ DOMAIN sizes = Shard
          /\ shard \in DOMAIN Shards
          /\ outcome = "accepted" => at = "idle"

\* What was received and not yet stored.
Received ==
  /\ at = "header" => got \in [n : Nat, length : Nat]
  /\ at \in {"header file", "size file"} =>
       /\ got \in [n : Header, length : Nat]
       /\ got.length = FileLength(got.n.ver, This)
  /\ at = "size file" => headers[This] = got.n

\* The shards before this one are stored; so is this one from "read" on.
Stored ==
  /\ fetching /\ at \in {"prefix", "header", "header file", "size file", "read"} =>
       \A m \in DOMAIN Shards : m < shard => LengthFits(Shards[m])
  /\ fetching /\ at = "read" => LengthFits(This)
  /\ fetching /\ at = "audit" => \A s \in Shard : LengthFits(s)
  /\ fetching /\ (at = "csv" \/ outcome = "accepted") => \A s \in Shard : Fits(s)

AuditInv == Shapes /\ Received /\ Stored

LEMMA Indexes ==
  /\ Len(Shards) \in Nat /\ 1 \in DOMAIN Shards
  /\ \A m \in DOMAIN Shards : m \in Nat /\ 1 <= m /\ m <= Len(Shards)
  /\ \A m \in Nat : 1 <= m /\ m <= Len(Shards) => m \in DOMAIN Shards
BY ShardsAssumption

LEMMA LengthsTyped ==
  ASSUME NEW v \in Versions, NEW s \in Shard
  PROVE  /\ HeaderLength(v, s) \in Nat /\ LastEnd(v, s) \in Nat /\ FileLength(v, s) \in Nat
         /\ FileLength(v, s) = 8 + HeaderLength(v, s) + LastEnd(v, s)
BY LayoutAssumption DEF HeaderLength, FileLength

\* Nothing a run has stored changes.
LEMMA FitsKept ==
  ASSUME NEW s, UNCHANGED <<headers, sizes>>
  PROVE  (LengthFits(s)' <=> LengthFits(s)) /\ (Fits(s)' <=> Fits(s))
BY DEF LengthFits, Fits

LEMMA ThisIsAShard == AuditInv => This \in Shard
BY DEF AuditInv, Shapes, This, Shard

LEMMA ShardIndex ==
  AuditInv => /\ shard \in Nat /\ shard \in DOMAIN Shards
              /\ shard # Len(Shards) => shard + 1 \in DOMAIN Shards
              /\ shard = Len(Shards) => \A m \in DOMAIN Shards : m < shard + 1
              /\ \A m \in DOMAIN Shards : m < shard => m # shard
              /\ \A m \in DOMAIN Shards : m < shard + 1 => m < shard \/ m = shard
<1> SUFFICES ASSUME AuditInv
             PROVE  /\ shard \in Nat /\ shard \in DOMAIN Shards
                    /\ shard # Len(Shards) => shard + 1 \in DOMAIN Shards
                    /\ shard = Len(Shards) => \A m \in DOMAIN Shards : m < shard + 1
                    /\ \A m \in DOMAIN Shards : m < shard => m # shard
                    /\ \A m \in DOMAIN Shards : m < shard + 1 => m < shard \/ m = shard
  OBVIOUS
<1>1. shard \in DOMAIN Shards
  BY DEF AuditInv, Shapes
<1> QED
  BY <1>1, Indexes

LEMMA AuditStarts == AuditInit => AuditInv
BY Indexes DEF AuditInit, AuditInv, Shapes, Received, Stored

LEMMA AuditEnd ==
  ASSUME AuditInv, NEW how, End(how), UNCHANGED <<remote, shard, fetching>>,
         DOMAIN headers' = Shard, DOMAIN sizes' = Shard,
         how = "accepted" /\ fetching => \A s \in Shard : Fits(s)'
  PROVE  AuditInv'
<1>1. at' = "idle" /\ outcome' = how /\ fetching' = fetching
  BY DEF End
<1>2. Shapes'
  BY <1>1 DEF AuditInv, Shapes
<1>3. Received'
  BY <1>1 DEF Received
<1>4. Stored'
  BY <1>1 DEF Stored
<1> QED
  BY <1>2, <1>3, <1>4 DEF AuditInv

LEMMA AuditStart ==
  ASSUME AuditInv, NEW fetch \in BOOLEAN, Start(fetch)
  PROVE  AuditInv'
<1>1. /\ at' = (IF fetch THEN "prefix" ELSE "read") /\ fetching' = fetch /\ shard' = 1
      /\ outcome' = "running" /\ UNCHANGED <<remote, headers, sizes>>
  BY DEF Start, First, disk
<1>2. shard' \in DOMAIN Shards /\ \A m \in DOMAIN Shards : ~(m < shard')
  BY <1>1, Indexes
<1> QED
  BY <1>1, <1>2 DEF AuditInv, Shapes, Received, Stored

LEMMA AuditFetch ==
  ASSUME AuditInv, FetchPrefix \/ FetchHeader
  PROVE  AuditInv'
<1>1. This' = This /\ UNCHANGED <<headers, sizes, remote, shard, fetching>>
  BY DEF FetchPrefix, FetchHeader, GoTo, End, This, disk
<1>2. \A s : LengthFits(s)' <=> LengthFits(s)
  BY <1>1, FitsKept
<1>3. CASE FetchPrefix /\ at' = "header"
  <2>1. got' \in [n : Nat, length : Nat] /\ at = "prefix" /\ UNCHANGED outcome
    BY <1>3, LengthsTyped, ThisIsAShard DEF FetchPrefix, GoTo, End, AuditInv, Shapes
  <2> QED
    BY <1>1, <1>2, <1>3, <2>1 DEF AuditInv, Shapes, Received, Stored
<1>6. CASE FetchPrefix /\ End("rejected")
  BY <1>1, <1>6, AuditEnd DEF AuditInv, Shapes
<1>4. CASE FetchHeader /\ FileLength(remote, This) = got.length
  <2>1. got \in [n : Nat, length : Nat]
    BY <1>4 DEF AuditInv, Received, FetchHeader
  <2>2. got' = [n |-> [ver |-> remote, bytes |-> got.n], length |-> got.length]
    BY <1>4, <2>1 DEF FetchHeader
  <2>3. got' \in [n : [ver : Versions, bytes : Nat], length : Nat]
    BY <2>1, <2>2 DEF AuditInv, Shapes
  <2>4. got'.length = FileLength(got'.n.ver, This')
    BY <1>1, <1>4, <2>2
  <2> QED
    BY <1>1, <1>2, <1>4, <2>3, <2>4 DEF AuditInv, Shapes, Received, Stored, FetchHeader, GoTo, Header
<1>5. CASE FetchHeader /\ FileLength(remote, This) # got.length
  BY <1>1, <1>5, AuditEnd DEF FetchHeader, AuditInv, Shapes
<1> QED
  BY <1>3, <1>4, <1>5, <1>6 DEF FetchPrefix, GoTo

LEMMA AuditStore ==
  ASSUME AuditInv, WriteHeader \/ WriteSize
  PROVE  AuditInv'
<1>1. /\ This' = This /\ This \in Shard /\ UNCHANGED <<got, remote, shard, fetching, outcome>>
      /\ \A m \in DOMAIN Shards : m < shard => Shards[m] # This /\ Shards[m] \in Shard
  <2>1. \A m \in DOMAIN Shards : m < shard => m # shard
    BY ShardIndex
  <2> QED
    BY <2>1, ThisIsAShard, ShardsAssumption DEF WriteHeader, WriteSize, GoTo, This, Shard, AuditInv, Shapes
<1>2. CASE WriteHeader
  <2>1. headers' = [headers EXCEPT ![This] = got.n] /\ sizes' = sizes
    BY <1>2 DEF WriteHeader
  <2>2. \A m \in DOMAIN Shards : m < shard => (LengthFits(Shards[m])' <=> LengthFits(Shards[m]))
    BY <1>1, <2>1 DEF LengthFits, AuditInv, Shapes
  <2>3. headers'[This] = got.n /\ DOMAIN headers' = Shard
    BY <1>1, <2>1 DEF AuditInv, Shapes
  <2> QED
    <3>1. at = "header file" /\ at' = "size file"
      BY <1>2 DEF WriteHeader, GoTo
    <3>2. Shapes'
      BY <1>1, <2>1, <2>3, <3>1 DEF AuditInv, Shapes
    <3>3. Received'
      BY <1>1, <2>3, <3>1 DEF AuditInv, Received
    <3>4. Stored'
      BY <1>1, <2>2, <3>1 DEF AuditInv, Shapes, Stored
    <3> QED
      BY <3>2, <3>3, <3>4 DEF AuditInv
<1>3. CASE WriteSize
  <2>1. sizes' = [sizes EXCEPT ![This] = got.length] /\ headers' = headers
    BY <1>3 DEF WriteSize
  <2>2. \A m \in DOMAIN Shards : m < shard => (LengthFits(Shards[m])' <=> LengthFits(Shards[m]))
    BY <1>1, <2>1 DEF LengthFits, AuditInv, Shapes
  <2>3. sizes'[This] = got.length /\ DOMAIN sizes' = Shard
    BY <1>1, <2>1 DEF AuditInv, Shapes
  <2>4. LengthFits(This)'
    BY <1>1, <1>3, <2>1, <2>3 DEF AuditInv, Received, WriteSize, LengthFits, Header
  <2> QED
    <3>1. at = "size file" /\ at' = "read"
      BY <1>3 DEF WriteSize, GoTo
    <3>2. Shapes'
      BY <1>1, <2>1, <2>3, <3>1 DEF AuditInv, Shapes
    <3>3. Received'
      BY <3>1 DEF Received
    <3>4. Stored'
      BY <1>1, <2>2, <2>4, <3>1 DEF AuditInv, Shapes, Stored
    <3> QED
      BY <3>2, <3>3, <3>4 DEF AuditInv
<1> QED
  BY <1>2, <1>3

LEMMA AuditRead ==
  ASSUME AuditInv, Read
  PROVE  AuditInv'
<1>1. at = "read" /\ UNCHANGED <<headers, sizes, remote, fetching>>
  BY DEF Read, End, GoTo, disk
<1>2. \A s : LengthFits(s)' <=> LengthFits(s)
  BY <1>1, FitsKept
<1>3. CASE ~Readable(This)
  BY <1>1, <1>3, AuditEnd DEF Read, AuditInv, Shapes, End
<1>4. fetching => \A m \in DOMAIN Shards : m < shard + 1 => LengthFits(Shards[m])
  <2>1. \A m \in DOMAIN Shards : m < shard + 1 => m < shard \/ m = shard
    BY ShardIndex
  <2> QED
    BY <1>1, <2>1 DEF AuditInv, Stored, This
<1>5. CASE Readable(This) /\ shard = Len(Shards)
  <2>1. fetching => \A s \in Shard : LengthFits(s)
    <3>1. \A m \in DOMAIN Shards : m < shard + 1
      BY <1>5, ShardIndex
    <3> QED
      BY <1>4, <3>1 DEF Shard
  <2>2. at' = "audit" /\ UNCHANGED <<shard, outcome, got>>
    BY <1>5 DEF Read, GoTo
  <2>3. outcome # "accepted"
    BY <1>1 DEF AuditInv, Shapes
  <2> QED
    BY <1>1, <1>2, <2>1, <2>2, <2>3 DEF AuditInv, Shapes, Received, Stored
<1>6. CASE Readable(This) /\ shard # Len(Shards)
  <2>1. /\ shard' = shard + 1 /\ at' = (IF fetching THEN "prefix" ELSE "read")
        /\ UNCHANGED <<outcome, got>>
    BY <1>6 DEF Read, First
  <2>2. shard' \in DOMAIN Shards
    BY <1>6, <2>1, ShardIndex
  <2>3. outcome # "accepted"
    BY <1>1 DEF AuditInv, Shapes
  <2> QED
    BY <1>1, <1>2, <1>4, <2>1, <2>2, <2>3 DEF AuditInv, Shapes, Received, Stored
<1> QED
  BY <1>3, <1>5, <1>6

\* The byte accounting leaves one length for a header whose file length fits.
LEMMA AccountedFits ==
  ASSUME AuditInv, Accounted, \A s \in Shard : LengthFits(s)
  PROVE  \A s \in Shard : Fits(s)
<1> SUFFICES ASSUME NEW s \in Shard PROVE headers[s].bytes = HeaderLength(headers[s].ver, s)
  BY DEF Fits
<1> DEFINE v == headers[s].ver
<1>1. v \in Versions /\ headers[s].bytes \in Nat /\ sizes[s] = FileLength(v, s)
  BY DEF LengthFits
<1>2. /\ HeaderLength(v, s) \in Nat /\ LastEnd(v, s) \in Nat /\ FileLength(v, s) \in Nat
      /\ FileLength(v, s) = 8 + HeaderLength(v, s) + LastEnd(v, s)
  BY <1>1, LengthsTyped
<1>3. sizes[s] # None
  BY <1>1, <1>2, LayoutAssumption
<1>4. LastEnd(v, s) + 8 + headers[s].bytes = FileLength(v, s)
  BY <1>1, <1>3 DEF Accounted
<1> HIDE DEF v
<1>5. \A a, b, c \in Nat : a + 8 + b = 8 + c + a => b = c
  OBVIOUS
<1> QED
  BY <1>1, <1>2, <1>4, <1>5 DEF v

LEMMA AuditAudit ==
  ASSUME AuditInv, Audit
  PROVE  AuditInv'
<1>1. at = "audit" /\ UNCHANGED <<headers, sizes, remote, fetching, shard>>
  BY DEF Audit, End, GoTo, disk
<1>2. \A s : Fits(s)' <=> Fits(s)
  BY <1>1, FitsKept
<1>3. CASE Audited /\ Accounted /\ \A n \in Trellises \cap Found : TrellisFits(n, Meta(n).shape, Found)
  <2>1. fetching => \A s \in Shard : Fits(s)'
    BY <1>1, <1>2, <1>3, AccountedFits DEF AuditInv, Stored
  <2>2. CASE GoTo("csv") /\ UNCHANGED got
    BY <1>1, <2>1, <2>2 DEF AuditInv, Shapes, Received, Stored, GoTo
  <2>3. CASE End("accepted")
    BY <1>1, <2>1, <2>3, AuditEnd DEF AuditInv, Shapes
  <2> QED
    BY <1>3, <2>2, <2>3 DEF Audit
<1>4. CASE ~(Audited /\ Accounted /\ \A n \in Trellises \cap Found : TrellisFits(n, Meta(n).shape, Found))
  <2>1. End("rejected")
    BY <1>4 DEF Audit
  <2> QED
    BY <1>1, <2>1, AuditEnd DEF AuditInv, Shapes
<1> QED
  BY <1>3, <1>4

\* Steps that end the run without accepting it.
LEMMA AuditTorn ==
  ASSUME AuditInv, TearHeader \/ TearSize \/ TearCsv \/ Break
  PROVE  AuditInv'
<1>1. End("aborted") /\ UNCHANGED <<remote, shard, fetching>>
  BY DEF TearHeader, TearSize, TearCsv, Break, End
<1>2. DOMAIN headers' = Shard /\ DOMAIN sizes' = Shard
  BY DEF TearHeader, TearSize, TearCsv, Break, disk, AuditInv, Shapes
<1> QED
  BY <1>1, <1>2, AuditEnd

LEMMA AuditStep == AuditInv /\ [AuditNext]_auditVars => AuditInv'
<1> SUFFICES ASSUME AuditInv, [AuditNext]_auditVars PROVE AuditInv'
  OBVIOUS
<1>1. CASE \E fetch \in BOOLEAN : Start(fetch)
  BY <1>1, AuditStart
<1>2. CASE FetchPrefix \/ FetchHeader
  BY <1>2, AuditFetch
<1>3. CASE WriteHeader \/ WriteSize
  BY <1>3, AuditStore
<1>4. CASE Read
  BY <1>4, AuditRead
<1>5. CASE Audit
  BY <1>5, AuditAudit
<1>6. CASE WriteCsv
  <2>1. at = "csv" /\ End("accepted") /\ UNCHANGED <<headers, sizes, remote, shard, fetching>>
    BY <1>6 DEF WriteCsv, End
  <2>2. fetching => \A s \in Shard : Fits(s)'
    BY <2>1, FitsKept DEF AuditInv, Stored
  <2> QED
    BY <2>1, <2>2, AuditEnd DEF AuditInv, Shapes
<1>7. CASE TearHeader \/ TearSize \/ TearCsv \/ Break
  BY <1>7, AuditTorn
<1>8. CASE (\E v \in Versions : Change(v)) \/ UNCHANGED auditVars
  <2>1. remote' \in Versions /\ UNCHANGED <<headers, sizes, at, shard, got, fetching, outcome>>
    BY <1>8 DEF Change, auditVars, disk, AuditInv, Shapes
  <2>2. \A s : (LengthFits(s)' <=> LengthFits(s)) /\ (Fits(s)' <=> Fits(s))
    BY <2>1, FitsKept
  <2>3. This' = This
    BY <2>1 DEF This
  <2> QED
    BY <2>1, <2>2, <2>3 DEF AuditInv, Shapes, Received, Stored
<1> QED
  BY <1>1, <1>2, <1>3, <1>4, <1>5, <1>6, <1>7, <1>8 DEF AuditNext

-------------------------------------------------------------------------------
(* What there can be in the files.                                         *)

Reading == {"prefix", "header", "header file", "size file", "read"}

\* Files and counters, and which headers a run has come across.
Kinds ==
  /\ changes \in 0..MaxChanges /\ runs \in 0..MaxRuns
  /\ at \in Reading \cup {"idle", "audit", "csv"}
  /\ outcome \in {"none", "running", "accepted", "rejected", "aborted"}
  /\ at = "idle" <=> outcome # "running"
  /\ \A s \in Shard : /\ headers[s] \in Header \cup {None}
                      /\ sizes[s] \in Nat \cup {None, Bad}
                      /\ sizes[s] # None => headers[s] # None
  /\ at \in Reading => \A m \in DOMAIN Shards : m < shard => headers[Shards[m]] # None
  /\ at \in {"audit", "csv"} => \A s \in Shard : headers[s] # None

LEMMA KindsStart == AuditInit => Kinds
BY BoundsAssumption DEF AuditInit, Kinds, Reading

\* Steps that write no file.
LEMMA KindsUnwritten ==
  ASSUME AuditInv, Kinds, UNCHANGED <<headers, sizes>>, AuditNext
  PROVE  Kinds'
<1>1. CASE \E fetch \in BOOLEAN : Start(fetch)
  <2>1. PICK fetch \in BOOLEAN : Start(fetch)
    BY <1>1
  <2>2. /\ at' \in Reading /\ outcome' = "running" /\ shard' = 1 /\ changes' = changes
        /\ runs < MaxRuns /\ runs' = runs + 1
    BY <2>1 DEF Start, First, Reading
  <2>3. \A m \in DOMAIN Shards : ~(m < 1)
    BY Indexes
  <2>4. runs' \in 0..MaxRuns
    BY <2>2, BoundsAssumption DEF Kinds
  <2> QED
    BY <2>2, <2>3, <2>4 DEF Kinds, Reading
<1>2. CASE \E how \in {"accepted", "rejected", "aborted"} : End(how)
  BY <1>2 DEF End, Kinds, Reading
<1>3. CASE /\ at \in Reading /\ at' \in Reading /\ shard' = shard
           /\ UNCHANGED <<outcome, changes, runs>>
  BY <1>3 DEF Kinds, Reading
<1>4. CASE Read /\ Readable(This)
  <2>1. at = "read" /\ headers[This] # None /\ UNCHANGED <<outcome, changes, runs>>
    BY <1>4 DEF Read, Readable, GoTo
  <2>2. \A m \in DOMAIN Shards : m < shard + 1 => headers[Shards[m]] # None
    <3>1. \A m \in DOMAIN Shards : m < shard + 1 => m < shard \/ m = shard
      BY ShardIndex
    <3> QED
      BY <2>1, <3>1 DEF Kinds, This, Reading
  <2>3. CASE shard = Len(Shards)
    <3>1. at' = "audit"
      BY <1>4, <2>3 DEF Read, GoTo
    <3>2. \A m \in DOMAIN Shards : m < shard + 1
      BY <2>3, ShardIndex
    <3>3. \A s \in Shard : headers[s] # None
      BY <2>2, <3>2 DEF Shard
    <3> QED
      BY <2>1, <3>1, <3>3 DEF Kinds, Reading
  <2>4. CASE shard # Len(Shards)
    <3>1. at' \in Reading /\ shard' = shard + 1
      BY <1>4, <2>4 DEF Read, First, Reading
    <3> QED
      BY <2>1, <2>2, <3>1 DEF Kinds, Reading
  <2> QED
    BY <2>3, <2>4
<1>5. CASE at \in {"audit", "csv"} /\ at' = "csv" /\ UNCHANGED <<outcome, changes, runs>>
  BY <1>5 DEF Kinds, Reading
<1>6. CASE \E v \in Versions : Change(v)
  <2>1. changes' \in 0..MaxChanges
    BY <1>6, BoundsAssumption DEF Change, Kinds
  <2> QED
    BY <1>6, <2>1 DEF Change, Kinds, Reading
<1>7. CASE FetchPrefix \/ FetchHeader
  BY <1>2, <1>3, <1>7 DEF FetchPrefix, FetchHeader, GoTo, End, Reading
<1>8. CASE WriteHeader \/ WriteSize
  BY <1>3, <1>8 DEF WriteHeader, WriteSize, GoTo, Reading
<1>9. CASE Read /\ ~Readable(This)
  BY <1>2, <1>9 DEF Read
<1>10. CASE Audit
  BY <1>2, <1>5, <1>10 DEF Audit, GoTo
<1>11. CASE WriteCsv \/ TearHeader \/ TearSize \/ TearCsv \/ Break
  BY <1>2, <1>11 DEF WriteCsv, TearHeader, TearSize, TearCsv, Break
<1> QED
  BY <1>1, <1>4, <1>6, <1>7, <1>8, <1>9, <1>10, <1>11 DEF AuditNext

\* Steps that write the header or the length of this shard.
LEMMA KindsWritten ==
  ASSUME AuditInv, Kinds, WriteHeader \/ TearHeader \/ WriteSize \/ TearSize
  PROVE  Kinds'
<1>1. /\ This \in Shard /\ DOMAIN headers = Shard /\ DOMAIN sizes = Shard
      /\ at \in {"header file", "size file"} /\ at' \in {"size file", "read", "idle"}
      /\ at' = "idle" <=> outcome' # "running"
      /\ outcome' \in {"running", "aborted"} /\ UNCHANGED <<changes, runs, shard>>
      /\ got \in [n : Header, length : Nat]
  BY ThisIsAShard DEF WriteHeader, TearHeader, WriteSize, TearSize, GoTo, End,
                      AuditInv, Shapes, Received, Kinds, Reading
<1>2. ASSUME NEW h \in Header, headers' = [headers EXCEPT ![This] = h], sizes' = sizes
      PROVE  Kinds'
  <2>1. h # None
    BY <1>2, LayoutAssumption
  <2>2. \A s \in Shard : headers'[s] = IF s = This THEN h ELSE headers[s]
    BY <1>1, <1>2
  <2>3. \A m \in DOMAIN Shards : m < shard => headers'[Shards[m]] # None
    BY <1>1, <2>1, <2>2 DEF Kinds, Reading, Shard
  <2> QED
    BY <1>1, <1>2, <2>1, <2>2, <2>3 DEF Kinds, Reading
<1>3. ASSUME NEW n \in Nat \cup {Bad}, sizes' = [sizes EXCEPT ![This] = n], headers' = headers,
             headers[This] # None
      PROVE  Kinds'
  <2>1. \A s \in Shard : sizes'[s] = IF s = This THEN n ELSE sizes[s]
    BY <1>1, <1>3
  <2> QED
    BY <1>1, <1>3, <2>1 DEF Kinds, Reading
<1>4. CASE WriteHeader
  BY <1>1, <1>2, <1>4 DEF WriteHeader
<1>5. CASE TearHeader
  <2>1. PICK b \in {0, Layout[got.n.ver][This].json} :
          headers' = [headers EXCEPT ![This] = [got.n EXCEPT !.bytes = b]] /\ sizes' = sizes
    BY <1>5 DEF TearHeader
  <2>2. [got.n EXCEPT !.bytes = b] \in Header
    <3>1. got.n \in Header /\ got.n.ver \in Versions
      BY <1>1 DEF Header
    <3>2. Layout[got.n.ver][This].json \in Nat
      BY <1>1, <3>1, LayoutAssumption
    <3>3. b \in Nat
      BY <3>2
    <3> QED
      BY <3>1, <3>3 DEF Header
  <2> QED
    BY <1>2, <2>1, <2>2
<1>6. ASSUME at = "size file" PROVE headers[This] # None
  BY <1>1, <1>6, LayoutAssumption DEF AuditInv, Received
<1>7. CASE WriteSize
  BY <1>1, <1>3, <1>6, <1>7 DEF WriteSize
<1>8. CASE TearSize
  <2>1. PICK n \in {Bad, got.length \div 100, got.length \div 10} :
          sizes' = [sizes EXCEPT ![This] = n] /\ headers' = headers /\ at = "size file"
    BY <1>8 DEF TearSize
  <2>2. \A m \in Nat : m \div 100 \in Nat /\ m \div 10 \in Nat
    OBVIOUS
  <2>3. n \in Nat \cup {Bad}
    BY <1>1, <2>1, <2>2
  <2> QED
    BY <1>3, <1>6, <2>1, <2>3
<1> QED
  BY <1>4, <1>5, <1>7, <1>8

LEMMA KindsStep == AuditInv /\ Kinds /\ [AuditNext]_auditVars => Kinds'
<1> SUFFICES ASSUME AuditInv, Kinds, [AuditNext]_auditVars PROVE Kinds'
  OBVIOUS
<1>1. CASE UNCHANGED auditVars
  BY <1>1 DEF auditVars, disk, Kinds, Reading
<1>2. CASE AuditNext
  <2>1. UNCHANGED <<headers, sizes>> \/ WriteHeader \/ TearHeader \/ WriteSize \/ TearSize
    BY <1>2 DEF AuditNext, Start, FetchPrefix, FetchHeader, Read, Audit, WriteCsv, TearCsv,
                Break, Change, disk
  <2> QED
    BY <1>2, <2>1, KindsUnwritten, KindsWritten
<1> QED
  BY <1>1, <1>2

-------------------------------------------------------------------------------
(* What is fetched from a server that has what the index describes.        *)

Fresh(s) == /\ headers[s] = [ver |-> Local, bytes |-> HeaderLength(Local, s)]
            /\ sizes[s] = FileLength(Local, s)

\* As long as the server has had that version during this run, everything the
\* run has received and stored is of that version.
Heals ==
  fetching /\ steady /\ remote = Local =>
    /\ outcome # "rejected"
    /\ at = "header" =>
         got = [n |-> HeaderLength(Local, This), length |-> FileLength(Local, This)]
    /\ at \in {"header file", "size file"} =>
         got = [n |-> [ver |-> Local, bytes |-> HeaderLength(Local, This)],
                length |-> FileLength(Local, This)]
    /\ at \in Reading => \A m \in DOMAIN Shards : m < shard => Fresh(Shards[m])
    /\ at = "read" => Fresh(This)
    /\ at \in {"audit", "csv"} => \A s \in Shard : Fresh(s)

LEMMA FreshReads ==
  ASSUME NEW s \in Shard, Fresh(s)
  PROVE  Readable(s)
<1>1. /\ Local \in Versions /\ HeaderLength(Local, s) \in Nat /\ FileLength(Local, s) \in Nat
      /\ Layout[Local][s].json \in Nat /\ Layout[Local][s].pad \in Nat
  BY LayoutAssumption, LengthsTyped
<1>2. headers[s] \in Header /\ sizes[s] \in Nat
  BY <1>1 DEF Fresh, Header
<1>3. headers[s] # None /\ sizes[s] # Bad
  BY <1>2, LayoutAssumption
<1>4. IsJson(headers[s], s)
  BY <1>1 DEF Fresh, IsJson, HeaderLength
<1> QED
  BY <1>3, <1>4 DEF Readable

\* The audit accepts the version the index and the metadata are of.
LEMMA FreshAudits ==
  ASSUME \A s \in Shard : Fresh(s)
  PROVE  Audited /\ Accounted /\ \A n \in Trellises \cap Found : TrellisFits(n, Meta(n).shape, Found)
<1>1. /\ \A s \in Shard : /\ Entries(s) = Index[s].tensors /\ Names(s) = DOMAIN Index[s].tensors
                          /\ headers[s].ver = Local
                          /\ headers[s].bytes = HeaderLength(Local, s)
                          /\ sizes[s] = FileLength(Local, s)
      /\ \A s \in Shard : /\ LastEnd(Local, s) \in Nat /\ HeaderLength(Local, s) \in Nat
                          /\ FileLength(Local, s) = 8 + HeaderLength(Local, s) + LastEnd(Local, s)
  <2>1. Local \in Versions
    BY LayoutAssumption
  <2>2. ASSUME NEW s \in Shard
        PROVE  headers[s].ver = Local /\ headers[s].bytes = HeaderLength(Local, s)
    <3>1. headers[s] = [ver |-> Local, bytes |-> HeaderLength(Local, s)]
      BY DEF Fresh
    <3> QED
      BY <3>1
  <2> QED
    BY <2>1, <2>2, LengthsTyped DEF Fresh, Entries, Names, Index
<1>2. Found = IndexNames
  BY <1>1 DEF Found, IndexNames
<1>3. Reconciled
  <2>1. [s \in Shard |-> PayloadOf(Entries(s))] = [s \in Shard |-> PayloadOf(Index[s].tensors)]
    BY <1>1
  <2> QED
    BY <2>1 DEF Reconciled, Payload, TotalSize
<1>4. \A s, t \in Shard : s # t => Names(s) \cap Names(t) = {}
  BY <1>1, PinnedAssumption
<1>5. \A s \in Shard : \A n \in Names(s) :
        Entries(s)[n].end - Entries(s)[n].start = Bytes(Entries(s)[n])
  BY <1>1, PinnedAssumption
<1>6. \A s \in Shard : LastEnd(headers[s].ver, s) <= sizes[s]
  BY <1>1
<1>7. Audited
  BY <1>1, <1>2, <1>3, <1>4, <1>5, <1>6 DEF Audited
<1>8. Accounted
  BY <1>1 DEF Accounted
<1>9. ASSUME NEW n \in Trellises \cap Found PROVE TrellisFits(n, Meta(n).shape, Found)
  <2>1. ShardOf(n) \in Shard /\ n \in Names(ShardOf(n))
    BY DEF ShardOf, Found
  <2>2. Meta(n) = Index[ShardOf(n)].tensors[n] /\ n \in DOMAIN Index[ShardOf(n)].tensors
    BY <1>1, <2>1 DEF Meta
  <2> QED
    BY <1>2, <2>1, <2>2, PinnedAssumption
<1> QED
  BY <1>7, <1>8, <1>9

LEMMA HealsStep == AuditInv /\ Kinds /\ Heals /\ [AuditNext]_auditVars => Heals'
<1> SUFFICES ASSUME AuditInv, Kinds, Heals, [AuditNext]_auditVars,
                    fetching', steady', remote' = Local
             PROVE  Heals'
  BY DEF Heals
<1>1. CASE UNCHANGED auditVars
  BY <1>1 DEF auditVars, disk, Heals, Fresh, This, Reading
<1>2. CASE \E fetch \in BOOLEAN : Start(fetch)
  <2>1. at' = "prefix" /\ outcome' = "running" /\ shard' = 1
    BY <1>2 DEF Start, First
  <2>2. \A m \in DOMAIN Shards : ~(m < 1)
    BY Indexes
  <2> QED
    BY <2>1, <2>2 DEF Heals
<1>3. CASE \E v \in Versions : Change(v)
  BY <1>3 DEF Change
<1>4. ASSUME UNCHANGED <<fetching, steady, remote>>, at' = "idle", outcome' # "rejected" PROVE Heals'
  BY <1>4 DEF Heals, Reading
<1>5. CASE TearHeader \/ TearSize \/ TearCsv \/ Break \/ WriteCsv
  BY <1>4, <1>5 DEF TearHeader, TearSize, TearCsv, Break, WriteCsv, End
<1> DEFINE Others == FetchPrefix \/ FetchHeader \/ WriteHeader \/ WriteSize \/ Read \/ Audit
<1>6. Others => UNCHANGED <<fetching, steady, remote>>
  BY DEF FetchPrefix, FetchHeader, WriteHeader, WriteSize, Read, Audit, GoTo, End
<1>7. CASE FetchPrefix
  <2>1. /\ at' = "header" /\ at = "prefix" /\ UNCHANGED <<shard, headers, sizes, outcome>> /\ This' = This
        /\ got' = [n |-> HeaderLength(Local, This), length |-> FileLength(Local, This)]
    <3>1. InBounds(HeaderLength(Local, This), FileLength(Local, This))
      BY ThisIsAShard, PinnedAssumption
    <3> QED
      BY <1>6, <1>7, <3>1 DEF FetchPrefix, GoTo, disk, This
  <2> QED
    BY <1>6, <1>7, <2>1 DEF Heals, Fresh, Reading
<1>8. CASE FetchHeader
  <2>1. got = [n |-> HeaderLength(Local, This), length |-> FileLength(Local, This)]
    BY <1>6, <1>8 DEF Heals, FetchHeader
  <2>2. /\ at' = "header file" /\ at = "header"
        /\ UNCHANGED <<shard, headers, sizes, outcome>> /\ This' = This
        /\ got' = [n |-> [ver |-> Local, bytes |-> HeaderLength(Local, This)],
                   length |-> FileLength(Local, This)]
    BY <1>6, <1>8, <2>1 DEF FetchHeader, GoTo, disk, This
  <2> QED
    BY <1>6, <1>8, <2>2 DEF Heals, Fresh, Reading
<1>9. CASE WriteHeader \/ WriteSize
  <2>1. /\ This' = This /\ This \in Shard /\ UNCHANGED <<got, shard, outcome>>
        /\ DOMAIN headers = Shard /\ DOMAIN sizes = Shard
        /\ got = [n |-> [ver |-> Local, bytes |-> HeaderLength(Local, This)],
                  length |-> FileLength(Local, This)]
        /\ at \in {"header file", "size file"} /\ at \in Reading
    BY <1>6, <1>9, ThisIsAShard DEF WriteHeader, WriteSize, GoTo, This, Heals, AuditInv, Shapes, Reading
  <2>2. \A m \in DOMAIN Shards : m < shard => Shards[m] # This /\ Shards[m] \in Shard
    <3>1. \A m \in DOMAIN Shards : m < shard => m # shard
      BY ShardIndex
    <3>2. shard \in DOMAIN Shards
      BY DEF AuditInv, Shapes
    <3> QED
      BY <3>1, <3>2, ShardsAssumption DEF This, Shard
  <2>3. \A m \in DOMAIN Shards : m < shard => Fresh(Shards[m])'
    <3>1. \A m \in DOMAIN Shards : m < shard => Fresh(Shards[m])
      BY <1>6, <1>9, <2>1 DEF Heals
    <3>2. \A s \in Shard : s # This => headers'[s] = headers[s] /\ sizes'[s] = sizes[s]
      BY <1>9, <2>1 DEF WriteHeader, WriteSize
    <3> QED
      BY <2>2, <3>1, <3>2 DEF Fresh
  <2>4. CASE WriteHeader
    BY <1>6, <2>1, <2>3, <2>4 DEF Heals, WriteHeader, GoTo, Reading
  <2>5. CASE WriteSize
    <3>1. headers[This] = got.n /\ at' = "read"
      BY <2>5 DEF AuditInv, Received, WriteSize, GoTo
    <3>2. Fresh(This)'
      BY <2>1, <2>5, <3>1 DEF WriteSize, Fresh
    <3> QED
      BY <1>6, <2>1, <2>3, <2>5, <3>1, <3>2 DEF Heals, Reading, WriteSize, GoTo
  <2> QED
    BY <1>9, <2>4, <2>5
<1>10. CASE Read
  <2>1. /\ Fresh(This) /\ at = "read" /\ UNCHANGED <<headers, sizes>>
        /\ outcome # "rejected"
        /\ \A m \in DOMAIN Shards : m < shard => Fresh(Shards[m])
    BY <1>6, <1>10 DEF Heals, Read, Reading, disk
  <2>2. Readable(This)
    BY <2>1, ThisIsAShard, FreshReads
  <2>3. \A m \in DOMAIN Shards : m < shard + 1 => Fresh(Shards[m])
    <3>1. \A m \in DOMAIN Shards : m < shard + 1 => m < shard \/ m = shard
      BY ShardIndex
    <3> QED
      BY <2>1, <3>1 DEF This
  <2>4. \A s : Fresh(s)' <=> Fresh(s)
    BY <2>1 DEF Fresh
  <2>5. CASE shard = Len(Shards)
    <3>1. at' = "audit" /\ outcome' = outcome
      BY <1>10, <2>2, <2>5 DEF Read, GoTo
    <3>2. \A m \in DOMAIN Shards : m < shard + 1
      BY <2>5, ShardIndex
    <3>3. \A s \in Shard : Fresh(s)'
      BY <2>3, <2>4, <3>2 DEF Shard
    <3> QED
      BY <1>6, <2>1, <3>1, <3>3 DEF Heals, Reading
  <2>6. CASE shard # Len(Shards)
    <3>1. at' = "prefix" /\ shard' = shard + 1 /\ outcome' = outcome
      BY <1>6, <1>10, <2>2, <2>6 DEF Read, First
    <3> QED
      BY <1>6, <2>1, <2>3, <2>4, <3>1 DEF Heals, Reading
  <2> QED
    BY <2>5, <2>6
<1>11. CASE Audit
  <2>1. (\A s \in Shard : Fresh(s)) /\ UNCHANGED <<headers, sizes>> /\ outcome # "rejected"
    BY <1>6, <1>11 DEF Heals, Audit, disk
  <2>2. (GoTo("csv") /\ UNCHANGED got) \/ End("accepted")
    BY <1>11, <2>1, FreshAudits DEF Audit
  <2>3. CASE GoTo("csv")
    BY <1>6, <2>1, <2>3 DEF Heals, GoTo, Reading, Fresh
  <2>4. CASE End("accepted")
    BY <1>4, <1>6, <1>11, <2>4 DEF End
  <2> QED
    BY <2>2, <2>3, <2>4
<1> QED
  BY <1>1, <1>2, <1>3, <1>5, <1>7, <1>8, <1>9, <1>10, <1>11 DEF AuditNext

-------------------------------------------------------------------------------
(* Sorted: every tensor of a set, once.                                    *)

Listed == {Tensors[n] : n \in DOMAIN Tensors}

\* A list of those of the first n tensors that are in a set.
Lists(list, n, names) ==
  /\ list \in Seq(Listed) /\ Len(list) <= n
  /\ \A i, j \in 1..Len(list) : list[i] = list[j] => i = j
  /\ {list[i] : i \in 1..Len(list)} = names \cap {Tensors[m] : m \in 1..n}

LEMMA ListGrows ==
  ASSUME NEW names, NEW n \in Nat, n + 1 \in DOMAIN Tensors, NEW list, Lists(list, n, names)
  PROVE  Lists(IF Tensors[n + 1] \in names THEN Append(list, Tensors[n + 1]) ELSE list, n + 1, names)
<1>1. /\ list \in Seq(Listed) /\ Len(list) \in Nat /\ Len(list) <= n
      /\ \A i, j \in 1..Len(list) : list[i] = list[j] => i = j
      /\ {list[i] : i \in 1..Len(list)} = names \cap {Tensors[m] : m \in 1..n}
  <2>1. list \in Seq(Listed) /\ Len(list) <= n
    BY Zenon DEF Lists
  <2>2. \A i, j \in 1..Len(list) : list[i] = list[j] => i = j
    BY Zenon DEF Lists
  <2>3. {list[i] : i \in 1..Len(list)} = names \cap {Tensors[m] : m \in 1..n}
    BY Zenon DEF Lists
  <2>4. Len(list) \in Nat
    BY <2>1
  <2> QED
    BY <2>1, <2>2, <2>3, <2>4
<1> DEFINE t == Tensors[n + 1]
           longer == Append(list, t)
<1>2. t \in Listed /\ \A m \in 1..n : Tensors[m] # t
  BY TensorsAssumption DEF Listed
<1>3. {Tensors[m] : m \in 1..n + 1} = {Tensors[m] : m \in 1..n} \cup {t}
  <2>1. \A m \in 1..n + 1 : m \in 1..n \/ m = n + 1
    OBVIOUS
  <2>2. n + 1 \in 1..n + 1 /\ \A m \in 1..n : m \in 1..n + 1
    OBVIOUS
  <2> QED
    BY <2>1, <2>2
<1>4. CASE t \in names
  <2>1. /\ longer \in Seq(Listed) /\ Len(longer) = Len(list) + 1
        /\ \A i \in 1..Len(list) : longer[i] = list[i]
        /\ longer[Len(list) + 1] = t
    BY <1>1, <1>2
  <2>2. \A i \in 1..Len(longer) : i \in 1..Len(list) \/ i = Len(list) + 1
    BY <1>1, <2>1
  <2>3. \A i \in 1..Len(list) : list[i] \in {Tensors[m] : m \in 1..n} /\ list[i] # t
    <3>1. \A i \in 1..Len(list) : list[i] \in {Tensors[m] : m \in 1..n}
      BY <1>1
    <3> QED
      BY <1>2, <3>1
  <2> HIDE DEF longer, t
  <2>4. \A i, j \in 1..Len(longer) : longer[i] = longer[j] => i = j
    BY <1>1, <2>1, <2>2, <2>3
  <2>5. {longer[i] : i \in 1..Len(longer)} = {list[i] : i \in 1..Len(list)} \cup {t}
    <3>1. 1..Len(list) \subseteq 1..Len(longer) /\ Len(list) + 1 \in 1..Len(longer)
      BY <1>1, <2>1
    <3> QED
      BY <2>1, <2>2, <3>1
  <2>6. {longer[i] : i \in 1..Len(longer)} = names \cap {Tensors[m] : m \in 1..n + 1}
    BY <1>1, <1>3, <1>4, <2>5
  <2>7. Len(longer) <= n + 1
    BY <1>1, <2>1
  <2>8. Lists(longer, n + 1, names)
    BY <2>1, <2>4, <2>6, <2>7, Zenon DEF Lists
  <2> QED
    BY <1>4, <2>8, Zenon DEF longer, t
<1>5. CASE t \notin names
  <2>1. {list[i] : i \in 1..Len(list)} = names \cap {Tensors[m] : m \in 1..n + 1}
    BY <1>1, <1>3, <1>5
  <2>2. Len(list) <= n + 1
    BY <1>1
  <2>3. Lists(list, n + 1, names)
    BY <1>1, <2>1, <2>2 DEF Lists
  <2> QED
    BY <1>5, <2>3
<1> QED
  BY <1>4, <1>5

LEMMA SortedLists ==
  ASSUME NEW names
  PROVE  Lists(Sorted(names), Len(Tensors), names)
<1> DEFINE N == Len(Tensors)
           S == 0..N
           V == Seq(Listed)
           Z == [S -> V]
           rank == [n \in S |-> n]
           add(list, n) == IF Tensors[n] \in names THEN Append(list, Tensors[n]) ELSE list
           G == [n \in S |-> [f \in Z |-> IF n = 0 THEN <<>> ELSE add(f[n - 1], n)]]
           Is(f) == f = [n \in S |-> IF n = 0 THEN <<>> ELSE add(f[n - 1], n)]
<1>1. N \in Nat /\ DOMAIN Tensors = 1..N
  BY TensorsAssumption
<1> HIDE DEF N
<1>2. /\ \A n \in S : rank[n] \in 0..N /\ rank[n] = n /\ n \in Nat
      /\ \A n \in S : n # 0 => n \in DOMAIN Tensors /\ n - 1 \in S /\ n - 1 < n
  BY <1>1
<1>3. \A n \in S : \A f \in Z : G[n][f] \in V
  <2> SUFFICES ASSUME NEW n \in S, NEW f \in Z PROVE G[n][f] \in V
    OBVIOUS
  <2>1. CASE n = 0
    BY <2>1
  <2>2. CASE n # 0
    <3>1. f[n - 1] \in V /\ Tensors[n] \in Listed
      BY <1>2, <2>2 DEF Listed
    <3>2. add(f[n - 1], n) \in V
      BY <3>1
    <3> QED
      BY <2>2, <3>2
  <2> QED
    BY <2>1, <2>2
<1>4. \A n \in S : \A e, f \in Z :
        (\A m \in S : rank[m] < rank[n] => e[m] = f[m]) => G[n][e] = G[n][f]
  <2> SUFFICES ASSUME NEW n \in S, NEW e \in Z, NEW f \in Z,
                      \A m \in S : rank[m] < rank[n] => e[m] = f[m]
               PROVE  G[n][e] = G[n][f]
    OBVIOUS
  <2>1. n # 0 => e[n - 1] = f[n - 1]
    <3> HIDE DEF S, rank
    <3> QED
      BY <1>2
  <2> QED
    BY <2>1
<1>5. Solvable(S, V, G)
  <2>1. V # {} /\ \A n \in S : rank[n] \in 0..N
    <3>1. <<>> \in V
      OBVIOUS
    <3> HIDE DEF V
    <3> QED
      BY <1>2, <3>1
  <2> HIDE DEF S, V, rank, G
  <2>2. Ranked(S, V, N, rank, G)
    BY <1>1, <1>3, <1>4, <2>1 DEF Ranked
  <2> QED
    BY <2>2, RecursionByRank
<1>6. \E f : Is(f)
  <2>1. PICK f \in Z : \A n \in S : f[n] = G[n][f]
    BY <1>5 DEF Solvable
  <2>2. Is(f)
    BY <2>1
  <2> QED
    BY <2>2
<1> DEFINE taken == CHOOSE f : Is(f)
<1>7. Sorted(names) = taken[N]
  BY DEF Sorted, N
<1>8. Is(taken)
  <2> HIDE DEF Is
  <2> QED
    BY <1>6
<1> HIDE DEF taken
<1> DEFINE Good == {n \in S : Lists(taken[n], n, names)}
<1>9. 0 \in Good
  <2>1. taken[0] = <<>> /\ 0 \in S
    BY <1>1, <1>8
  <2>2. Lists(<<>>, 0, names)
    BY DEF Lists
  <2> QED
    BY <2>1, <2>2
<1>10. ASSUME NEW n \in Good, n # N PROVE n + 1 \in Good
  <2>1. n \in Nat /\ n + 1 \in S /\ n + 1 # 0 /\ (n + 1) - 1 = n /\ n + 1 \in DOMAIN Tensors
    BY <1>1, <1>10
  <2>2. taken[n + 1] = add(taken[n], n + 1)
    BY <1>8, <2>1
  <2>3. Lists(add(taken[n], n + 1), n + 1, names)
    BY <2>1, ListGrows
  <2> QED
    BY <2>1, <2>2, <2>3
<1>11. N \in Good
  <2>1. Good \in SUBSET (0..N)
    OBVIOUS
  <2> HIDE DEF Good
  <2> QED
    BY <1>1, <1>9, <1>10, <2>1, UpToInduction
<1> QED
  BY <1>7, <1>11 DEF N

-------------------------------------------------------------------------------
(* The inventory of headers that passed the audit.                         *)

Passed == /\ \A s \in Shard : headers[s] \in Header
          /\ Audited /\ Accounted
          /\ \A n \in Trellises \cap Found : TrellisFits(n, Meta(n).shape, Found)

LEMMA BytesTyped ==
  ASSUME NEW meta \in Entry
  PROVE  /\ Bytes(meta) \in Nat
         /\ \A m, n \in Nat \ {0} : meta.dtype = "BF16" /\ meta.shape = <<m, n>> => Bytes(meta) > 0
<1> DEFINE base == DtypeBytes[meta.dtype]
<1>1. base \in Nat \ {0}
  <2>1. meta.dtype \in {"F32", "I32", "F16", "BF16", "I16"}
    BY DEF Entry, DtypeBytes
  <2> QED
    BY <2>1 DEF DtypeBytes
<1>2. meta.shape \in Seq(Nat)
  BY DEF Entry
<1>3. Bytes(meta) = ProductOf(base, meta.shape)
  BY DEF Bytes, ProductOf
<1> HIDE DEF base
<1>4. Bytes(meta) \in Nat
  BY <1>1, <1>2, <1>3, ProductTyped
<1>5. ASSUME NEW m \in Nat \ {0}, NEW n \in Nat \ {0}, meta.shape = <<m, n>> PROVE Bytes(meta) > 0
  <2>1. ProductOf(base, <<m, n>>) = base * m * n
    BY <1>1, ProductOfPair
  <2>2. \A i, j \in Nat \ {0} : i * j \in Nat \ {0}
    OBVIOUS
  <2>3. base * m \in Nat \ {0}
    BY <1>1, <2>2
  <2>4. base * m * n \in Nat \ {0}
    BY <2>2, <2>3
  <2> QED
    BY <1>3, <1>5, <2>1, <2>4
<1> QED
  BY <1>4, <1>5

LEMMA ListedFinite ==
  /\ IsFiniteSet(Listed)
  /\ IsFiniteSet(Shard)
<1>1. \A n \in Nat : IsFiniteSet(1..n)
  BY FS_Interval
<1>2. IsFiniteSet(DOMAIN Tensors) /\ IsFiniteSet(DOMAIN Shards)
  BY <1>1, TensorsAssumption, ShardsAssumption
<1> QED
  BY <1>2, FiniteImage DEF Listed, Shard

\* What the entries of a header are.
LEMMA EntriesTyped ==
  ASSUME NEW s \in Shard, headers[s] \in Header
  PROVE  /\ Names(s) \in SUBSET Listed /\ IsFiniteSet(Names(s)) /\ Names(s) # {}
         /\ \A n \in Names(s) : Entries(s)[n] \in Entry
<1>1. headers[s].ver \in Versions
  BY DEF Header
<1>2. /\ Names(s) \in SUBSET Listed /\ Names(s) # {}
      /\ \A n \in Names(s) : Entries(s)[n] \in Entry
  BY <1>1, TensorsAssumption, LayoutAssumption DEF Names, Entries, Listed
<1>3. IsFiniteSet(Names(s))
  BY <1>2, ListedFinite, FS_Subset
<1> QED
  BY <1>2, <1>3

\* Each tensor found has the entry of the one shard that names it.
LEMMA MetaIs ==
  ASSUME Passed
  PROVE  /\ Found = IndexNames /\ Found \in SUBSET Listed /\ IsFiniteSet(Found) /\ Found # {}
         /\ \A s \in Shard : \A n \in Names(s) : n \in Found /\ Meta(n) = Entries(s)[n]
         /\ \A n \in Found : /\ ShardOf(n) \in Shard /\ n \in Names(ShardOf(n))
                             /\ Meta(n) = Entries(ShardOf(n))[n] /\ Meta(n) \in Entry
<1>1. \A s \in Shard : /\ Names(s) \in SUBSET Listed /\ Names(s) # {}
                       /\ \A n \in Names(s) : Entries(s)[n] \in Entry
  BY EntriesTyped DEF Passed
<1>2. /\ Found = IndexNames
      /\ \A s, t \in Shard : s # t => Names(s) \cap Names(t) = {}
  BY DEF Passed, Audited
<1>3. Found \in SUBSET Listed
  BY <1>1 DEF Found
<1>4. IsFiniteSet(Found)
  BY <1>3, ListedFinite, FS_Subset
<1>5. Found # {}
  <2>1. Shards[1] \in Shard
    BY Indexes DEF Shard
  <2> QED
    BY <1>1, <2>1 DEF Found
<1>6. \A n \in Found : /\ ShardOf(n) \in Shard /\ n \in Names(ShardOf(n))
                       /\ Meta(n) = Entries(ShardOf(n))[n]
  BY DEF ShardOf, Found, Meta
<1>7. ASSUME NEW s \in Shard, NEW n \in Names(s) PROVE n \in Found /\ Meta(n) = Entries(s)[n]
  <2>1. n \in Found
    BY DEF Found
  <2>2. ShardOf(n) = s
    BY <1>2, <1>6, <2>1
  <2> QED
    BY <1>6, <2>1, <2>2
<1>8. \A n \in Found : Meta(n) \in Entry
  BY <1>1, <1>6
<1> QED
  BY <1>2, <1>3, <1>4, <1>5, <1>6, <1>7, <1>8

\* The bytes of all tensors found are the index's total_size.
LEMMA BytesAddUp ==
  ASSUME Passed, NEW f, \A n \in Found : f[n] = Bytes(Meta(n))
  PROVE  SumFunctionOnSet(f, Found) = TotalSize
<1> DEFINE part == [s \in Shard |-> Names(s)]
           sum == [s \in Shard |-> PayloadOf(Entries(s))]
<1>1. \A n \in Found : f[n] \in Int
  <2>1. \A n \in Found : Meta(n) \in Entry
    BY MetaIs
  <2>2. \A meta \in Entry : Bytes(meta) \in Int
    BY BytesTyped
  <2> QED
    BY <2>1, <2>2
<1>2. IsFiniteSet(Shard) /\ \A s \in Shard : IsFiniteSet(part[s])
  BY ListedFinite, EntriesTyped DEF Passed
<1>3. \A s, t \in Shard : s # t => part[s] \cap part[t] = {}
  BY DEF Passed, Audited
<1>4. ASSUME NEW s \in Shard PROVE sum[s] = SumFunctionOnSet(f, part[s])
  <2> DEFINE T == Names(s)
             h == [n \in T |-> Bytes(Entries(s)[n])]
  <2>1. sum[s] = SumFunctionOnSet(h, T)
    <3>1. sum[s] = PayloadOf(Entries(s)) /\ DOMAIN h = T
      OBVIOUS
    <3>2. PayloadOf(Entries(s)) = SumFunction(h)
      BY DEF PayloadOf, Names
    <3> HIDE DEF h, sum
    <3> QED
      BY <3>1, <3>2 DEF SumFunction
  <2>2. \A n \in T : h[n] = f[n] /\ f[n] \in Int
    <3>1. \A n \in T : n \in Found /\ Meta(n) = Entries(s)[n]
      BY MetaIs
    <3> QED
      BY <1>1, <3>1
  <2>3. IsFiniteSet(T) /\ part[s] = T
    BY <1>2
  <2> HIDE DEF h, T
  <2>4. SumFunctionOnSet(h, T) = SumFunctionOnSet(f, T)
    BY <2>2, <2>3, SumOfSame
  <2> QED
    BY <2>1, <2>3, <2>4
<1>5. UNION {part[s] : s \in Shard} = Found
  BY DEF Found
<1>6. \A s \in Shard : \A n \in part[s] : f[n] \in Int
  BY <1>1, <1>5
<1>7. TotalSize = SumFunctionOnSet(sum, Shard)
  <2>1. DOMAIN sum = Shard
    OBVIOUS
  <2>2. Payload = SumFunction(sum)
    BY DEF Payload
  <2> HIDE DEF sum
  <2> QED
    BY <2>1, <2>2 DEF SumFunction, Passed, Audited, Reconciled
<1> HIDE DEF part, sum
<1>8. SumFunctionOnSet(sum, Shard) = SumFunctionOnSet(f, UNION {part[s] : s \in Shard})
  BY <1>2, <1>3, <1>4, <1>6, SumOfParts
<1> QED
  BY <1>5, <1>7, <1>8

\* A row of the inventory has what the planners ask of it.
LEMMA RowIs ==
  ASSUME Passed, NEW n \in Found
  PROVE  LET row == Row(n) IN
         /\ row.tensor = n /\ row.bytes = Bytes(Meta(n)) /\ row.bytes \in Nat
         /\ row.component \in {"text", "output_head", "mtp", "vision"}
         /\ row.trellis \in BOOLEAN
         /\ row.trellis => /\ row.format \in {"exl3", "exl3_header_inferred"}
                           /\ row.in_features \in Nat \ {0} /\ row.out_features \in Nat \ {0}
         /\ n = Embed => /\ row.component = "text" /\ row.dtype = "BF16"
                         /\ row.shape = <<Vocab, Hidden>> /\ row.bytes > 0
<1> DEFINE trellis == n \in Trellises
           meta == Meta(n)
           s == ShardOf(n)
           v == headers[s].ver
<1>1. /\ meta \in Entry /\ s \in Shard /\ n \in Names(s) /\ meta = Entries(s)[n]
      /\ n \in IndexNames
  BY MetaIs
<1>2. v \in Versions /\ n \in DOMAIN Layout[v][s].tensors /\ meta = Layout[v][s].tensors[n]
  <2>1. headers[s] \in Header
    BY <1>1 DEF Passed
  <2> QED
    BY <1>1, <2>1 DEF Header, Names, Entries
<1>3. /\ n = Embed => meta.dtype = "BF16" /\ meta.shape = <<Vocab, Hidden>>
      /\ trellis => \A d \in DOMAIN meta.shape : meta.shape[d] > 0
  <2>1. \A w \in Versions, r \in Shard : \A m \in DOMAIN Layout[w][r].tensors :
          /\ m = Embed => /\ Layout[w][r].tensors[m].dtype = "BF16"
                          /\ Layout[w][r].tensors[m].shape = <<Vocab, Hidden>>
          /\ m \in Trellises => \A d \in DOMAIN Layout[w][r].tensors[m].shape :
                                  Layout[w][r].tensors[m].shape[d] > 0
    BY CheckpointAssumption
  <2> HIDE DEF meta, s, v
  <2> QED
    BY <1>1, <1>2, <2>1
<1>4. /\ Component[n] \in {"text", "output_head", "mtp", "vision"}
      /\ n = Embed => Component[n] = "text"
      /\ Vocab \in Nat \ {0} /\ Hidden \in Nat \ {0}
  BY <1>1, CheckpointAssumption
<1>5. Bytes(meta) \in Nat /\ (n = Embed => Bytes(meta) > 0)
  BY <1>1, <1>3, <1>4, BytesTyped
<1>6. trellis => Len(meta.shape) = 3
  BY DEF Passed, TrellisFits
<1>7. trellis => 16 * meta.shape[1] \in Nat \ {0} /\ 16 * meta.shape[2] \in Nat \ {0}
  <2> SUFFICES ASSUME trellis PROVE 16 * meta.shape[1] \in Nat \ {0} /\ 16 * meta.shape[2] \in Nat \ {0}
    OBVIOUS
  <2>1. meta.shape \in Seq(Nat)
    BY <1>1 DEF Entry
  <2> HIDE DEF meta
  <2>2. 1 \in DOMAIN meta.shape /\ 2 \in DOMAIN meta.shape
    BY <1>6, <2>1
  <2>3. meta.shape[1] \in Nat /\ meta.shape[2] \in Nat
    BY <2>1, <2>2
  <2>4. meta.shape[1] > 0 /\ meta.shape[2] > 0
    BY <1>3, <2>2
  <2> QED
    BY <2>3, <2>4
<1>8. /\ Row(n).tensor = n /\ Row(n).bytes = Bytes(meta) /\ Row(n).component = Component[n]
      /\ Row(n).dtype = meta.dtype /\ Row(n).shape = meta.shape
      /\ Row(n).trellis = trellis
      /\ trellis => /\ Row(n).format \in {"exl3", "exl3_header_inferred"}
                    /\ Row(n).in_features = 16 * meta.shape[1]
                    /\ Row(n).out_features = 16 * meta.shape[2]
  BY DEF Row
<1>9. trellis \in BOOLEAN
  OBVIOUS
<1> HIDE DEF meta, trellis
<1> DEFINE row == Row(n)
<1>10. row.trellis = trellis /\ row.trellis \in BOOLEAN
  BY <1>8, <1>9
<1>11. trellis => /\ row.format \in {"exl3", "exl3_header_inferred"}
                  /\ row.in_features \in Nat \ {0} /\ row.out_features \in Nat \ {0}
  BY <1>7, <1>8
<1>12. /\ row.tensor = n /\ row.bytes = Bytes(meta) /\ row.bytes \in Nat
       /\ row.component \in {"text", "output_head", "mtp", "vision"}
       /\ n = Embed => /\ row.component = "text" /\ row.dtype = "BF16"
                       /\ row.shape = <<Vocab, Hidden>> /\ row.bytes > 0
  BY <1>3, <1>5, <1>8, <1>4
<1>13. row.trellis => /\ row.format \in {"exl3", "exl3_header_inferred"}
                      /\ row.in_features \in Nat \ {0} /\ row.out_features \in Nat \ {0}
  BY <1>10, <1>11, Zenon
<1> HIDE DEF row
<1>14. row.bytes = Bytes(Meta(n))
  BY <1>12 DEF meta
<1> QED
  BY <1>10, <1>12, <1>13, <1>14, Zenon DEF row

\* One row for each tensor found.
LEMMA RowsAre ==
  ASSUME Passed
  PROVE  /\ Rows \in Seq({Row(n) : n \in Found}) /\ Len(Rows) <= Len(Tensors)
         /\ RowsOf(Rows) = {Row(n) : n \in Found}
         /\ \A i, j \in DOMAIN Rows : Rows[i].tensor = Rows[j].tensor => i = j
<1> DEFINE found == Sorted(Found)
           N == Len(found)
<1>1. Lists(found, Len(Tensors), Found)
  BY SortedLists
<1>2. /\ DOMAIN Tensors = 1..Len(Tensors) /\ Found \in SUBSET Listed
      /\ \A n \in Found : Row(n).tensor = n
  BY TensorsAssumption, MetaIs, RowIs
<1>3. /\ found \in Seq(Listed) /\ N \in Nat /\ DOMAIN found = 1..N /\ N <= Len(Tensors)
      /\ \A i, j \in 1..N : found[i] = found[j] => i = j
      /\ {found[i] : i \in 1..N} = Found
  BY <1>1, <1>2 DEF Lists, Listed
<1>4. Rows = [i \in 1..N |-> Row(found[i])]
  BY <1>3 DEF Rows
<1> HIDE DEF found, N
<1>5. \A i \in 1..N : found[i] \in Found /\ Rows[i] = Row(found[i])
  BY <1>3, <1>4
<1>6. \A n \in Found : \E i \in 1..N : n = found[i]
  BY <1>3
<1>7. Rows \in Seq({Row(n) : n \in Found}) /\ Len(Rows) = N /\ DOMAIN Rows = 1..N
  <2> DEFINE T == {Row(n) : n \in Found}
  <2>1. \A i \in 1..N : Row(found[i]) \in T
    BY <1>5
  <2> HIDE DEF T
  <2>2. Rows \in [1..N -> T]
    BY <1>4, <2>1
  <2>3. Rows \in Seq(T) /\ Len(Rows) = N /\ DOMAIN Rows = 1..N
    BY <1>3, <2>2
  <2> QED
    BY <2>3 DEF T
<1>8. RowsOf(Rows) = {Row(n) : n \in Found}
  <2>1. RowsOf(Rows) = {Rows[i] : i \in 1..N}
    BY <1>7 DEF RowsOf
  <2> QED
    BY <1>5, <1>6, <2>1
<1>9. ASSUME NEW i \in 1..N, NEW j \in 1..N, Rows[i].tensor = Rows[j].tensor PROVE i = j
  BY <1>2, <1>3, <1>5, <1>9
<1> QED
  BY <1>3, <1>7, <1>8, <1>9

\* What is known of an inventory: the planners can add up its rows, and one that
\* was written to its end is accepted, with the index's total_size.
Kept(file) ==
  /\ Len(file.rows) <= Len(Tensors) /\ Priced(file.rows)
  /\ file.whole => Inventoried(file.rows) /\ Disk(file.rows, TRUE, TRUE) = TotalSize

LEMMA RowsPriced ==
  ASSUME Passed
  PROVE  Priced(Rows)
<1>1. \A n \in Found : /\ Row(n).bytes \in Nat
                       /\ Row(n).trellis => Row(n).in_features \in Nat /\ Row(n).out_features \in Nat
  BY RowIs
<1>2. Rows \in Seq({Row(n) : n \in Found}) /\ RowsOf(Rows) = {Row(n) : n \in Found}
  BY RowsAre
<1>3. Len(Rows) \in Nat /\ DOMAIN Rows = 1..Len(Rows)
  BY <1>2
<1> QED
  BY <1>1, <1>2, <1>3 DEF Priced

LEMMA RowsInventoried ==
  ASSUME Passed
  PROVE  Inventoried(Rows)
<1> DEFINE Has(row) ==
      /\ row.component \in Groups /\ row.bytes \in Nat
      /\ row.trellis => /\ row.format \in {"exl3", "exl3_header_inferred"}
                        /\ row.in_features >= 1 /\ row.out_features >= 1
      /\ row.tensor = Embed => /\ row.component = "text" /\ row.dtype = "BF16"
                               /\ row.shape = <<Vocab, Hidden>> /\ row.bytes > 0
<1>1. ASSUME NEW n \in Found PROVE Has(Row(n))
  <2>1. /\ Row(n).tensor = n /\ Row(n).bytes \in Nat /\ Row(n).component \in Groups
        /\ n = Embed => /\ Row(n).component = "text" /\ Row(n).dtype = "BF16"
                        /\ Row(n).shape = <<Vocab, Hidden>> /\ Row(n).bytes > 0
    BY RowIs DEF Groups
  <2>2. Row(n).trellis => /\ Row(n).format \in {"exl3", "exl3_header_inferred"}
                          /\ Row(n).in_features \in Nat \ {0} /\ Row(n).out_features \in Nat \ {0}
    BY RowIs
  <2>3. \A k \in Nat \ {0} : k >= 1
    OBVIOUS
  <2> QED
    BY <2>1, <2>2, <2>3
<1>2. RowsOf(Rows) = {Row(n) : n \in Found}
  BY RowsAre
<1>3. \A row \in RowsOf(Rows) : Has(row)
  BY <1>1, <1>2
<1>4. Embed \in Found /\ Row(Embed).tensor = Embed
  BY MetaIs, RowIs, CheckpointAssumption
<1>5. Row(Embed) \in EmbedRows(Rows)
  BY <1>2, <1>4 DEF EmbedRows
<1>6. \A i, j \in DOMAIN Rows : i # j => Rows[i].tensor # Rows[j].tensor
  BY RowsAre
<1>7. CpuEmbedding(Rows) \in 1..Serialized(Rows, "text")
  <2> DEFINE embed == Row(Embed)
             rows == {row \in RowsOf(Rows) : row.component = "text"}
  <2>1. \A n \in Found : Row(n).tensor = n
    BY RowIs
  <2>2. EmbedRows(Rows) = {embed}
    BY <1>2, <1>4, <1>5, <2>1 DEF EmbedRows
  <2>3. embed \in rows /\ embed.bytes \in Nat /\ embed.bytes > 0
    BY <1>1, <1>2, <1>4
  <2>4. IsFiniteSet(rows) /\ BytesOf(rows) \in Nat /\ \A row \in rows : row.bytes \in Nat
    BY <1>3, RowsPriced, RowsFinite
  <2>5. CpuEmbedding(Rows) = BytesOf({embed}) /\ Serialized(Rows, "text") = BytesOf(rows)
    BY <2>2 DEF CpuEmbedding, Serialized
  <2> HIDE DEF embed, rows
  <2>6. embed.bytes <= BytesOf(rows) /\ BytesOf({embed}) = embed.bytes
    BY <2>3, <2>4, BytesOfMember
  <2> QED
    BY <2>3, <2>4, <2>5, <2>6
<1> HIDE DEF Has
<1>8. \A row \in RowsOf(Rows) : row.component \in Groups
  BY <1>3 DEF Has
<1>9. \A row \in RowsOf(Rows) : row.trellis =>
        /\ row.format \in {"exl3", "exl3_header_inferred"}
        /\ row.in_features >= 1 /\ row.out_features >= 1
  BY <1>3 DEF Has
<1>10. EmbedRows(Rows) # {} /\ \A row \in EmbedRows(Rows) :
         row.component = "text" /\ row.dtype = "BF16" /\ row.shape = <<Vocab, Hidden>>
  BY <1>3, <1>5 DEF Has, EmbedRows
<1> QED
  BY <1>6, <1>7, <1>8, <1>9, <1>10 DEF Inventoried

LEMMA RowsAddUp ==
  ASSUME Passed
  PROVE  Disk(Rows, TRUE, TRUE) = TotalSize
<1> DEFINE f == [n \in Found |-> Bytes(Meta(n))]
           image == [n \in Found |-> Row(n)]
           h == [row \in RowsOf(Rows) |-> row.bytes]
<1>1. /\ \A n \in Found : f[n] = Bytes(Meta(n)) /\ f[n] \in Int /\ image[n] = Row(n)
      /\ \A x, y \in Found : image[x] = image[y] => x = y
  <2>1. \A n \in Found : Row(n).tensor = n /\ Bytes(Meta(n)) \in Int
    BY RowIs
  <2> QED
    BY <2>1
<1>2. IsFiniteSet(Found) /\ RowsOf(Rows) = {image[n] : n \in Found}
  BY MetaIs, RowsAre
<1>3. \A n \in Found : h[image[n]] = f[n]
  <2>1. \A n \in Found : Row(n) \in RowsOf(Rows) /\ Row(n).bytes = Bytes(Meta(n))
    BY RowIs, RowsAre
  <2> QED
    BY <2>1
<1>4. BytesOf(RowsOf(Rows)) = SumFunctionOnSet(h, RowsOf(Rows))
  <2>1. DOMAIN h = RowsOf(Rows) /\ BytesOf(RowsOf(Rows)) = SumFunction(h)
    BY DEF BytesOf
  <2> HIDE DEF h
  <2> QED
    BY <2>1 DEF SumFunction
<1> HIDE DEF f, image, h
<1>5. SumFunctionOnSet(f, Found) = TotalSize
  BY <1>1, BytesAddUp
<1>6. SumFunctionOnSet(h, {image[n] : n \in Found}) = SumFunctionOnSet(f, Found)
  BY <1>1, <1>2, <1>3, SumOfImage
<1>7. Disk(Rows, TRUE, TRUE) = BytesOf(RowsOf(Rows))
  BY RowsPriced, RowsInventoried, InventoriedIsManifest, DiskOfAll
<1> QED
  BY <1>2, <1>4, <1>5, <1>6, <1>7

\* An inventory torn at any row can still be added up.
LEMMA TornPriced ==
  ASSUME Passed, NEW n \in 0..Len(Rows) - 1, NEW rows,
         rows \in {SubSeq(Rows, 1, n),
                   Append(SubSeq(Rows, 1, n),
                          [Rows[n + 1] EXCEPT !.bytes = @ \div 10, !.format = None])}
  PROVE  Priced(rows) /\ Len(rows) <= Len(Tensors)
<1> DEFINE T == {Row(m) : m \in Found}
           whole == SubSeq(Rows, 1, n)
           cut == [Rows[n + 1] EXCEPT !.bytes = @ \div 10, !.format = None]
           Is(row) == /\ row.bytes \in Nat
                      /\ row.trellis => row.in_features \in Nat /\ row.out_features \in Nat
<1>1. Rows \in Seq(T) /\ Len(Rows) <= Len(Tensors) /\ RowsOf(Rows) = T
  BY RowsAre
<1>2. \A row \in T : Is(row)
  BY <1>1, RowsPriced DEF Priced
<1>3. Len(Rows) \in Nat /\ n \in Nat /\ n + 1 \in 1..Len(Rows) /\ n < Len(Rows)
  <2> HIDE DEF T
  <2> QED
    BY <1>1
<1>4. Is(cut)
  <2>1. Rows[n + 1] \in T
    <3> HIDE DEF T
    <3> QED
      BY <1>1, <1>3
  <2>2. PICK m \in Found : Rows[n + 1] = Row(m)
    BY <2>1
  <2>3. /\ cut.bytes = Rows[n + 1].bytes \div 10 /\ cut.trellis = Rows[n + 1].trellis
        /\ cut.in_features = Rows[n + 1].in_features /\ cut.out_features = Rows[n + 1].out_features
    BY <2>2 DEF Row
  <2>4. Is(Rows[n + 1])
    BY <1>2, <2>1
  <2>5. \A k \in Nat : k \div 10 \in Nat
    OBVIOUS
  <2> HIDE DEF cut
  <2> QED
    BY <2>3, <2>4, <2>5
<1> HIDE DEF T, cut
<1>5. /\ whole \in Seq(T) /\ Len(whole) = n
      /\ \A i \in 1..n : whole[i] = Rows[i] /\ Rows[i] \in T
  BY <1>1, <1>3
<1> HIDE DEF whole
<1>6. /\ DOMAIN whole = 1..n
      /\ \A i \in 1..n : Is(whole[i])
  BY <1>2, <1>3, <1>5
<1>7. /\ Len(Append(whole, cut)) = n + 1 /\ DOMAIN Append(whole, cut) = 1..n + 1
      /\ \A i \in 1..n + 1 : Is(Append(whole, cut)[i])
  <2>1. whole \in Seq(T \cup {cut}) /\ cut \in T \cup {cut}
    BY <1>5
  <2>2. /\ Len(Append(whole, cut)) = n + 1 /\ DOMAIN Append(whole, cut) = 1..n + 1
        /\ \A i \in 1..n : Append(whole, cut)[i] = whole[i]
        /\ Append(whole, cut)[n + 1] = cut
    BY <1>3, <1>5, <2>1
  <2>3. \A i \in 1..n + 1 : i \in 1..n \/ i = n + 1
    BY <1>3
  <2> HIDE DEF Is
  <2> QED
    BY <1>4, <1>6, <2>2, <2>3
<1>8. rows = whole \/ rows = Append(whole, cut)
  BY DEF whole, cut
<1> HIDE DEF Is
<1>9. \E k \in {n, n + 1} : /\ Len(rows) = k /\ DOMAIN rows = 1..k
                           /\ \A i \in 1..k : Is(rows[i])
  BY <1>5, <1>6, <1>7, <1>8
<1>10. PICK k \in {n, n + 1} : /\ Len(rows) = k /\ DOMAIN rows = 1..k
                               /\ \A i \in 1..k : Is(rows[i])
  BY <1>9
<1>11. k \in Nat /\ k <= Len(Rows)
  BY <1>3, <1>10
<1>12. Len(rows) \in Nat /\ DOMAIN rows = 1..Len(rows)
  BY <1>10, <1>11
<1>13. \A row \in RowsOf(rows) : Is(row)
  BY <1>10 DEF RowsOf
<1>14. Len(rows) <= Len(Tensors)
  BY <1>1, <1>3, <1>10, <1>11, TensorsAssumption
<1> QED
  BY <1>12, <1>13, <1>14 DEF Priced, Is

\* The inventory on disk, and the headers of which one is about to be written.
CsvInv == (csv # None => Kept(csv)) /\ (at = "csv" => Passed)

LEMMA PassedKept ==
  ASSUME Passed, UNCHANGED <<headers, sizes>>
  PROVE  Passed'
<1>1. headers' = headers /\ sizes' = sizes
  OBVIOUS
<1>2. \A s : Entries(s)' = Entries(s)
  BY <1>1 DEF Entries
<1>3. \A s : Names(s)' = Names(s)
  BY <1>2 DEF Names
<1>4. Found' = Found /\ \A n : ShardOf(n)' = ShardOf(n)
  BY <1>3 DEF Found, ShardOf
<1>5. \A n : Meta(n)' = Meta(n)
  BY <1>2, <1>4 DEF Meta
<1>6. Payload' = Payload
  BY <1>2 DEF Payload
<1>7. Audited'
  BY <1>1, <1>2, <1>3, <1>4, <1>6 DEF Passed, Audited, Reconciled
<1>8. Accounted'
  BY <1>1 DEF Passed, Accounted
<1> QED
  BY <1>1, <1>4, <1>5, <1>7, <1>8 DEF Passed

LEMMA CsvStart == AuditInit => CsvInv
BY DEF AuditInit, CsvInv

LEMMA CsvStep == Kinds /\ CsvInv /\ [AuditNext]_auditVars => CsvInv'
<1> SUFFICES ASSUME Kinds, CsvInv, [AuditNext]_auditVars PROVE CsvInv'
  OBVIOUS
<1>1. ASSUME UNCHANGED csv, at' # "csv" PROVE CsvInv'
  BY <1>1 DEF CsvInv
<1>2. ASSUME UNCHANGED <<csv, at, headers, sizes>> PROVE CsvInv'
  BY <1>2, PassedKept DEF CsvInv
<1>3. CASE UNCHANGED auditVars
  BY <1>2, <1>3 DEF auditVars, disk
<1>4. CASE Audit
  <2>1. UNCHANGED <<csv, headers, sizes>> /\ at = "audit"
    BY <1>4 DEF Audit, disk
  <2>2. CASE at' = "csv"
    <3>1. Audited /\ Accounted /\ \A n \in Trellises \cap Found : TrellisFits(n, Meta(n).shape, Found)
      BY <1>4, <2>2 DEF Audit, End
    <3>2. \A s \in Shard : headers[s] \in Header
      BY <2>1 DEF Kinds
    <3>3. Passed
      BY <3>1, <3>2 DEF Passed
    <3> QED
      BY <2>1, <3>3, PassedKept DEF CsvInv
  <2> QED
    BY <1>1, <2>1, <2>2
<1>5. CASE WriteCsv
  <2>1. /\ csv' = [rows |-> Rows, whole |-> TRUE] /\ at' = "idle"
        /\ Passed
    BY <1>5 DEF WriteCsv, End, CsvInv
  <2>2. Len(Rows) <= Len(Tensors) /\ Priced(Rows) /\ Inventoried(Rows) /\ Disk(Rows, TRUE, TRUE) = TotalSize
    BY <2>1, RowsAre, RowsPriced, RowsInventoried, RowsAddUp
  <2>3. csv'.rows = Rows
    BY <2>1
  <2> QED
    BY <2>1, <2>2, <2>3 DEF CsvInv, Kept
<1>6. CASE TearCsv
  <2>1. Passed /\ at' = "idle"
    BY <1>6 DEF TearCsv, End, CsvInv
  <2>2. PICK n \in 0..Len(Rows) - 1 :
          \E rows \in {SubSeq(Rows, 1, n),
                       Append(SubSeq(Rows, 1, n),
                              [Rows[n + 1] EXCEPT !.bytes = @ \div 10, !.format = None])} :
            csv' = [rows |-> rows, whole |-> FALSE]
    BY <1>6 DEF TearCsv
  <2>3. PICK rows \in {SubSeq(Rows, 1, n),
                       Append(SubSeq(Rows, 1, n),
                              [Rows[n + 1] EXCEPT !.bytes = @ \div 10, !.format = None])} :
          csv' = [rows |-> rows, whole |-> FALSE]
    BY <2>2
  <2>4. Priced(rows) /\ Len(rows) <= Len(Tensors)
    BY <2>1, TornPriced
  <2>5. csv'.rows = rows /\ ~csv'.whole
    BY <2>3
  <2> QED
    BY <2>1, <2>4, <2>5 DEF CsvInv, Kept
<1>7. CASE \E v \in Versions : Change(v)
  BY <1>2, <1>7 DEF Change, disk
<1>8. CASE Break
  BY <1>1, <1>8 DEF Break, End, disk
<1>9. CASE \E fetch \in BOOLEAN : Start(fetch)
  BY <1>1, <1>9 DEF Start, First, disk
<1>10. CASE FetchPrefix \/ FetchHeader \/ WriteHeader \/ TearHeader \/ WriteSize \/ TearSize
  BY <1>1, <1>10 DEF FetchPrefix, FetchHeader, WriteHeader, TearHeader, WriteSize, TearSize, GoTo, End, disk
<1>11. CASE Read
  BY <1>1, <1>11 DEF Read, First, GoTo, End, disk
<1> QED
  BY <1>3, <1>4, <1>5, <1>6, <1>7, <1>8, <1>9, <1>10, <1>11 DEF AuditNext

-------------------------------------------------------------------------------
(* Grading.                                                                *)

\* The equations by which matching and Facts are defined, for any function.
Agrees(f, value, expected) ==
  /\ value.tag = expected.tag
  /\ IF expected.tag \in Containers
       THEN /\ expected.tag = "list" => ArrayFits(value, expected)
            /\ \A k \in DOMAIN expected.val :
                 k \in DOMAIN value.val /\ f[<<value.val[k], expected.val[k]>>]
       ELSE value.val = expected.val

Lower(f, v) ==
  IF v.tag \in Containers
    THEN UNION {Below(<<v.tag, k>>, f[v.val[k]]) : k \in DOMAIN v.val}
    ELSE {}

\* The facts under a value depend only on the facts of what it holds.
LEMMA LowerAgrees ==
  ASSUME NEW F, NEW H, NEW v, v.tag \in Containers,
         \A k \in DOMAIN v.val : H[v.val[k]] = F[v.val[k]]
  PROVE  Lower(F, v) = Lower(H, v)
<1> DEFINE a(k) == Below(<<v.tag, k>>, F[v.val[k]])
           b(k) == Below(<<v.tag, k>>, H[v.val[k]])
<1>1. \A k \in DOMAIN v.val : a(k) = b(k)
  BY Zenon
<1>2. Lower(F, v) = UNION {a(k) : k \in DOMAIN v.val} /\ Lower(H, v) = UNION {b(k) : k \in DOMAIN v.val}
  BY Zenon DEF Lower
<1> HIDE DEF a, b
<1>3. {a(k) : k \in DOMAIN v.val} = {b(k) : k \in DOMAIN v.val}
  BY <1>1
<1> QED
  BY <1>2, <1>3, Zenon

\* A value holds only values that are nested less deeply.
LEMMA Nested ==
  ASSUME NEW v \in Json, v.tag \in Containers, NEW k \in DOMAIN v.val
  PROVE  /\ v.val[k] \in Json
         /\ \A n \in 0..Deepest : Nesting[v] < n + 1 => Nesting[v.val[k]] < n
<1>1. v.val[k] \in Json /\ Nesting[v.val[k]] < Nesting[v]
  BY JsonAssumption
<1>2. Nesting[v] \in 0..Deepest /\ Nesting[v.val[k]] \in 0..Deepest
  BY <1>1, JsonAssumption
<1> QED
  BY <1>1, <1>2, JsonAssumption

\* Both functions exist, level by level.
LEMMA MatchingExists ==
  \E F : F = [pair \in Json \X Json |-> Agrees(F, pair[1], pair[2])]
<1> DEFINE P(n) == {pair \in Json \X Json : Nesting[pair[2]] < n}
           Is(F, n) == F = [pair \in P(n) |-> Agrees(F, pair[1], pair[2])]
           N == Deepest + 1
           Good == {n \in 0..N : \E F : Is(F, n)}
<1>1. Deepest \in Nat /\ Nesting \in [Json -> 0..Deepest]
  BY JsonAssumption
<1>2. 0 \in Good
  <2>1. P(0) = {}
    BY <1>1
  <2>2. Is([pair \in P(0) |-> TRUE], 0)
    BY <2>1
  <2>3. 0 \in 0..N
    BY <1>1
  <2> QED
    BY <2>2, <2>3
<1>3. ASSUME NEW n \in Good, n # N PROVE n + 1 \in Good
  <2>1. n \in 0..Deepest /\ n + 1 \in 0..N
    BY <1>1, <1>3
  <2>2. PICK F : Is(F, n)
    OBVIOUS
  <2> DEFINE H == [pair \in P(n + 1) |-> Agrees(F, pair[1], pair[2])]
  <2>3. P(n) \subseteq P(n + 1)
    BY <1>1, <2>1
  <2>4. \A pair \in P(n) : H[pair] = F[pair]
    <3> HIDE DEF P
    <3> QED
      BY <2>2, <2>3
  <2>5. ASSUME NEW pair \in P(n + 1)
        PROVE  Agrees(F, pair[1], pair[2]) <=> Agrees(H, pair[1], pair[2])
    <3> DEFINE value == pair[1]
               expected == pair[2]
    <3>1. value \in Json /\ expected \in Json /\ Nesting[expected] < n + 1
      OBVIOUS
    <3> HIDE DEF value, expected
    <3>2. ASSUME value.tag = expected.tag, expected.tag \in Containers,
                 NEW k \in DOMAIN expected.val, k \in DOMAIN value.val
          PROVE  H[<<value.val[k], expected.val[k]>>] = F[<<value.val[k], expected.val[k]>>]
      <4>1. /\ value.val[k] \in Json /\ expected.val[k] \in Json
            /\ Nesting[expected.val[k]] < n
        BY <2>1, <3>1, <3>2, Nested
      <4>2. <<value.val[k], expected.val[k]>> \in P(n)
        BY <4>1
      <4> QED
        BY <2>4, <4>2
    <3> HIDE DEF H
    <3>3. Agrees(F, value, expected) <=> Agrees(H, value, expected)
      BY <3>2, Zenon DEF Agrees
    <3> QED
      BY <3>3 DEF value, expected
  <2>6. Is(H, n + 1)
    <3> DEFINE L == [pair \in P(n + 1) |-> Agrees(H, pair[1], pair[2])]
    <3>1. \A pair \in P(n + 1) : Agrees(F, pair[1], pair[2]) = Agrees(H, pair[1], pair[2])
      <4>1. \A pair \in P(n + 1) : Agrees(F, pair[1], pair[2]) <=> Agrees(H, pair[1], pair[2])
        BY <2>5
      <4>2. \A pair : Agrees(F, pair[1], pair[2]) \in BOOLEAN /\ Agrees(H, pair[1], pair[2]) \in BOOLEAN
        BY DEF Agrees
      <4> HIDE DEF P, H
      <4> QED
        BY <4>1, <4>2, Zenon
    <3>2. H = L
      <4>1. H = [pair \in P(n + 1) |-> Agrees(F, pair[1], pair[2])]
        OBVIOUS
      <4> HIDE DEF P, H
      <4> QED
        BY <3>1, <4>1
    <3> QED
      BY <3>2
  <2>7. \E G : Is(G, n + 1)
    <3> HIDE DEF Is, H
    <3> QED
      BY <2>6
  <2> QED
    BY <2>1, <2>7
<1>4. N \in Good
  <2>1. N \in Nat /\ Good \in SUBSET (0..N)
    BY <1>1
  <2> HIDE DEF Good, N
  <2> QED
    BY <1>2, <1>3, <2>1, UpToInduction
<1>5. P(N) = Json \X Json
  <2>1. \A v \in Json : Nesting[v] < N
    BY <1>1
  <2> QED
    BY <2>1
<1>6. PICK F : Is(F, N)
  BY <1>4
<1> QED
  BY <1>5, <1>6

LEMMA FactsExist ==
  \E F : F = [v \in Json |-> {Itself(v)} \cup Lower(F, v)]
<1> DEFINE P(n) == {v \in Json : Nesting[v] < n}
           Is(F, n) == F = [v \in P(n) |-> {Itself(v)} \cup Lower(F, v)]
           N == Deepest + 1
           Good == {n \in 0..N : \E F : Is(F, n)}
<1>1. Deepest \in Nat /\ Nesting \in [Json -> 0..Deepest]
  BY JsonAssumption
<1>2. 0 \in Good
  <2>1. P(0) = {}
    BY <1>1
  <2>2. Is([v \in P(0) |-> {}], 0)
    BY <2>1
  <2>3. 0 \in 0..N
    BY <1>1
  <2> QED
    BY <2>2, <2>3
<1>3. ASSUME NEW n \in Good, n # N PROVE n + 1 \in Good
  <2>1. n \in 0..Deepest /\ n + 1 \in 0..N
    BY <1>1, <1>3
  <2>2. PICK F : Is(F, n)
    OBVIOUS
  <2> DEFINE H == [v \in P(n + 1) |-> {Itself(v)} \cup Lower(F, v)]
  <2>3. P(n) \subseteq P(n + 1)
    BY <1>1, <2>1
  <2>4. \A v \in P(n) : H[v] = F[v]
    <3> HIDE DEF P
    <3> QED
      BY <2>2, <2>3
  <2>5. ASSUME NEW v \in P(n + 1) PROVE Lower(F, v) = Lower(H, v)
    <3>1. v \in Json /\ Nesting[v] < n + 1
      OBVIOUS
    <3>2. ASSUME v.tag \in Containers, NEW k \in DOMAIN v.val PROVE H[v.val[k]] = F[v.val[k]]
      <4>1. v.val[k] \in Json /\ Nesting[v.val[k]] < n
        BY <2>1, <3>1, <3>2, Nested
      <4>2. v.val[k] \in P(n)
        BY <4>1
      <4> QED
        BY <2>4, <4>2
    <3> HIDE DEF H, P
    <3>3. CASE v.tag \in Containers
      <4>1. \A k \in DOMAIN v.val : H[v.val[k]] = F[v.val[k]]
        BY <3>2, <3>3, Zenon
      <4> QED
        BY <3>3, <4>1, LowerAgrees, Zenon
    <3>4. CASE v.tag \notin Containers
      BY <3>4 DEF Lower
    <3> QED
      BY <3>3, <3>4
  <2>6. Is(H, n + 1)
    <3>1. H = [v \in P(n + 1) |-> {Itself(v)} \cup Lower(F, v)]
      OBVIOUS
    <3> HIDE DEF H, P
    <3>2. H = [v \in P(n + 1) |-> {Itself(v)} \cup Lower(H, v)]
      BY <2>5, <3>1
    <3> QED
      BY <3>2
  <2>7. \E G : Is(G, n + 1)
    <3> HIDE DEF Is, H
    <3> QED
      BY <2>6
  <2> QED
    BY <2>1, <2>7
<1>4. N \in Good
  <2>1. N \in Nat /\ Good \in SUBSET (0..N)
    BY <1>1
  <2> HIDE DEF Good, N
  <2> QED
    BY <1>2, <1>3, <2>1, UpToInduction
<1>5. P(N) = Json
  BY <1>1
<1>6. PICK F : Is(F, N)
  BY <1>4
<1> QED
  BY <1>5, <1>6

LEMMA MatchingIs ==
  ASSUME NEW value \in Json, NEW expected \in Json
  PROVE  matching[<<value, expected>>] <=> Agrees(matching, value, expected)
<1> DEFINE Is(F) == F = [pair \in Json \X Json |-> Agrees(F, pair[1], pair[2])]
<1>1. matching = CHOOSE F : Is(F)
  BY Zenon DEF matching, Agrees
<1>2. Is(matching)
  <2>1. \E F : Is(F)
    BY MatchingExists
  <2> HIDE DEF Is
  <2> QED
    BY <1>1, <2>1
<1>3. <<value, expected>> \in Json \X Json
  OBVIOUS
<1>4. matching[<<value, expected>>] = Agrees(matching, value, expected)
  BY <1>2, <1>3
<1> QED
  BY <1>4, Zenon

LEMMA FactsAre ==
  ASSUME NEW v \in Json
  PROVE  Facts[v] = {Itself(v)} \cup Lower(Facts, v)
<1> DEFINE Is(F) == F = [w \in Json |-> {Itself(w)} \cup Lower(F, w)]
<1>1. Facts = CHOOSE F : Is(F)
  BY Zenon DEF Facts, Lower
<1>2. Is(Facts)
  <2>1. \E F : Is(F)
    BY FactsExist
  <2> HIDE DEF Is
  <2> QED
    BY <1>1, <2>1
<1> QED
  BY <1>2

\* The facts of a value: what it says of itself, at the empty place, and what its
\* components say, each below its own step.
LEMMA FactsOf ==
  ASSUME NEW v \in Json
  PROVE  /\ Itself(v) \in Facts[v] /\ Itself(v)[1] = <<>>
         /\ \A fact \in Facts[v] : fact = <<fact[1], fact[2], fact[3]>>
         /\ \A fact \in Facts[v] : fact[1] = <<>> => fact = Itself(v)
         /\ v.tag \in Containers => \A k \in DOMAIN v.val : Below(<<v.tag, k>>, Facts[v.val[k]]) \subseteq Facts[v]
         /\ \A fact \in Facts[v] : fact[1] # <<>> =>
              /\ v.tag \in Containers
              /\ \E k \in DOMAIN v.val : fact \in Below(<<v.tag, k>>, Facts[v.val[k]])
<1>1. Facts[v] = {Itself(v)} \cup Lower(Facts, v)
  BY FactsAre
<1>2. Itself(v)[1] = <<>> /\ Itself(v) = <<Itself(v)[1], Itself(v)[2], Itself(v)[3]>>
  BY DEF Itself
<1>3. \A fact \in Lower(Facts, v) :
        /\ v.tag \in Containers
        /\ \E k \in DOMAIN v.val : fact \in Below(<<v.tag, k>>, Facts[v.val[k]])
  <2>1. CASE v.tag \in Containers
    <3>1. Lower(Facts, v) = UNION {Below(<<v.tag, k>>, Facts[v.val[k]]) : k \in DOMAIN v.val}
      BY <2>1 DEF Lower
    <3> QED
      BY <2>1, <3>1
  <2>2. CASE v.tag \notin Containers
    BY <2>2 DEF Lower
  <2> QED
    BY <2>1, <2>2
<1>4. ASSUME NEW step, NEW facts, NEW fact \in Below(step, facts)
      PROVE  fact[1] # <<>> /\ fact = <<fact[1], fact[2], fact[3]>>
  <2>1. PICK f \in facts : fact = <<<<step, f[1]>>, f[2], f[3]>>
    BY DEF Below
  <2>2. <<step, f[1]>> # <<>>
    OBVIOUS
  <2> QED
    BY <2>1, <2>2
<1>5. v.tag \in Containers => \A k \in DOMAIN v.val : Below(<<v.tag, k>>, Facts[v.val[k]]) \subseteq Lower(Facts, v)
  BY DEF Lower
<1>6. \A fact \in Lower(Facts, v) : fact[1] # <<>> /\ fact = <<fact[1], fact[2], fact[3]>>
  BY <1>3, <1>4
<1> QED
  BY <1>1, <1>2, <1>3, <1>5, <1>6

\* A value states what is expected of a component just when it has it.
LEMMA BelowIs ==
  ASSUME NEW v \in Json, NEW e \in Json, v.tag = e.tag, e.tag \in Containers, NEW k \in DOMAIN e.val
  PROVE  Below(<<e.tag, k>>, Facts[e.val[k]]) \subseteq Facts[v]
           <=> k \in DOMAIN v.val /\ Facts[e.val[k]] \subseteq Facts[v.val[k]]
<1> DEFINE step == <<e.tag, k>>
           facts == Facts[e.val[k]]
<1>1. e.val[k] \in Json
  BY Nested
<1>2. ASSUME k \in DOMAIN v.val, facts \subseteq Facts[v.val[k]]
      PROVE  Below(step, facts) \subseteq Facts[v]
  <2>1. Below(step, facts) \subseteq Below(step, Facts[v.val[k]])
    BY <1>2 DEF Below
  <2>2. Below(<<v.tag, k>>, Facts[v.val[k]]) \subseteq Facts[v]
    BY <1>2, FactsOf
  <2> QED
    BY <2>1, <2>2
<1>3. ASSUME Below(step, facts) \subseteq Facts[v], NEW fact \in facts
      PROVE  k \in DOMAIN v.val /\ fact \in Facts[v.val[k]]
  <2> DEFINE below == <<<<step, fact[1]>>, fact[2], fact[3]>>
  <2>1. below \in Facts[v]
    BY <1>3 DEF Below
  <2>2. below[1] # <<>>
    OBVIOUS
  <2>3. PICK l \in DOMAIN v.val : below \in Below(<<v.tag, l>>, Facts[v.val[l]])
    <3> HIDE DEF below
    <3> QED
      BY <2>1, <2>2, FactsOf
  <2>4. PICK other \in Facts[v.val[l]] :
          below = <<<<<<v.tag, l>>, other[1]>>, other[2], other[3]>>
    <3> HIDE DEF below
    <3> QED
      BY <2>3 DEF Below
  <2>5. k = l /\ fact[1] = other[1] /\ fact[2] = other[2] /\ fact[3] = other[3]
    BY <2>4
  <2>6. fact = <<fact[1], fact[2], fact[3]>>
    BY <1>1, FactsOf
  <2>7. other = <<other[1], other[2], other[3]>>
    <3>1. v.val[l] \in Json
      BY Nested
    <3> QED
      BY <3>1, FactsOf
  <2>8. fact = other
    BY <2>5, <2>6, <2>7
  <2> QED
    BY <2>3, <2>4, <2>5, <2>8
<1>4. Itself(e.val[k]) \in facts
  BY <1>1, FactsOf
<1> HIDE DEF facts
<1>5. (Below(step, facts) \subseteq Facts[v]) => (k \in DOMAIN v.val /\ facts \subseteq Facts[v.val[k]])
  BY <1>3, <1>4
<1> QED
  BY <1>2, <1>5 DEF facts

\* What two values say of themselves.
LEMMA ItselfIs ==
  ASSUME NEW v, NEW e
  PROVE  Itself(v) = Itself(e) <=>
           /\ v.tag = e.tag
           /\ e.tag = "list" => Len(v.val) = Len(e.val)
           /\ e.tag \notin Containers => v.val = e.val
<1> DEFINE Third(w) == CASE w.tag = "dict" -> ""
                         [] w.tag = "list" -> Len(w.val)
                         [] OTHER -> w.val
<1>1. \A w : /\ w.tag = "dict" => Third(w) = ""
             /\ w.tag = "list" => Third(w) = Len(w.val)
             /\ w.tag \notin Containers => Third(w) = w.val
  BY DEF Containers
<1>2. \A w : Itself(w) = <<<<>>, w.tag, Third(w)>>
  BY DEF Itself
<1>3. \A w : w.tag \in Containers => w.tag = "dict" \/ w.tag = "list"
  BY DEF Containers
<1> HIDE DEF Third
<1>4. Itself(v) = Itself(e) <=> v.tag = e.tag /\ Third(v) = Third(e)
  BY <1>2
<1>5. "dict" # "list" /\ "list" \in Containers /\ "dict" \in Containers
  BY DEF Containers
<1> QED
  BY <1>1, <1>3, <1>4, <1>5

\* A value matches what is expected just when it states every fact of it.
LEMMA MatchesMeansFacts ==
  ASSUME NEW value \in Json, NEW expected \in Json
  PROVE  matches(value, expected) <=> Facts[expected] \subseteq Facts[value]
<1> DEFINE Same(v, e) == matching[<<v, e>>] <=> Facts[e] \subseteq Facts[v]
           N == Deepest + 1
           Good == {n \in 0..N : \A v, e \in Json : Nesting[e] < n => Same(v, e)}
<1>1. N \in Nat /\ \A e \in Json : Nesting[e] \in 0..Deepest /\ Nesting[e] < N
  BY JsonAssumption
<1>2. 0 \in Good
  <2>1. \A e \in Json : ~(Nesting[e] < 0)
    BY <1>1, JsonAssumption
  <2> QED
    BY <1>1, <2>1
<1>3. ASSUME NEW n \in Good, n # N PROVE n + 1 \in Good
  <2>1. n \in 0..Deepest /\ n + 1 \in 0..N
    BY <1>3, JsonAssumption
  <2> SUFFICES ASSUME NEW v \in Json, NEW e \in Json, Nesting[e] < n + 1 PROVE Same(v, e)
    BY <2>1
  <2>2. \A w, x \in Json : Nesting[x] < n => Same(w, x)
    OBVIOUS
  <2> HIDE DEF Good
  <2>3. Itself(v) = Itself(e) <=> Itself(e) \in Facts[v]
    BY FactsOf
  <2>4. ASSUME v.tag = e.tag, e.tag \in Containers, NEW k \in DOMAIN e.val
        PROVE  Below(<<e.tag, k>>, Facts[e.val[k]]) \subseteq Facts[v]
                 <=> k \in DOMAIN v.val /\ matching[<<v.val[k], e.val[k]>>]
    <3>1. e.val[k] \in Json /\ Nesting[e.val[k]] < n
      BY <2>1, <2>4, Nested
    <3>2. ASSUME k \in DOMAIN v.val PROVE Same(v.val[k], e.val[k])
      <4>1. v.val[k] \in Json
        BY <2>4, <3>2, Nested
      <4> QED
        BY <2>2, <3>1, <4>1
    <3> QED
      BY <2>4, <3>2, BelowIs
  <2>5. Facts[e] \subseteq Facts[v] <=>
          /\ Itself(v) = Itself(e)
          /\ e.tag \in Containers => \A k \in DOMAIN e.val : Below(<<e.tag, k>>, Facts[e.val[k]]) \subseteq Facts[v]
    <3>1. Facts[e] = {Itself(e)} \cup Lower(Facts, e)
      BY FactsAre
    <3>2. CASE e.tag \in Containers
      <4>1. Lower(Facts, e) = UNION {Below(<<e.tag, k>>, Facts[e.val[k]]) : k \in DOMAIN e.val}
        BY <3>2 DEF Lower
      <4> QED
        BY <2>3, <3>1, <3>2, <4>1
    <3>3. CASE e.tag \notin Containers
      <4>1. Lower(Facts, e) = {}
        BY <3>3 DEF Lower
      <4> QED
        BY <2>3, <3>1, <3>3, <4>1
    <3> QED
      BY <3>2, <3>3
  <2>6. matching[<<v, e>>] <=> Agrees(matching, v, e)
    BY MatchingIs
  <2>7. Agrees(matching, v, e) <=> Facts[e] \subseteq Facts[v]
    <3>1. CASE e.tag \in Containers
      <4>1. Agrees(matching, v, e) <=>
              /\ v.tag = e.tag
              /\ e.tag = "list" => Len(v.val) = Len(e.val)
              /\ \A k \in DOMAIN e.val : k \in DOMAIN v.val /\ matching[<<v.val[k], e.val[k]>>]
        BY <3>1, Zenon DEF Agrees, ArrayFits
      <4> QED
        BY <2>4, <2>5, <3>1, <4>1, ItselfIs
    <3>2. CASE e.tag \notin Containers
      <4>1. Agrees(matching, v, e) <=> v.tag = e.tag /\ v.val = e.val
        BY <3>2, Zenon DEF Agrees
      <4>2. e.tag # "list"
        BY <3>2 DEF Containers
      <4> QED
        BY <2>5, <3>2, <4>1, <4>2, ItselfIs
    <3> QED
      BY <3>1, <3>2
  <2> QED
    BY <2>6, <2>7
<1>4. N \in Good
  <2>1. Good \in SUBSET (0..N)
    OBVIOUS
  <2> HIDE DEF Good, N
  <2> QED
    BY <1>1, <1>2, <1>3, <2>1, UpToInduction
<1>5. Same(value, expected)
  BY <1>1, <1>4
<1> QED
  BY <1>5 DEF matches

\* A tool's answer passes just when it states every fact of the one call that is
\* expected, and has no argument more.
LEMMA ToolMeansFacts ==
  ASSUME NEW case, case.arguments.tag = "dict", ExpectedCall(case) \in Json,
         NEW response, response.json \in Json
  PROVE  (LET value == response.json IN
          /\ value.tag = "dict"
          /\ DOMAIN value.val = {"name", "arguments"}
          /\ value.val["name"].tag = "str" /\ value.val["name"].val = case.name
          /\ value.val["arguments"].tag = "dict"
          /\ DOMAIN value.val["arguments"].val = DOMAIN case.arguments.val
          /\ matches(value.val["arguments"], case.arguments))
         <=> (LET value == response.json IN
              /\ Facts[ExpectedCall(case)] \subseteq Facts[value]
              /\ DOMAIN value.val = DOMAIN ExpectedCall(case).val
              /\ DOMAIN value.val["arguments"].val = DOMAIN case.arguments.val)
<1> DEFINE value == response.json
           call == ExpectedCall(case)
           name == [tag |-> "str", val |-> case.name]
<1>1. /\ call.tag = "dict" /\ DOMAIN call.val = {"name", "arguments"}
      /\ call.val["name"] = name /\ call.val["arguments"] = case.arguments
      /\ name.tag = "str" /\ name.val = case.name
  BY DEF ExpectedCall
<1>2. "dict" \in Containers /\ "str" \notin Containers /\ "dict" # "list"
  BY DEF Containers
<1> HIDE DEF value, call, name
<1>3. value \in Json /\ call \in Json /\ name \in Json /\ case.arguments \in Json
  <2>1. value \in Json /\ call \in Json
    BY DEF value, call
  <2> QED
    BY <1>1, <1>2, <2>1, Nested
<1>4. Facts[call] \subseteq Facts[value] <=> matching[<<value, call>>]
  BY <1>3, MatchesMeansFacts DEF matches
<1>5. matching[<<value, call>>] <=>
        /\ value.tag = "dict"
        /\ \A k \in {"name", "arguments"} : k \in DOMAIN value.val /\ matching[<<value.val[k], call.val[k]>>]
  <2>1. matching[<<value, call>>] <=> Agrees(matching, value, call)
    BY <1>3, MatchingIs
  <2>2. Agrees(matching, value, call) <=>
          /\ value.tag = call.tag
          /\ \A k \in DOMAIN call.val : k \in DOMAIN value.val /\ matching[<<value.val[k], call.val[k]>>]
    BY <1>1, <1>2, Zenon DEF Agrees
  <2> QED
    BY <1>1, <2>1, <2>2
<1>6. ASSUME value.tag = "dict", "name" \in DOMAIN value.val, "arguments" \in DOMAIN value.val
      PROVE  /\ matching[<<value.val["name"], name>>] <=>
                  value.val["name"].tag = "str" /\ value.val["name"].val = case.name
             /\ matching[<<value.val["arguments"], case.arguments>>] => value.val["arguments"].tag = "dict"
  <2>1. value.val["name"] \in Json /\ value.val["arguments"] \in Json
    BY <1>2, <1>3, <1>6, Nested
  <2>2. /\ matching[<<value.val["name"], name>>] <=> Agrees(matching, value.val["name"], name)
        /\ matching[<<value.val["arguments"], case.arguments>>]
             <=> Agrees(matching, value.val["arguments"], case.arguments)
    BY <1>3, <2>1, MatchingIs
  <2>3. Agrees(matching, value.val["name"], name) <=>
          value.val["name"].tag = name.tag /\ value.val["name"].val = name.val
    BY <1>1, <1>2, Zenon DEF Agrees
  <2>4. Agrees(matching, value.val["arguments"], case.arguments)
          => value.val["arguments"].tag = case.arguments.tag
    BY Zenon DEF Agrees
  <2> QED
    BY <1>1, <2>2, <2>3, <2>4
<1>7. (/\ value.tag = "dict"
       /\ DOMAIN value.val = {"name", "arguments"}
       /\ value.val["name"].tag = "str" /\ value.val["name"].val = case.name
       /\ value.val["arguments"].tag = "dict"
       /\ DOMAIN value.val["arguments"].val = DOMAIN case.arguments.val
       /\ matching[<<value.val["arguments"], case.arguments>>])
      <=> (/\ Facts[call] \subseteq Facts[value]
           /\ DOMAIN value.val = DOMAIN call.val
           /\ DOMAIN value.val["arguments"].val = DOMAIN case.arguments.val)
  BY <1>1, <1>4, <1>5, <1>6
<1> QED
  BY <1>7 DEF value, call, matches

\* Every grade means its contract, whatever the container reported.
LEMMA GradeMeansContract ==
  ASSUME NEW tried \in SuiteCases, NEW response \in tried.responses, NEW run \in ContainerRuns,
         run # NoReceipt => tried.case.kind = "python_syntax"
  PROVE  PassMeansContract(tried.case, response, run)
<1> DEFINE case == tried.case
           value == response.json
           receipt == IF run = NoReceipt THEN NoReceipt ELSE RunInContainer(response, case, run)
           status == judge(case, response, receipt)
           runnable == /\ case.kind = "python_syntax" /\ response.functions # NotPython
                       /\ case.function \in response.functions
<1>1. /\ NotJson \notin Json /\ value \in Json \cup {NotJson}
      /\ case.kind \in {"exact", "json_contract", "tool_call", "python_syntax"}
      /\ case.kind = "json_contract" => case.expected \in Json
      /\ case.kind = "tool_call" => case.arguments.tag = "dict" /\ ExpectedCall(case) \in Json
      /\ case.kind = "python_syntax" /\ run # NoReceipt => RunInContainer(response, case, run) # NoReceipt
  BY SuiteAssumption
<1>2. \A test \in BOOLEAN : /\ Passes(test) # "unverified"
                            /\ Passes(test) = "pass" <=> test
  BY DEF Passes
<1>3. CASE case.kind = "exact"
  <2>1. status = Passes(response.text = case.expected)
    BY <1>3 DEF judge, JudgeExact
  <2>2. status # "unverified" /\ (status = "pass" <=> response.text = case.expected)
    BY <1>2, <2>1
  <2>3. ~runnable
    BY <1>3
  <2> QED
    BY <1>3, <2>2, <2>3 DEF PassMeansContract
<1>4. CASE case.kind = "json_contract"
  <2>1. status = Passes(value # NotJson /\ matches(value, case.expected))
    BY <1>4 DEF judge, JudgeJson
  <2>2. value # NotJson => (matches(value, case.expected) <=> Facts[case.expected] \subseteq Facts[value])
    BY <1>1, <1>4, MatchesMeansFacts
  <2>3. /\ status # "unverified"
        /\ status = "pass" <=> value # NotJson /\ Facts[case.expected] \subseteq Facts[value]
    BY <1>2, <2>1, <2>2
  <2>4. ~runnable
    BY <1>4
  <2> QED
    BY <1>4, <2>3, <2>4 DEF PassMeansContract
<1>5. CASE case.kind = "tool_call"
  <2> DEFINE good == /\ value.tag = "dict"
                     /\ DOMAIN value.val = {"name", "arguments"}
                     /\ value.val["name"].tag = "str" /\ value.val["name"].val = case.name
                     /\ value.val["arguments"].tag = "dict"
                     /\ DOMAIN value.val["arguments"].val = DOMAIN case.arguments.val
                     /\ matches(value.val["arguments"], case.arguments)
             wanted == /\ Facts[ExpectedCall(case)] \subseteq Facts[value]
                       /\ DOMAIN value.val = DOMAIN ExpectedCall(case).val
                       /\ DOMAIN value.val["arguments"].val = DOMAIN case.arguments.val
  <2>1. status = Passes(value # NotJson /\ good)
    <3>1. status = JudgeTool(case, response)
      BY <1>5 DEF judge
    <3>2. JudgeTool(case, response) = Passes(value # NotJson /\ good)
      <4>1. JudgeTool(case, response)
              = Passes(/\ value # NotJson /\ value.tag = "dict"
                       /\ DOMAIN value.val = {"name", "arguments"}
                       /\ value.val["name"].tag = "str" /\ value.val["name"].val = case.name
                       /\ value.val["arguments"].tag = "dict"
                       /\ DOMAIN value.val["arguments"].val = DOMAIN case.arguments.val
                       /\ matches(value.val["arguments"], case.arguments))
        BY DEF JudgeTool
      <4> QED
        BY <4>1, Zenon DEF Passes
    <3> QED
      BY <3>1, <3>2
  <2>2. value # NotJson => (good <=> wanted)
    BY <1>1, <1>5, ToolMeansFacts
  <2> HIDE DEF good, wanted
  <2>3. /\ status # "unverified"
        /\ status = "pass" <=> value # NotJson /\ wanted
    BY <1>2, <2>1, <2>2
  <2>4. ~runnable
    BY <1>5
  <2> QED
    BY <1>5, <2>3, <2>4 DEF PassMeansContract, wanted
<1>6. CASE case.kind = "python_syntax"
  <2>1. status = JudgePython(case, response, receipt)
    BY <1>6 DEF judge
  <2>2. CASE ~runnable
    <3>1. status = "fail"
      BY <1>6, <2>1, <2>2 DEF JudgePython
    <3> QED
      BY <1>6, <2>2, <3>1 DEF PassMeansContract
  <2>3. CASE runnable /\ run = NoReceipt
    <3>1. status = "unverified"
      BY <2>1, <2>3 DEF JudgePython
    <3> QED
      BY <1>6, <2>3, <3>1 DEF PassMeansContract
  <2>4. CASE runnable /\ run # NoReceipt
    <3>1. receipt # NoReceipt /\ receipt = RunInContainer(response, case, run)
      BY <1>1, <1>6, <2>4
    <3>2. /\ receipt.solution = response.text /\ receipt.test = case.test_source
          /\ receipt.tests_ran = run.ran /\ receipt.passed = (run.rc = 0 /\ run.ran > 0)
      BY <3>1 DEF RunInContainer
    <3> HIDE DEF receipt
    <3>3. status = Passes(/\ receipt.solution = response.text /\ receipt.test = case.test_source
                          /\ receipt.tests_ran > 0
                          /\ receipt.passed)
      BY <2>1, <2>4, <3>1 DEF JudgePython
    <3>4. status # "unverified" /\ (status = "pass" <=> run.rc = 0 /\ run.ran > 0)
      <4> HIDE DEF status
      <4> QED
        BY <1>2, <3>2, <3>3
    <3> QED
      BY <1>6, <2>4, <3>4 DEF PassMeansContract, receipt
  <2> QED
    BY <2>2, <2>3, <2>4
<1> QED
  BY <1>1, <1>3, <1>4, <1>5, <1>6

-------------------------------------------------------------------------------
(* The tools that read the inventory leave the audit alone.                *)

LEMMA ToolsStepAudits == [ToolsNext]_toolVars => [AuditNext]_auditVars
BY DEF ToolsNext, toolVars, PlanMemory, ValidateProfile, Grade, ComputeLaw, Report

\* All that holds while the audit runs, and after it.
ToolsInv == AuditInv /\ Kinds /\ Heals /\ CsvInv

LEMMA ToolsStart == ToolsInit => ToolsInv
BY AuditStarts, KindsStart, CsvStart DEF ToolsInit, ToolsInv, Heals, AuditInit

LEMMA ToolsStep == ToolsInv /\ [ToolsNext]_toolVars => ToolsInv'
BY AuditStep, KindsStep, HealsStep, CsvStep, ToolsStepAudits DEF ToolsInv

\* A fetching run that accepts has the whole header of one version of each
\* shard, whatever was torn before it and replaced under it.
THEOREM FetchedIsWholeHolds == ToolsSpec => []FetchedIsWhole
<1>1. ToolsInv => FetchedIsWhole
  BY DEF ToolsInv, AuditInv, Shapes, Stored, FetchedIsWhole, Fits, LengthFits
<1> QED
  BY <1>1, ToolsStart, ToolsStep, PTL DEF ToolsSpec

\* No fetching run refuses a server that has what the index describes, whatever
\* earlier runs left behind.
THEOREM FetchHealsHolds == ToolsSpec => []FetchHeals
<1>1. ToolsInv => FetchHeals
  BY DEF ToolsInv, Heals, FetchHeals
<1> QED
  BY <1>1, ToolsStart, ToolsStep, PTL DEF ToolsSpec

\* Every file is absent or holds something a run of the tool can have written.
THEOREM ToolsTypeOKHolds == ToolsSpec => []ToolsTypeOK
<1>1. ToolsInv => ToolsTypeOK
  <2> SUFFICES ASSUME ToolsInv PROVE ToolsTypeOK
    OBVIOUS
  <2>1. /\ remote \in Versions /\ shard \in DOMAIN Shards
        /\ changes \in 0..MaxChanges /\ runs \in 0..MaxRuns
        /\ outcome \in {"none", "running", "accepted", "rejected", "aborted"}
        /\ at = "idle" <=> outcome # "running"
    BY DEF ToolsInv, AuditInv, Shapes, Kinds
  <2>2. at \in {"idle", "prefix", "header", "header file", "size file", "read", "audit", "csv"}
    BY DEF ToolsInv, Kinds, Reading
  <2>3. csv # None => Len(csv.rows) <= Len(Tensors)
    BY DEF ToolsInv, CsvInv, Kept
  <2>4. ASSUME NEW s \in Shard
        PROVE  /\ headers[s] # None => headers[s].ver \in Versions /\ headers[s].bytes \in Nat
               /\ sizes[s] \in Nat \cup {None, Bad}
               /\ sizes[s] # None => headers[s] # None
    <3>1. headers[s] \in Header \cup {None}
      BY DEF ToolsInv, Kinds
    <3>2. headers[s] # None => headers[s].ver \in Versions /\ headers[s].bytes \in Nat
      BY <3>1 DEF Header
    <3> QED
      BY <3>2 DEF ToolsInv, Kinds
  <2> QED
    BY <2>1, <2>2, <2>3, <2>4 DEF ToolsTypeOK
<1> QED
  BY <1>1, ToolsStart, ToolsStep, PTL DEF ToolsSpec

-------------------------------------------------------------------------------
(* Reports.                                                                *)

\* A step reports at most once, on an inventory that stays as it is.
LEMMA ToolsCases ==
  ASSUME [ToolsNext]_toolVars
  PROVE  \/ UNCHANGED toolVars
         \/ report' = None
         \/ /\ at = "idle" /\ csv # None /\ UNCHANGED auditVars
            /\ \/ \E o \in PlanOptions, vision \in BOOLEAN, staging \in 0..1 :
                    PlanMemory(o, vision, staging)
               \/ \E profile \in Profiles : ValidateProfile(profile)
         \/ \E tried \in SuiteCases : \E response \in tried.responses, run \in ContainerRuns :
              Grade(tried.case, response, run)
         \/ \E p, q \in Distribution : ComputeLaw(p, q)
BY DEF ToolsNext, PlanMemory, ValidateProfile, Report

\* What both planners report of one inventory adds up.
LEMMA PlanStep ==
  ASSUME ToolsInv, csv # None, UNCHANGED auditVars,
         NEW o \in PlanOptions, NEW vision \in BOOLEAN, NEW staging \in 0..1,
         PlanMemory(o, vision, staging)
  PROVE  PlansAddUp'
<1> DEFINE rows == csv.rows
           ledger == IF Inventoried(rows) THEN Scenario(rows, o, vision, staging) ELSE None
           residency == IF Manifest(rows) THEN ResidencyPlan(rows, o, vision) ELSE None
           reserved == TokensAlloc(o.context)
<1>1. /\ report' = [tool |-> "plan", options |-> o, vision |-> vision, staging |-> staging,
                    ledger |-> ledger, residency |-> residency]
      /\ csv' = csv
  BY DEF PlanMemory, Report, auditVars, disk
<1>2. Priced(rows) /\ (csv.whole => Inventoried(rows) /\ Disk(rows, TRUE, TRUE) = TotalSize)
  BY DEF ToolsInv, CsvInv, Kept
<1>3. o \in Options /\ o.context \in Nat \ {0}
  BY OptionsAssumption DEF Options
<1> HIDE DEF rows, ledger, residency, reserved
<1>4. /\ report'.options = o /\ report'.vision = vision /\ report'.staging = staging
      /\ report'.ledger = ledger /\ report'.residency = residency
  BY <1>1
<1>5. /\ Scenario(rows, o, vision, staging) \in Ledger
      /\ Manifest(rows) => ResidencyPlan(rows, o, vision) \in Residency
      /\ Scenario(rows, o, vision, staging).disk = Disk(rows, o.mtp, vision)
      /\ Inventoried(rows) => Manifest(rows)
  BY <1>2, <1>3, PlansTyped, InventoriedIsManifest DEF Scenario
<1>6. Inventoried(rows) =>
        /\ ledger = Scenario(rows, o, vision, staging) /\ ledger # None
        /\ residency = ResidencyPlan(rows, o, vision) /\ residency # None
  BY <1>5, NoneAssumption DEF ledger, residency
<1>7. ~Inventoried(rows) => ledger = None
  BY DEF ledger
<1>8. ASSUME ledger # None
      PROVE  /\ residency # None
             /\ ledger.disk = residency.weights
             /\ ledger.optimistic + CpuEmbedding(rows) = residency.optimistic
             /\ staging = 1 => ledger.staging >= ledger.fallback
  <2>1. Inventoried(rows)
    BY <1>7, <1>8
  <2> QED
    BY <1>2, <1>3, <1>5, <1>6, <2>1, PlansAgree
<1>9. /\ reserved % PageSize = 0
      /\ reserved - o.context \in 0..PageSize - 1
  BY <1>3, ReservedIsWhole, ReservedIsEnough DEF reserved
<1>10. ASSUME csv.whole
       PROVE  ledger # None /\ (o.mtp /\ vision => residency.weights = TotalSize)
  <2>1. ledger # None /\ residency.weights = Disk(rows, o.mtp, vision)
    BY <1>2, <1>5, <1>6, <1>8, <1>10
  <2>2. o.mtp /\ vision => o.mtp = TRUE /\ vision = TRUE
    BY <1>3 DEF Options
  <2> QED
    BY <1>2, <1>10, <2>1, <2>2
<1> QED
  BY <1>1, <1>4, <1>8, <1>9, <1>10 DEF PlansAddUp, rows, reserved

\* On every inventory a run of the audit leaves behind, whole or torn, and for all
\* options, the running totals of model_residency_plan give the weights that
\* native_loader_ledger sums up by component, and a complete one total_size.
THEOREM PlansAddUpHolds == ToolsSpec => []PlansAddUp
<1>1. ToolsInit => PlansAddUp
  BY DEF ToolsInit, PlansAddUp, Ran
<1>2. ToolsInv /\ PlansAddUp /\ [ToolsNext]_toolVars => PlansAddUp'
  <2> SUFFICES ASSUME ToolsInv, PlansAddUp, [ToolsNext]_toolVars PROVE PlansAddUp'
    OBVIOUS
  <2>1. CASE UNCHANGED toolVars
    BY <2>1 DEF toolVars, auditVars, disk, PlansAddUp, Ran
  <2>2. CASE ~Ran("plan")'
    BY <2>2 DEF PlansAddUp
  <2>3. report' = None => ~Ran("plan")'
    BY DEF Ran
  <2>4. ASSUME NEW profile \in Profiles, ValidateProfile(profile) PROVE ~Ran("plan")'
    BY <2>4 DEF ValidateProfile, Report, Ran
  <2>5. ASSUME NEW case, NEW response, NEW run, Grade(case, response, run) PROVE ~Ran("plan")'
    BY <2>5 DEF Grade, Report, Ran
  <2>6. ASSUME NEW p, NEW q, ComputeLaw(p, q) PROVE ~Ran("plan")'
    BY <2>6 DEF ComputeLaw, Report, Ran
  <2> QED
    BY <2>1, <2>2, <2>3, <2>4, <2>5, <2>6, PlanStep, ToolsCases
<1> QED
  BY <1>1, <1>2, ToolsStart, ToolsStep, PTL DEF ToolsSpec

\* What the preflight accepts of any inventory, it accepts with less.
THEOREM ProfileHoldsBelowHolds == ToolsSpec => []ProfileHoldsBelow
<1>1. ToolsInit => ProfileHoldsBelow
  BY DEF ToolsInit, ProfileHoldsBelow, Ran
<1>2. ToolsInv /\ ProfileHoldsBelow /\ [ToolsNext]_toolVars => ProfileHoldsBelow'
  <2> SUFFICES ASSUME ToolsInv, ProfileHoldsBelow, [ToolsNext]_toolVars PROVE ProfileHoldsBelow'
    OBVIOUS
  <2>1. CASE UNCHANGED toolVars
    BY <2>1 DEF toolVars, auditVars, disk, ProfileHoldsBelow, Ran
  <2>2. CASE ~Ran("preflight")'
    BY <2>2 DEF ProfileHoldsBelow
  <2>3. report' = None => ~Ran("preflight")'
    BY DEF Ran
  <2>4. ASSUME csv # None, UNCHANGED auditVars, NEW profile \in Profiles, ValidateProfile(profile)
        PROVE  ProfileHoldsBelow'
    <3>1. /\ csv' = csv /\ report'.profile = profile
          /\ report'.accepted = ProfileAccepted(csv.rows, profile)
      BY <2>4 DEF ValidateProfile, Report, auditVars, disk
    <3>2. Priced(csv.rows)
      BY <2>4 DEF ToolsInv, CsvInv, Kept
    <3>3. Profiles \subseteq [context : Nat \ {0}, nominal_gpu : Nat \ {0}, floor : Nat]
      BY OptionsAssumption
    <3>4. ASSUME NEW other \in Profiles, ProfileAccepted(csv.rows, profile),
                 other.context <= profile.context, other.floor <= profile.floor,
                 other.nominal_gpu = profile.nominal_gpu
          PROVE  ProfileAccepted(csv.rows, other)
      BY <3>2, <3>3, <3>4, AcceptedBelow
    <3> QED
      BY <3>1, <3>4 DEF ProfileHoldsBelow
  <2>5. ASSUME NEW o, NEW vision, NEW staging, PlanMemory(o, vision, staging)
        PROVE  ~Ran("preflight")'
    BY <2>5 DEF PlanMemory, Report, Ran
  <2>6. ASSUME NEW case, NEW response, NEW run, Grade(case, response, run)
        PROVE  ~Ran("preflight")'
    BY <2>6 DEF Grade, Report, Ran
  <2>7. ASSUME NEW p, NEW q, ComputeLaw(p, q) PROVE ~Ran("preflight")'
    BY <2>7 DEF ComputeLaw, Report, Ran
  <2> QED
    BY <2>1, <2>2, <2>3, <2>4, <2>5, <2>6, <2>7, ToolsCases
<1> QED
  BY <1>1, <1>2, ToolsStart, ToolsStep, PTL DEF ToolsSpec

\* The sampling laws hold of every pair of distributions over any finite set of
\* tokens, at any precision.
THEOREM OutputLawHolds == ToolsSpec => []OutputLaw
<1>1. ToolsInit => OutputLaw
  BY DEF ToolsInit, OutputLaw, Ran
<1>2. OutputLaw /\ [ToolsNext]_toolVars => OutputLaw'
  <2> SUFFICES ASSUME OutputLaw, [ToolsNext]_toolVars PROVE OutputLaw'
    OBVIOUS
  <2>1. CASE UNCHANGED toolVars
    BY <2>1 DEF toolVars, OutputLaw, Ran
  <2>2. CASE ~Ran("spec_math")'
    BY <2>2 DEF OutputLaw
  <2>3. report' = None => ~Ran("spec_math")'
    BY DEF Ran
  <2>4. ASSUME NEW profile \in Profiles, ValidateProfile(profile) PROVE ~Ran("spec_math")'
    BY <2>4 DEF ValidateProfile, Report, Ran
  <2>5. ASSUME NEW o, NEW vision, NEW staging, PlanMemory(o, vision, staging)
        PROVE  ~Ran("spec_math")'
    BY <2>5 DEF PlanMemory, Report, Ran
  <2>6. ASSUME NEW case, NEW response, NEW run, Grade(case, response, run)
        PROVE  ~Ran("spec_math")'
    BY <2>6 DEF Grade, Report, Ran
  <2>7. ASSUME NEW p \in Distribution, NEW q \in Distribution, ComputeLaw(p, q) PROVE OutputLaw'
    <3>1. report'.p = p /\ report'.q = q
      BY <2>7 DEF ComputeLaw, Report
    <3>2. p \in [Tokens -> 0..Whole] /\ q \in [Tokens -> 0..Whole]
      BY DEF Distribution
    <3>3. TargetLaw(p, q) /\ CoupledLaw(p, q)
      BY <3>2, TargetLawHolds, CoupledLawHolds
    <3> QED
      BY <3>1, <3>3 DEF OutputLaw
  <2> QED
    BY <2>1, <2>2, <2>3, <2>4, <2>5, <2>6, <2>7, ToolsCases
<1> QED
  BY <1>1, <1>2, PTL DEF ToolsSpec

\* A grade means the contract of its case, for every suite and every answer the
\* parser can follow, however deep both are.
THEOREM GradesMeanContractsHolds == ToolsSpec => []GradesMeanContracts
<1>1. ToolsInit => GradesMeanContracts
  BY DEF ToolsInit, GradesMeanContracts, Ran
<1>2. GradesMeanContracts /\ [ToolsNext]_toolVars => GradesMeanContracts'
  <2> SUFFICES ASSUME GradesMeanContracts, [ToolsNext]_toolVars PROVE GradesMeanContracts'
    OBVIOUS
  <2>1. CASE UNCHANGED toolVars
    BY <2>1 DEF toolVars, GradesMeanContracts, Ran
  <2>2. CASE ~Ran("judge")'
    BY <2>2 DEF GradesMeanContracts
  <2>3. report' = None => ~Ran("judge")'
    BY DEF Ran
  <2>4. ASSUME NEW profile \in Profiles, ValidateProfile(profile) PROVE ~Ran("judge")'
    BY <2>4 DEF ValidateProfile, Report, Ran
  <2>5. ASSUME NEW o, NEW vision, NEW staging, PlanMemory(o, vision, staging) PROVE ~Ran("judge")'
    BY <2>5 DEF PlanMemory, Report, Ran
  <2>6. ASSUME NEW p, NEW q, ComputeLaw(p, q) PROVE ~Ran("judge")'
    BY <2>6 DEF ComputeLaw, Report, Ran
  <2>7. ASSUME NEW tried \in SuiteCases, NEW response \in tried.responses, NEW run \in ContainerRuns,
               Grade(tried.case, response, run)
        PROVE  GradesMeanContracts'
    <3>1. /\ run # NoReceipt => tried.case.kind = "python_syntax"
          /\ report'.case = tried.case /\ report'.response = response /\ report'.run = run
      BY <2>7 DEF Grade, Report
    <3>2. PassMeansContract(tried.case, response, run)
      BY <3>1, GradeMeansContract
    <3> QED
      BY <3>1, <3>2 DEF GradesMeanContracts
  <2> QED
    BY <2>1, <2>2, <2>3, <2>4, <2>5, <2>6, <2>7, ToolsCases
<1> QED
  BY <1>1, <1>2, PTL DEF ToolsSpec
===============================================================================
