------------------------------ MODULE HeaderAudit ------------------------------
(***************************************************************************)
(* tools/safetensors_header_audit.py, run again and again over one         *)
(* metadata directory: with --fetch-headers it asks the server for eight   *)
(* bytes and then for the header of each shard, keeps header and length in *)
(* two files, and reads them back; without it, it reads what is there.     *)
(* Then the headers are reconciled with the index and the quantization     *)
(* metadata, and the inventory is written as CSV.                          *)
(*                                                                         *)
(* The environment replaces the file on the server between any two         *)
(* requests, and ends the process anywhere, inside a write included.       *)
(* Index and quantization metadata are those of one version, downloaded by *)
(* hand.  A header is the version it comes from and how much of it is      *)
(* there: it is JSON, followed by spaces that may be missing.              *)
(***************************************************************************)
EXTENDS Naturals, Sequences, SequencesExt

CONSTANTS
  Shards,        \* the shards of the index, sorted
  Tensors,       \* all tensor names, sorted
  Versions,      \* contents the server has had
  Layout,        \* version, shard -> [json, pad, tensors]: lengths and entries
  Local,         \* the version of index and quantization metadata
  Described,     \* tensors the quantization metadata lists
  Component,     \* component of a tensor name
  Bits,          \* bits per weight of the trellises it describes
  Companions,    \* trellis -> its .mul1, .suh and .svh tensors
  MaxHeader,     \* the longest header that is asked for
  MaxRuns, MaxChanges,  \* bounds: runs of the tool, changes of the server
  None,          \* no such file
  Bad            \* text that is no number

Shard == {Shards[n] : n \in DOMAIN Shards}
Trellises == DOMAIN Companions

DtypeBytes == [F32 |-> 4, I32 |-> 4, F16 |-> 2, BF16 |-> 2, I16 |-> 2]

\* An entry of a header.
Entry == [dtype : DOMAIN DtypeBytes, shape : Seq(Nat), start : Nat, end : Nat]

Bytes(meta) == FoldLeft(LAMBDA n, dim : n * dim, DtypeBytes[meta.dtype], meta.shape)

LastEnd(v, s) == Max({Layout[v][s].tensors[n].end : n \in DOMAIN Layout[v][s].tensors})

HeaderLength(v, s) == Layout[v][s].json + Layout[v][s].pad

FileLength(v, s) == 8 + HeaderLength(v, s) + LastEnd(v, s)

ASSUME BoundsAssumption == MaxHeader \in Nat /\ MaxRuns \in Nat /\ MaxChanges \in Nat

ASSUME ShardsAssumption ==
  /\ Len(Shards) \in Nat \ {0} /\ DOMAIN Shards = 1..Len(Shards)
  /\ \A m, n \in DOMAIN Shards : Shards[m] = Shards[n] => m = n

\* What a header file holds, once it is there.
Header == [ver : Versions, bytes : Nat]

ASSUME LayoutAssumption ==
  /\ Local \in Versions
  /\ Described \subseteq DOMAIN Component
  /\ \A v \in Versions, s \in Shard : /\ DOMAIN Layout[v][s].tensors # {}
                                       /\ LastEnd(v, s) \in Nat
                                       /\ Layout[v][s].json \in Nat /\ Layout[v][s].pad \in Nat
  /\ None \notin Nat \cup Header /\ Bad \notin Nat \cup {None}

ASSUME TensorsAssumption ==
  /\ Len(Tensors) \in Nat /\ DOMAIN Tensors = 1..Len(Tensors)
  /\ \A m, n \in DOMAIN Tensors : Tensors[m] = Tensors[n] => m = n
  /\ \A v \in Versions, s \in Shard :
       /\ DOMAIN Layout[v][s].tensors \subseteq {Tensors[n] : n \in DOMAIN Tensors}
       /\ \A n \in DOMAIN Layout[v][s].tensors : Layout[v][s].tensors[n] \in Entry

VARIABLES
  remote,    \* the version the server has
  changes,   \* how often that changed
  headers,   \* shard -> header file: [ver, bytes], or None
  sizes,     \* shard -> size file: a number, Bad, or None
  csv,       \* the inventory: [rows, whole], or None
  at,        \* where the process is; "idle" between runs
  shard,     \* the shard it is at
  got,       \* what the last request returned
  fetching,  \* --fetch-headers
  outcome,   \* how the last run ended
  runs,      \* runs so far
  steady     \* history: the server did not change during this run

disk == <<headers, sizes, csv>>
auditVars == <<remote, changes, disk, at, shard, got, fetching, outcome, runs, steady>>

AuditInit == /\ remote \in Versions /\ changes = 0
             /\ headers = [s \in Shard |-> None]
             /\ sizes = [s \in Shard |-> None]
             /\ csv = None
             /\ at = "idle" /\ shard = 1 /\ got = None /\ fetching = FALSE
             /\ outcome = "none" /\ runs = 0 /\ steady = TRUE

-------------------------------------------------------------------------------
(* read_headers                                                            *)

This == Shards[shard]

\* Deviation: a header that is already there is not fetched again.
FirstCached(fetch, n) == IF fetch /\ headers[Shards[n]] = None THEN "prefix" ELSE "read"

First(fetch, n) == IF fetch THEN "prefix" ELSE "read"

Start(fetch) == /\ at = "idle" /\ runs < MaxRuns
                /\ fetching' = fetch /\ runs' = runs + 1
                /\ shard' = 1 /\ at' = First(fetch, 1)
                /\ outcome' = "running" /\ steady' = TRUE
                /\ UNCHANGED <<remote, changes, disk, got>>

GoTo(place) == at' = place /\ UNCHANGED <<remote, changes, shard, fetching, outcome, runs, steady>>

End(how) == /\ at' = "idle" /\ outcome' = how /\ got' = None
            /\ UNCHANGED <<remote, changes, shard, fetching, runs, steady>>

\* A header that is asked for has some JSON and leaves room for weights.
InBounds(n, length) == n \in 2..MaxHeader /\ n + 8 < length

\* Deviation: the length is stored as soon as it is known.
FetchPrefixStores ==
  /\ at = "prefix"
  /\ IF InBounds(HeaderLength(remote, This), FileLength(remote, This))
       THEN /\ got' = [n |-> HeaderLength(remote, This), length |-> FileLength(remote, This)]
            /\ sizes' = [sizes EXCEPT ![This] = got'.length]
            /\ GoTo("header")
       ELSE End("rejected") /\ UNCHANGED sizes
  /\ UNCHANGED <<headers, csv>>

\* The length of the header, and the length of the file from Content-Range.
FetchPrefix ==
  /\ at = "prefix"
  /\ IF InBounds(HeaderLength(remote, This), FileLength(remote, This))
       THEN /\ got' = [n |-> HeaderLength(remote, This), length |-> FileLength(remote, This)]
            /\ GoTo("header")
       ELSE End("rejected")
  /\ UNCHANGED disk

\* That many bytes of whatever the file is by now.
FetchHeader == /\ at = "header"
               /\ IF FileLength(remote, This) = got.length
                    THEN /\ got' = [got EXCEPT !.n = [ver |-> remote, bytes |-> got.n]]
                         /\ GoTo("header file")
                    ELSE End("rejected")
               /\ UNCHANGED disk

WriteHeader == /\ at = "header file"
               /\ headers' = [headers EXCEPT ![This] = got.n]
               /\ GoTo("size file") /\ UNCHANGED <<got, sizes, csv>>

\* What may be left of a header: nothing, or just its JSON.
TearHeader == /\ at = "header file"
              /\ \E b \in {0, Layout[got.n.ver][This].json} :
                   b < got.n.bytes /\ headers' = [headers EXCEPT ![This] = [got.n EXCEPT !.bytes = b]]
              /\ End("aborted") /\ UNCHANGED <<sizes, csv>>

WriteSize == /\ at = "size file"
             /\ sizes' = [sizes EXCEPT ![This] = got.length]
             /\ GoTo("read") /\ UNCHANGED <<got, headers, csv>>

\* The first digits of the number, or none.
TearSize == /\ at = "size file"
            /\ \E size \in {Bad, got.length \div 100, got.length \div 10} :
                 sizes' = [sizes EXCEPT ![This] = size]
            /\ End("aborted") /\ UNCHANGED <<headers, csv>>

\* All of the JSON and nothing but spaces after it.
IsJson(file, s) == file.bytes \in Layout[file.ver][s].json .. HeaderLength(file.ver, s)

Readable(s) == headers[s] # None /\ IsJson(headers[s], s) /\ sizes[s] # Bad

Read == /\ at = "read"
        /\ IF ~Readable(This) THEN End("rejected")
           ELSE IF shard = Len(Shards) THEN GoTo("audit") /\ UNCHANGED got
           ELSE /\ at' = First(fetching, shard + 1) /\ shard' = shard + 1
                /\ UNCHANGED <<remote, changes, got, fetching, outcome, runs, steady>>
        /\ UNCHANGED disk

-------------------------------------------------------------------------------
(* audit, the byte accounting of main, and inventory                       *)

Index == Layout[Local]
Entries(s) == Layout[headers[s].ver][s].tensors
Names(s) == DOMAIN Entries(s)
Found == UNION {Names(s) : s \in Shard}
ShardOf(n) == CHOOSE s \in Shard : n \in Names(s)
Meta(n) == Entries(ShardOf(n))[n]

IndexNames == UNION {DOMAIN Index[s].tensors : s \in Shard}
PayloadOf(tensors) == SumFunction([n \in DOMAIN tensors |-> Bytes(tensors[n])])
TotalSize == SumFunction([s \in Shard |-> PayloadOf(Index[s].tensors)])
Payload == SumFunction([s \in Shard |-> PayloadOf(Entries(s))])

Reconciled == Payload = TotalSize

Audited ==
  /\ \A s, t \in Shard : s # t => Names(s) \cap Names(t) = {}
  /\ \A s \in Shard : \A n \in Names(s) :
       /\ Entries(s)[n].end - Entries(s)[n].start = Bytes(Entries(s)[n])
       /\ n \in DOMAIN Index[s].tensors
  /\ \A s \in Shard : sizes[s] # None => LastEnd(headers[s].ver, s) <= sizes[s]
  /\ Found = IndexNames
  /\ Reconciled
  /\ \A s \in Shard : \A n \in Described \cap DOMAIN Index[s].tensors :
       /\ Entries(s)[n].dtype = Index[s].tensors[n].dtype
       /\ Entries(s)[n].shape = Index[s].tensors[n].shape

\* Deviation: only an overrun is noticed.
AccountedBelow == \A s \in Shard : sizes[s] # None =>
                    LastEnd(headers[s].ver, s) + 8 + headers[s].bytes <= sizes[s]

Accounted == \A s \in Shard : sizes[s] # None =>
               LastEnd(headers[s].ver, s) + 8 + headers[s].bytes = sizes[s]

\* A trellis that is not described has its bitrate inferred from its shape.
TrellisFits(n, shape, names) ==
  /\ Len(shape) = 3
  /\ IF n \in Described THEN shape[3] = 16 * Bits[n]
                        ELSE shape[3] % 16 = 0 /\ Companions[n] \subseteq names
  /\ (16 * shape[1]) % 128 = 0 /\ (16 * shape[2]) % 128 = 0

\* The version that index and metadata are of is one the tool accepts.
ASSUME PinnedAssumption ==
  /\ \A s, t \in Shard : s # t => DOMAIN Index[s].tensors \cap DOMAIN Index[t].tensors = {}
  /\ \A s \in Shard : InBounds(HeaderLength(Local, s), FileLength(Local, s))
  /\ \A s \in Shard : \A n \in DOMAIN Index[s].tensors :
       LET meta == Index[s].tensors[n] IN
       /\ meta.end - meta.start = Bytes(meta)
       /\ n \in Trellises => TrellisFits(n, meta.shape, IndexNames)

Row(n) == LET trellis == n \in Trellises   shape == Meta(n).shape IN
          [tensor |-> n, component |-> Component[n], dtype |-> Meta(n).dtype,
           shape |-> shape, bytes |-> Bytes(Meta(n)), trellis |-> trellis,
           format |-> IF n \in Described THEN "exl3"
                      ELSE IF trellis THEN "exl3_header_inferred" ELSE "",
           in_features |-> IF trellis THEN 16 * shape[1] ELSE None,
           out_features |-> IF trellis THEN 16 * shape[2] ELSE None]

\* The tensors of a set, sorted.
Sorted(names) ==
  LET taken[n \in 0..Len(Tensors)] ==
        IF n = 0 THEN <<>>
        ELSE IF Tensors[n] \in names THEN Append(taken[n - 1], Tensors[n])
        ELSE taken[n - 1]
  IN  taken[Len(Tensors)]

Rows == LET found == Sorted(Found) IN [i \in DOMAIN found |-> Row(found[i])]

Audit == /\ at = "audit"
         /\ IF Audited /\ Accounted /\ \A n \in Trellises \cap Found : TrellisFits(n, Meta(n).shape, Found)
              THEN \/ GoTo("csv") /\ UNCHANGED got
                   \/ End("accepted")   \* no --output-csv
              ELSE End("rejected")
         /\ UNCHANGED disk

WriteCsv == /\ at = "csv"
            /\ csv' = [rows |-> Rows, whole |-> TRUE]
            /\ End("accepted") /\ UNCHANGED <<headers, sizes>>

\* The first rows, and of the next one at most the columns up to a part of
\* its bytes.
TearCsv == /\ at = "csv"
           /\ \E n \in 0..Len(Rows) - 1 :
                LET whole == SubSeq(Rows, 1, n)
                    cut == [Rows[n + 1] EXCEPT !.bytes = @ \div 10, !.format = None]
                IN  \E rows \in {whole, Append(whole, cut)} :
                      csv' = [rows |-> rows, whole |-> FALSE]
           /\ End("aborted") /\ UNCHANGED <<headers, sizes>>

-------------------------------------------------------------------------------
Change(v) == /\ v # remote /\ changes < MaxChanges
             /\ remote' = v /\ changes' = changes + 1
             /\ steady' = FALSE
             /\ UNCHANGED <<disk, at, shard, got, fetching, outcome, runs>>

\* A timeout, a server without ranges, a signal.
Break == at # "idle" /\ End("aborted") /\ UNCHANGED disk

AuditNext == \/ \E fetch \in BOOLEAN : Start(fetch)
             \/ FetchPrefix \/ FetchHeader \/ WriteHeader \/ TearHeader
             \/ WriteSize \/ TearSize \/ Read \/ Audit \/ WriteCsv \/ TearCsv
             \/ Break \/ \E v \in Versions : Change(v)

AuditSpec == AuditInit /\ [][AuditNext]_auditVars

-------------------------------------------------------------------------------
(* Properties.                                                             *)

\* An audit that fetched and accepted has whole headers, and their lengths and
\* the lengths of the files are of one version of each shard, although eight
\* bytes, header and length were read and stored one after another.
FetchedIsWhole ==
  outcome = "accepted" /\ fetching =>
    \A s \in Shard : /\ headers[s].bytes = HeaderLength(headers[s].ver, s)
                     /\ sizes[s] = FileLength(headers[s].ver, s)

\* Nothing an earlier run left behind, torn or out of date, can make a fetching
\* run refuse a server that has what the index describes.
FetchHeals ==
  outcome = "rejected" /\ fetching => ~steady \/ remote # Local
===============================================================================
