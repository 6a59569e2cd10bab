------------------------------ MODULE MemoryPlan ------------------------------
(***************************************************************************)
(* The arithmetic of the offline memory planners: the cache allocation of  *)
(* tools/static_memory_budget.py, the two budgets built on it              *)
(* (tools/native_loader_ledger.py and tools/model_residency_plan.py) and   *)
(* the decision that tools/serving_preflight.py:validate_profile takes     *)
(* from one of them.  Geometry, page size and MiB are constants; a model   *)
(* configuration the code refuses is no Geometry.                          *)
(***************************************************************************)
EXTENDS Integers, Sequences, FiniteSetsExt, Functions

CONSTANTS
  PageSize,     \* cache tokens are allocated in pages
  Slice,        \* columns of a reconstructed matrix held at once
  MIB,
  g,            \* geometry(config)
  Vocab, Hidden, \* vocab_size and hidden_size of config
  Embed         \* the embedding tensor

Geometry == [full : Nat, gdn : Nat, heads : Nat, dim : Nat, gk : Nat, gv : Nat,
             dk : Nat, dv : Nat, conv : Nat, mtp_layers : Nat]

ASSUME GeometryAssumption == g \in Geometry /\ (g.heads * g.dim) % 32 = 0

ASSUME PageAssumption == PageSize \in Nat \ {0} /\ Slice \in Nat /\ MIB \in Nat \ {0}

\* The options of a plan that estimate accepts.
Options == [context : Nat \ {0}, k_bits : 2..8, v_bits : 2..8, mtp : BOOLEAN,
            history : Nat, slots : Nat \ {0}]

-------------------------------------------------------------------------------
(* estimate                                                                *)

Values == g.heads * g.dim

\* Deviation: one page too many for a full last page.
PagesMore(context) == (context \div PageSize) + 1

\* Deviation: what is over the last full page counts as pages.
PagesRemainder(context) == (context \div PageSize) + (context % PageSize)

Pages(context) == (context + PageSize - 1) \div PageSize

TokensAlloc(context) == Pages(context) * PageSize

PerLayer(o) == ((Values * (o.k_bits + o.v_bits)) \div 8) + (4 * (Values \div 32))

CacheTarget(o) == TokensAlloc(o.context) * PerLayer(o) * g.full

CacheDraft(o) == TokensAlloc(o.context) * PerLayer(o) * (IF o.mtp THEN g.mtp_layers ELSE 0)

Matrix(o) == o.slots * (o.history + 1) * g.gdn * (g.gv * g.dk * g.dv * 4)

Channels == (2 * g.gk * g.dk) + (g.gv * g.dv)

Conv(o) == o.slots * g.gdn * Channels * (g.conv + o.history) * 2

KnownResident(o) == CacheTarget(o) + CacheDraft(o) + Matrix(o) + Conv(o)

-------------------------------------------------------------------------------
(* The tensor inventory both budgets read, each in its own way.            *)

Groups == {"text", "output_head", "mtp", "vision"}

BytesOf(rows) == SumFunction([row \in rows |-> row.bytes])

RowsOf(csv) == {csv[i] : i \in DOMAIN csv}

-------------------------------------------------------------------------------
(* native_loader_ledger: the embedding stays in CPU memory.                *)

Serialized(csv, component) == BytesOf({row \in RowsOf(csv) : row.component = component})

Components(mtp, vision) == {"text", "output_head"} \cup (IF mtp THEN {"mtp"} ELSE {})
                                                   \cup (IF vision THEN {"vision"} ELSE {})

\* Payload of the components a plan loads.
Disk(csv, mtp, vision) ==
  SumFunction([c \in Components(mtp, vision) |-> Serialized(csv, c)])

EmbedRows(csv) == {row \in RowsOf(csv) : row.tensor = Embed}

CpuEmbedding(csv) == BytesOf(EmbedRows(csv))

\* No name repeats, the embedding is there and is what the loader expects, and
\* the matrices of the trellises, which it reconstructs, are known.
Inventoried(csv) ==
  /\ \A i, j \in DOMAIN csv : i # j => csv[i].tensor # csv[j].tensor
  /\ \A row \in RowsOf(csv) : row.component \in Groups
  /\ EmbedRows(csv) # {}
  /\ \A row \in EmbedRows(csv) : /\ row.component = "text" /\ row.dtype = "BF16"
                                 /\ row.shape = <<Vocab, Hidden>>
  /\ CpuEmbedding(csv) \in 1..Serialized(csv, "text")
  /\ \A row \in RowsOf(csv) : row.trellis =>
       /\ row.format \in {"exl3", "exl3_header_inferred"}
       /\ row.in_features >= 1 /\ row.out_features >= 1

SmallerOf(m, n) == IF m <= n THEN m ELSE n

\* The largest matrix of these components, as one fp16 slice.
Reconstructed(csv, components) ==
  Max({0} \cup {2 * row.in_features * SmallerOf(row.out_features, Slice) :
                  row \in {r \in RowsOf(csv) : r.trellis /\ r.component \in components}})

\* 1 << (pages - 1).bit_length()
RoundedPages(pages) ==
  LET shifted[n \in 0..pages] == IF n = 0 THEN 1 ELSE 2 * shifted[n - 1]
      enough == {n \in 0..pages : shifted[n] >= pages}
  IN  shifted[CHOOSE n \in enough : \A m \in enough : n <= m]

FallbackPool(context) == TokensAlloc(context) * Values * 4

StagingCeiling(context, staging) ==
  IF staging = 1 THEN RoundedPages(Pages(context)) * PageSize * Values * 4 ELSE 0

\* What it reports, in bytes.
Ledger == [disk : Int, gpu : Int, reconstruct : Int, reconstruct_other : Int,
           staging : Int, fallback : Int, optimistic : Int]

Scenario(csv, o, vision, staging) ==
  LET gpu == Disk(csv, o.mtp, vision) - CpuEmbedding(csv) IN
  [disk |-> Disk(csv, o.mtp, vision), gpu |-> gpu,
   reconstruct |-> Reconstructed(csv, Components(o.mtp, vision)),
   reconstruct_other |-> Reconstructed(csv, Components(o.mtp, vision) \ {"output_head"}),
   staging |-> StagingCeiling(o.context, staging), fallback |-> FallbackPool(o.context),
   optimistic |-> gpu + KnownResident(o)]

-------------------------------------------------------------------------------
(* model_residency_plan: everything is on the GPU, the embedding too.      *)

\* Names repeat, the component is unknown, or there is no row.
Manifest(csv) == /\ csv # <<>>
                 /\ \A i, j \in DOMAIN csv : csv[i].tensor = csv[j].tensor => i = j
                 /\ \A row \in RowsOf(csv) : row.component \in Groups

\* The bytes of each component, row after row.
Totals(csv) ==
  LET totals[n \in 0..Len(csv)] ==
        IF n = 0 THEN [c \in Groups |-> 0]
        ELSE [totals[n - 1] EXCEPT ![csv[n].component] = @ + csv[n].bytes]
  IN  totals[Len(csv)]

\* Deviation: vision is looked at only where MTP is loaded.
ActiveNested(mtp, vision) ==
  <<"text", "output_head">> \o (IF mtp THEN <<"mtp">> \o (IF vision THEN <<"vision">> ELSE <<>>)
                                ELSE <<>>)

Active(mtp, vision) ==
  <<"text", "output_head">> \o (IF mtp THEN <<"mtp">> ELSE <<>>)
                            \o (IF vision THEN <<"vision">> ELSE <<>>)

Weights(csv, mtp, vision) ==
  LET active == Active(mtp, vision)   totals == Totals(csv)
  IN  SumFunction([i \in DOMAIN active |-> totals[active[i]]])

Residency == [weights : Int, optimistic : Int]

ResidencyPlan(csv, o, vision) ==
  [weights |-> Weights(csv, o.mtp, vision),
   optimistic |-> Weights(csv, o.mtp, vision) + KnownResident(o)]

-------------------------------------------------------------------------------
(* validate_profile: text and MTP, quantized 6/5-bit cache, one slot, no   *)
(* staging; what is left of the card after all that is known.              *)

ProfileOptions(context) == [context |-> context, k_bits |-> 6, v_bits |-> 5,
                            mtp |-> TRUE, history |-> 4, slots |-> 1]

Unbudgeted(csv, profile) ==
  (profile.nominal_gpu * MIB)
    - Scenario(csv, ProfileOptions(profile.context), FALSE, 0).optimistic

ProfileAccepted(csv, profile) ==
  Inventoried(csv) /\ Unbudgeted(csv, profile) >= profile.floor * MIB
===============================================================================
