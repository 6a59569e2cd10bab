----------------------------- MODULE OfflineTools -----------------------------
(***************************************************************************)
(* The programs that never contact a model or a GPU, each a process of its *)
(* own: the header audit writes an inventory, over and over, and the       *)
(* planners and the preflight read whichever is there; answers are graded; *)
(* the sampling law is computed.  A planner, a grading or a computation is *)
(* one step, since nothing it reads changes under it, and its report is    *)
(* the end of the behaviour.                                               *)
(***************************************************************************)
EXTENDS HeaderAudit, MemoryPlan, SpecMath, AnswerGrading

CONSTANTS
  PlanOptions,    \* options of the two planners, in Options
  Profiles,       \* serving profiles: [context, nominal_gpu, floor]
  SuiteCases,     \* cases of a suite with the responses tried on each
  ContainerRuns   \* what a container may report

ASSUME OptionsAssumption ==
  /\ PlanOptions \subseteq Options
  /\ Profiles \subseteq [context : Nat \ {0}, nominal_gpu : Nat \ {0}, floor : Nat]

\* Whatever version the server has: the model is the one of the configuration,
\* and no trellis is empty.
ASSUME CheckpointAssumption ==
  /\ Vocab \in Nat \ {0} /\ Hidden \in Nat \ {0}
  /\ \A n \in IndexNames : Component[n] \in {"text", "output_head", "mtp", "vision"}
  /\ Embed \in IndexNames \ Trellises /\ Component[Embed] = "text"
  /\ \A v \in Versions, s \in Shard : \A n \in DOMAIN Layout[v][s].tensors :
       LET meta == Layout[v][s].tensors[n] IN
       /\ n = Embed => meta.dtype = "BF16" /\ meta.shape = <<Vocab, Hidden>>
       /\ n \in Trellises => \A d \in DOMAIN meta.shape : meta.shape[d] > 0

ASSUME NoneAssumption == None \notin Ledger \cup Residency

\* Contracts and responses are values the parser can follow, a tool's arguments
\* are an object, and a receipt is not the absence of one.
ASSUME SuiteAssumption ==
  /\ NotJson \notin Json
  /\ \A tried \in SuiteCases :
       /\ tried.case.kind \in {"exact", "json_contract", "tool_call", "python_syntax"}
       /\ tried.case.kind = "json_contract" => tried.case.expected \in Json
       /\ tried.case.kind = "tool_call" => /\ tried.case.arguments.tag = "dict"
                                          /\ ExpectedCall(tried.case) \in Json
       /\ \A response \in tried.responses :
            /\ response.json \in Json \cup {NotJson}
            /\ tried.case.kind = "python_syntax" =>
                 \A run \in ContainerRuns \ {NoReceipt} :
                   RunInContainer(response, tried.case, run) # NoReceipt

VARIABLE report   \* of the last tool; None while the audit goes on

toolVars == <<auditVars, report>>

ToolsInit == AuditInit /\ report = None

Report(r) == report' = r /\ UNCHANGED auditVars

Untouched == runs = 0 /\ changes = 0 /\ remote = Local

\* tools.native_loader_ledger and tools.model_residency_plan on one inventory;
\* either refuses an inventory it cannot account for.
PlanMemory(o, vision, staging) ==
  Report([tool |-> "plan", options |-> o, vision |-> vision, staging |-> staging,
          ledger |-> IF Inventoried(csv.rows) THEN Scenario(csv.rows, o, vision, staging)
                     ELSE None,
          residency |-> IF Manifest(csv.rows) THEN ResidencyPlan(csv.rows, o, vision)
                        ELSE None])

ValidateProfile(profile) ==
  Report([tool |-> "preflight", profile |-> profile,
          accepted |-> ProfileAccepted(csv.rows, profile)])

\* The collector runs a container for source code, if it was given an image.
Grade(case, response, run) ==
  /\ run # NoReceipt => case.kind = "python_syntax"
  /\ Report([tool |-> "judge", case |-> case, response |-> response, run |-> run])

ComputeLaw(p, q) == Report([tool |-> "spec_math", p |-> p, q |-> q])

ToolsNext ==
  /\ report = None
  /\ \/ AuditNext /\ UNCHANGED report
     \/ /\ at = "idle" /\ csv # None
        /\ \/ \E o \in PlanOptions, vision \in BOOLEAN, staging \in 0..1 :
                PlanMemory(o, vision, staging)
           \/ \E profile \in Profiles : ValidateProfile(profile)
     \/ /\ Untouched
        /\ \/ \E tried \in SuiteCases : \E response \in tried.responses, run \in ContainerRuns :
                Grade(tried.case, response, run)
           \/ \E p, q \in Distribution : ComputeLaw(p, q)

ToolsSpec == ToolsInit /\ [][ToolsNext]_toolVars

-------------------------------------------------------------------------------
(* Properties.                                                             *)

Ran(tool) == report # None /\ report.tool = tool

\* Every file is absent or holds something a run of the tool can have written,
\* and a run ends in one of four ways.
ToolsTypeOK ==
  /\ remote \in Versions /\ changes \in 0..MaxChanges /\ runs \in 0..MaxRuns
  /\ \A s \in Shard : /\ headers[s] # None => /\ headers[s].ver \in Versions
                                              /\ headers[s].bytes \in Nat
                      /\ sizes[s] \in Nat \cup {None, Bad}
                      /\ sizes[s] # None => headers[s] # None
  /\ csv # None => Len(csv.rows) <= Len(Tensors)
  /\ at \in {"idle", "prefix", "header", "header file", "size file", "read", "audit", "csv"}
  /\ shard \in DOMAIN Shards
  /\ outcome \in {"none", "running", "accepted", "rejected", "aborted"}
  /\ at = "idle" <=> outcome # "running"

\* Two planners count one inventory, each with code of its own: one keeps running
\* totals and adds up the list of components that plan builds, the other groups
\* the rows and adds up the tuple that scenario builds.  What the second accepts
\* the first accepts, and they agree on the weights they load, and up to the
\* embedding that one of them leaves in CPU memory.  The weights of all components
\* of an inventory written to its end are the index's total_size, however many
\* runs, crashes and changes of the server it took.  Both reserve the least whole
\* number of pages that holds the context, and a staged window is never smaller
\* than the pool it stands in for.
PlansAddUp ==
  Ran("plan") =>
    /\ report.ledger # None =>
         /\ report.residency # None
         /\ report.ledger.disk = report.residency.weights
         /\ report.ledger.optimistic + CpuEmbedding(csv.rows) = report.residency.optimistic
         /\ report.staging = 1 => report.ledger.staging >= report.ledger.fallback
         /\ LET reserved == TokensAlloc(report.options.context) IN
            /\ reserved % PageSize = 0
            /\ reserved - report.options.context \in 0..PageSize - 1
    /\ csv.whole => /\ report.ledger # None
                    /\ report.options.mtp /\ report.vision => report.residency.weights = TotalSize

\* A profile the preflight accepts stays acceptable with any smaller context or
\* lower floor: the context is rounded, added up and compared in one direction.
ProfileHoldsBelow ==
  Ran("preflight") /\ report.accepted =>
    \A profile \in Profiles :
      /\ profile.context <= report.profile.context
      /\ profile.floor <= report.profile.floor
      /\ profile.nominal_gpu = report.profile.nominal_gpu
      => ProfileAccepted(csv.rows, profile)

\* The law and the coupling of every pair of distributions.
OutputLaw == Ran("spec_math") => TargetLaw(report.p, report.q) /\ CoupledLaw(report.p, report.q)

\* Every grade of an answer.
GradesMeanContracts ==
  Ran("judge") => PassMeansContract(report.case, report.response, report.run)
===============================================================================
