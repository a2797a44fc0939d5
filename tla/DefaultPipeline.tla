--------------------------- MODULE DefaultPipeline ---------------------------
(***************************************************************************)
(* PassManager with the passes Pipeline::register_default_passes gives it, *)
(* in its order: the dependencies each declares, and what its run does to  *)
(* the blackboard.  Keys that only the client reads are left out, and so   *)
(* is "ir_module", which is there before the first pass.  A pass that      *)
(* reports issues emits one; the default passes return no error.           *)
(***************************************************************************)
EXTENDS PassManager

OneIssue == <<[gated |-> TRUE, internal |-> FALSE]>>

RunsWith(name, deps, reads, fresh, extended, issues) ==
  [name |-> name, deps |-> deps,
   effect |-> [reads |-> reads, fresh |-> fresh, extended |-> extended,
               issues |-> issues, mayFail |-> FALSE]]

Facts == {"RawFactCollector"}

CallGraph ==
  RunsWith("CallGraph", {}, {"module_index"}, {"call_graph_edges", "cross_lang_edges"}, {}, <<>>)

FFIBoundary ==
  RunsWith("FFIBoundary", Facts, {"module_index", "cross_lang_edges"}, {}, {}, OneIssue)

SurfaceClassifier ==
  RunsWith("SurfaceClassifier", {"CallGraph"}, {"module_index", "cross_lang_edges"}, {}, {}, <<>>)

DangerSurface ==
  RunsWith("DangerSurface", {"CallGraph", "FFIBoundary"}, {"cross_lang_edges"}, {}, {}, <<>>)

RawFactCollector ==
  RunsWith("RawFactCollector", {}, {"module_index"}, {"raw_resource_facts"}, {}, <<>>)

IRBehaviorSummary ==
  RunsWith("IRBehaviorSummary", Facts, {"summary_store"},
           {"function_behaviors", "semantic_facts"}, {"summary_store"}, <<>>)

LanguageAdapterFact ==
  RunsWith("LanguageAdapterFact", {"ModuleIndex"}, {"module_index", "semantic_facts"},
           {}, {"semantic_facts"}, <<>>)

AbiLayout ==
  RunsWith("AbiLayout", Facts, {"semantic_facts"}, {}, {"semantic_facts"}, <<>>)

SummaryBuilder ==
  RunsWith("SummaryBuilder", Facts, {"function_behaviors"},
           {"family_registry", "summary_store"}, {}, <<>>)

StructuralInference ==
  RunsWith("StructuralInference", {"SummaryBuilder"},
           {"family_registry", "summary_store", "function_behaviors", "raw_resource_facts",
            "semantic_facts"},
           {"srt_resolutions", "srt_facts"}, {"summary_store"}, <<>>)

ContractGraphBuilder ==
  RunsWith("ContractGraphBuilder", {"StructuralInference"},
           {"raw_resource_facts", "summary_store"}, {"contract_graph", "memory_graph"}, {}, <<>>)

OwnershipSolver ==
  RunsWith("OwnershipSolver", {"ContractGraphBuilder"}, {"contract_graph"},
           {"ownership_states", "pointer_states"}, {}, <<>>)

CrossFunctionLifetime ==
  RunsWith("CrossFunctionLifetime", {"ModuleIndex", "RawFactCollector"}, {"module_index"},
           {}, {}, <<>>)

IssueCandidateBuilder ==
  RunsWith("IssueCandidateBuilder", {"OwnershipSolver"},
           {"contract_graph", "ownership_states", "family_registry", "semantic_facts"},
           {"issue_candidates"}, {}, <<>>)

IssueVerifier ==
  RunsWith("IssueVerifier", {"IssueCandidateBuilder", "FfiReturnCheck", "LeakDetection"},
           {"issue_candidates", "ffi_return_candidates", "leak_candidates", "family_registry",
            "memory_graph", "null_checked_functions", "srt_resolutions", "srt_facts"},
           {}, {"srt_resolutions"}, OneIssue)

LeakDetection ==
  RunsWith("LeakDetection", {"OwnershipSolver"},
           {"contract_graph", "summary_store", "srt_resolutions", "raw_resource_facts",
            "call_graph_edges", "pointer_states"}, {"leak_candidates"}, {}, <<>>)

(* These three read the IR and store a tree that no other pass reads. *)
TreePass(name) == RunsWith(name, Facts, {}, {}, {}, <<>>)

BorrowEscape == RunsWith("BorrowEscape", Facts, {"module_index"}, {}, {}, OneIssue)

WriteToImmutable == RunsWith("WriteToImmutable", Facts, {"module_index"}, {}, {}, OneIssue)

FfiReturnCheck ==
  RunsWith("FfiReturnCheck", {}, {"module_index"},
           {"null_checked_functions", "ffi_return_candidates"}, {}, <<>>)

register_default_passes ==
  << CallGraph, FFIBoundary, SurfaceClassifier, DangerSurface, RawFactCollector,
     IRBehaviorSummary, LanguageAdapterFact, AbiLayout, SummaryBuilder, StructuralInference,
     ContractGraphBuilder, OwnershipSolver, CrossFunctionLifetime, IssueCandidateBuilder,
     IssueVerifier, LeakDetection, TreePass("RaiiDrop"), TreePass("InteriorMutability"),
     TreePass("HeapProvenance"), BorrowEscape, WriteToImmutable, FfiReturnCheck >>

-----------------------------------------------------------------------------
(* The constants of PassManager: the passes as they are, registered once. *)

All == {register_default_passes[i] : i \in DOMAIN register_default_passes}

PipelineName == {p.name : p \in All} \cup {"ModuleIndex"}

PipelineDecl == {[name |-> p.name, deps |-> p.deps] : p \in All}

PipelineRegistrations ==
  {[i \in DOMAIN register_default_passes |->
      [name |-> register_default_passes[i].name, deps |-> register_default_passes[i].deps]]}

PipelineEffect ==
  [n \in PipelineName |-> IF n = "ModuleIndex"
                            THEN RunsWith(n, {}, {}, {}, {}, <<>>).effect
                            ELSE (CHOOSE p \in All : p.name = n).effect]

PipelineKey == UNION {p.effect.reads \cup p.effect.fresh \cup p.effect.extended : p \in All}

-----------------------------------------------------------------------------
FactWriters == {n \in Registered : "semantic_facts" \in Outputs(n)}

NamesRan(rs) == {rs[i].name : i \in DOMAIN rs}

(***************************************************************************)
(* "semantic_facts" has three writers, each of which keeps the facts of    *)
(* those before it: whoever reads the key finds the facts of all that have *)
(* run, and so does the end of the run.                                    *)
(***************************************************************************)
SemanticFactsComplete ==
  /\ FactWriters \cap NamesRan(results) \subseteq ctx.shared["semantic_facts"]
  /\ \A j \in DOMAIN results : "semantic_facts" \in Effect[results[j].name].reads =>
       FactWriters \cap NamesRan(SubSeq(results, 1, j - 1))
         \subseteq results[j].saw["semantic_facts"]

(***************************************************************************)
(* One after the other the passes lose no facts: SemanticFactsComplete     *)
(* holds at every step of a sequential run.                                *)
(***************************************************************************)
SequentialFactsComplete == pc = "sequence" => SemanticFactsComplete

=============================================================================
