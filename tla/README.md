# TLA+ models of OmniScope

OmniScope analyses LLVM IR for ownership errors at language boundaries: memory
that one side of an FFI call acquires and the other releases with the wrong
function, twice, or never. It is a Rust workspace under `src/crates`. This
directory holds TLA+ modules for the parts of it in which order, concurrency,
failure or a long sequence of calls decides the result, the TLC configurations
that check them on small instances, and proofs, checked by TLAPS, of what holds
for instances of every size.

`PROJECT.json` is the index: components, runs, the lines every definition
models (`map`), the hazards of the code with the properties that watch them,
and the theorems. Where code and documentation disagree is in section 5.

## 1. Inventory

Paths are below `src/crates`.

### The engine that runs passes

| Component | State | Operations | Hard behaviour | Correct when |
|---|---|---|---|---|
| Pass scheduling, `omniscope-pass/src/manager.rs` | `passes`, `execution_order` | `register`, `clear`, `compute_order`, `visit` | names may be unknown, cyclic, registered twice; the order is kept when a later computation fails | an installed order is a topological order of what was registered, a refusal means a cycle, indices stay in range |
| Pass manager, same file | the flag `parallel`, an optional result cache, the results of a run | `run_all`, `run_all_with_issues`, `run_all_with_ir_and_config`, `run_with_context`, `compute_levels` | threads of a level in any order; a pass may fail halfway; cached results; edits between runs | every pass runs once after what it depends on, both modes agree, a failure takes nothing else with it, a cached result is never stale |
| Pass context, `omniscope-pass/src/pass.rs` | the blackboard `shared`, issues, suppressed issues, `next_issue_id` | `store`, `get`, `emit_issue`, `next_issue_id`, `clone_for_parallel`, `merge` | a clone made before a level is merged back after it, whole | no write is lost, ids are not used twice |
| Default pipeline, `omniscope-pipeline/src/pipeline.rs` and the passes' `dependencies()` | what 22 passes read and write | `register_default_passes`, `run` | a pass may read what it does not declare | a pass finds everything it reads |

### The result cache

| Component | State | Operations | Hard behaviour | Correct when |
|---|---|---|---|---|
| Analysis cache, `omniscope-pass/src/resource/incremental_cache.rs` | entries with size and times, `total_size_bytes`, `total_entries` | `put`, `get`, `contains`, `clear_old_entries`, eviction | byte count kept by hand in several places; time in seconds; iteration in hash order | the limit holds after a put, only old entries go, nothing expired is served |
| Cache directory, same file | index, payload and graph files | `persist_to_disk`, `load_from_disk`, `clear` | files written in place: failures and crashes in between | a load never gives a value that nobody put |
| Dependency graph, same file | edges between passes and to functions | `register_*`, `remove_pass`, `get_affected_passes` | cyclic graphs | the set returned is the least one closed under dependence |

### The ownership analysis

| Component | State | Operations | Hard behaviour | Correct when |
|---|---|---|---|---|
| Contract graph builder, `omniscope-pass/src/resource/contract_graph_builder.rs` | edges, instance counter, queues of unconsumed acquires per function and family, memory graph | `run`: from facts, from calls, from summaries, across functions, uses after a free | the same program is read twice, by two loops with rules of their own; a wrong match makes a leak and a double release | an acquire is consumed at most once and oldest first, the two readings and the memory graph agree |
| Union-find, `union_find.rs` | `parent`, `rank`, `size` | `make_set`, `find`, `union`, `connected`, `set_size`, `set_count` | compression rewrites the forest during every find; recursion depth | the forest represents the sets united so far |
| Ownership state machine, `omniscope-semantics/src/resource/ownership_state.rs` | the state of an instance | `transition` | long event sequences, rejected events | an ended life stays ended |
| Ownership solver, `ownership_solver.rs` | instances and their index, pointer slots, cycle detector, drop tracker | one per `Effect` of the contract graph | several ids for one instance; four structures updated by hand for each edge | they tell one story |
| Issue candidates, `issue_candidate_builder/` | groups of edges, candidates | one rule per kind of candidate | rules count edges, states and calls by different numbers | a late use and a mismatch are reported, a correct program is not |
| Path-sensitive leak detection, `path_sensitive_leak/` | counts, exit states | `run` per acquire | counts, slots, summaries and call paths contradict one another | a definite leak has no release anywhere below |
| Issue verification, `issue_verifier/` | candidates, verdicts, evidence bundles | `run`: deduplicate, verify, reconcile, emit | a suppression that hides a real issue | a resource with a reportable fault is never silent |
| Reconciliation, `reconcile/` | groups by resource | `reconcile_candidates` | a cause that silences is silenced itself | one report per fault, the cause kept |

### The engines around it

| Component | State | Operations | Hard behaviour | Correct when |
|---|---|---|---|---|
| Dataflow, `omniscope-dataflow` | nodes, edges, CSR arrays, facts | `add_*`, `freeze`, `invalidate_csr`, `run` of both analyses | termination, order of a hash map, stale CSR offsets | the result is the least fixpoint of the edges added |
| IR loader and IR cache, `omniscope-ir` | cache files | `load_ir` and its chains, `check_cache`, `load`, `save` | a file that changes between check and use, half-written entries, several processes | what is loaded is a current content of the file |
| Project pipeline, `omniscope-pipeline/src/project_pipeline.rs` | pipelines, their modules | `from_inputs`, `run` | one module failing, a run after a failed one | all inputs or none |
| IR readers, `parser.rs`, `ir_model.rs`, `llvm_sys_adapter.rs` of `omniscope-ir` | the module under construction, the function that is open | a line of text, or an item of a model, read | a text cut short, declarations that come late, three readers that should agree | every call and instruction is kept, under its function |
| Module index and FFI slice, `module_index.rs`, `analysis/boundary_seeds.rs` | metadata of each call, depths of calls and functions | `ModuleIndex::build`, `classify_seed`, `expand_from_seeds` | cyclic call graphs, seeds in any order | the slice is what two calls reach, boundaries are in it |
| Boundary passes, `analysis/call_graph.rs`, `analysis/mod.rs` | cross-language edges, boundaries seen, issues | `CallGraphPass::run`, `FFIBoundaryPass::run` | three sources of boundaries, each with its own notion | a foreign release that is considered is reported, once |
| Semantic engine, `semantic_engine.rs`, `ir_pattern.rs` of `omniscope-semantics` | none | `assess_ffi_safety`, `extract_behavior` | the first evidence decides | weak evidence does not overrule strong |
| Checks of bodies and modules, `ir_behavior_summary_pass.rs`, `ffi_return_check.rs`, `write_to_immutable.rs`, `abi_layout_pass.rs`, `cross_function_lifetime.rs`, `pattern_candidates.rs` | facts, violations, candidates | one pass after the other; the worklist of lifetimes | registers compared as words, orders of declarations and of hash maps | a return is reported where it is used unchecked, an order of fields saves what is claimed, leaks are counted per function |
| Registry, contracts, adapters, inference from names (`omniscope-semantics`) | tables | functions of a name and the calls below it | a dozen tables that disagree on a symbol | a symbol of a language API is recognised by the adapter of that language |
| Summaries and structural inference, `raw_fact_collector.rs`, `ir_behavior_summary_pass.rs`, `language_adapter_fact_pass.rs`, `summary_builder.rs`, `structural_inference_pass.rs` | facts, summaries by id, resolutions by name | the five passes, one after the other; rounds of propagation | four numberings of functions share one map; a map grows while it is propagated | a name is given what it, its body or its calls say, and nothing of another |
| Issue gate, `issue_gate.rs` and `emit_issue` of `pass.rs` | none | `should_suppress_issue` and the rules before it | rules on names and on resolutions in a fixed order | noise is suppressed, a fault of user code on libc's heap is not |
| Reports, CLI, profiler | data | formatting | none | outside these models |

### How they interact

The CLI or the library client builds a pipeline, which registers the passes
and calls `run_all_with_ir_and_config`. The manager orders them, makes one
`PassContext`, and runs each pass on it (sequentially) or on a clone of it
(in a level of rayon tasks, joined before the merge). Passes communicate only
through keys of the blackboard. There are no locks, no async code and no
long-lived threads: all concurrency is that of a level. With
`with_cache` the sequential mode asks the `AnalysisCache` before it runs a
pass; no client in the repository attaches one, but the interface is public.
`ContractGraphBuilder` stores the graph that `OwnershipSolver` reads; the
solver's instances and slots, with the raw facts, are what the candidate builder
and leak detection read; the verifier collects the candidates of three passes and
puts what is left before the issue gate of the context. A project pipeline
loads its inputs through the IR loader, whose cache directory other processes
share, and runs one pipeline per module.

## 2. Modules

| Module | What it is |
|---|---|
| `PassSchedule` | abstract: an execution order of what was registered, or a refusal for a cycle |
| `PassOrder` | `compute_order` and `visit`, one call, return or error a step; implements `PassSchedule` |
| `PassManager` | the operations of `PassContext`, the blackboard, and `PassOrder` composed with them: a run, sequential or by levels |
| `PassManagerProofs` | the proofs about these two |
| `DefaultPipeline` | the passes the program registers, and `PassManager` with them |
| `LossyStore` | abstract: a store that may forget but never invents or revives |
| `AnalysisCache` | the cache in memory, and with its directory, crashes and failures; implements `LossyStore` |
| `DependencyGraph` | the graph of the cache and its breadth-first search |
| `AnalysisCacheProofs` | the proofs about these two |
| `DisjointSets` | sets as classes: `Inserted`, `Joined`, `Together`, shared by the next three |
| `Partition` | abstract: the sets, and the answers about them |
| `UnionFind` | the forest, one node of a `find` or a compression a step; implements `Partition` |
| `UnionFindProofs` | the proofs about it |
| `ContractGraphBuilder` | the graph (edges, instance counter, compatibility of families) and the builder pass: both readings of a module's calls, matching, releases in callees, late uses, memory graph |
| `OwnershipSolver` | the state machine of an instance, and the two passes of the solver over an arbitrary contract graph |
| `OwnershipSolverProofs` | the proofs about it |
| `IssueCandidates` | grouping of the edges and the rules for candidates; leak detection: counts, exit states and call paths per acquire |
| `ResourcePipeline` | the composition of `ContractGraphBuilder`, `OwnershipSolver` and `IssueCandidates`, from the calls of a module to its candidates |
| `ResourcePipelineProofs` | the proofs about the builder as part of it |
| `IssueVerification` | the arbitration among the candidates of a resource, and the verifier pass: deduplicate, verify, reconcile, emit |
| `IssueVerificationProofs` | the proofs about it |
| `DataflowAnalysis` | the graph with its lists and packed arrays; both analyses over it, one node visited a step |
| `DataflowProofs` | the proofs about it |
| `IrLoader` | backends, chains and the cache of files, for loaders that share a directory |
| `ProjectPipeline` | a project of several inputs, composed with `IrLoader` |
| `ProjectPipelineProofs` | the proofs about these two |
| `IrReaders` | the line parser, the conversion of a model, the walk over LLVM's module |
| `ModuleIndex` | what the index knows of each call and of the module; seeds, and the slice around them |
| `SemanticEngine` | what the instructions of a body show, the whitelist of Rust functions, and the verdict on a call, from the first evidence that says something |
| `FfiAnalysis` | the composition of these three, with the passes `CallGraph` and `FFIBoundary`: from the lines of a module to its FFI issues |
| `BodyChecks` | the passes over one body at a time: behaviour summaries with the type confusion detector, `FfiReturnCheck`, `WriteToImmutable` |
| `ModuleChecks` | `AbiLayout`, `CrossFunctionLifetime`, and the candidates made from their findings and from the patterns of bodies |
| `FamilyRegistry` | the registered symbols of each family and their operations; the contracts of the FFI database and the builder's tables |
| `NameInference` | a name as the set of prefixes, suffixes and parts that match it; what the inferences derive from a name alone: language, family, effects |
| `BehaviorSummary` | from effects, evidence and names to the semantic kinds, and which kind excuses which issue; from the patterns of a body to a summary and to facts |
| `LanguageAdapters` | the patterns and concerns each adapter sees in a function |
| `FunctionSummaries` | the rules of the issue gate, in their order, and the composition of these: from the calls and bodies of a module through five passes to the verdict of the gate |
| `MC...` | small instances for TLC (those of `DefaultPipeline`, `OwnershipSolver` and `UnionFind` need only a configuration) |

Operators marked `mutant` in a comment are the plausible bugs that
`PROJECT.json` pairs with the properties that notice them; no specification
uses them.

### How state and actions correspond to the code

**PassOrder.** `passes` holds what `name()` and `dependencies()` return for
each registered pass; `executionOrder` is the field. A frame of `stack` is an
active call of `visit`; `temp`, `visited` and `order` are its three arguments. The
`HashSet` of dependencies is iterated in any order: `Call` takes any name not
yet taken. An unknown dependency is found by nobody and is passed over, as
`visit` does. `register` and `clear` may come between computations; `register`
leaves `execution_order` alone and `clear` empties it, which is why
`InstalledOrderIsTopological` speaks of an order computed since.

**PassManager.** The value under a blackboard key is the set of the passes
whose work it contains: enough to tell a lost or stale value from a good one,
and nothing else about it; an issue is its id, the pass it is by and its place among
the issues of that pass. A pass is atomic, because nothing else touches its
context while it runs; passes of one level run in any order, each on its
clone, and `MergeNext` merges the clones one by one, in the order of the level. A pass that returns
`Err` may have done any part of its stores and issues (`Abandoned`).
`Edit` stands for a change of what `file_fingerprint` and
`config_hash` hash; `Forget` for anything the cache may drop. Thread panics
are left out (rayon would propagate them out of the run).

**DefaultPipeline.** `Decl` and `Effect` are read off the 22 passes:
`dependencies()`, every `ctx.get`, every `ctx.store`, and for a key whether
the store is preceded by a `get` of the same key whose value it extends.

**AnalysisCache.** Time is in seconds, as in the code, and
entries have a length; the serialized result is abstracted to a
version number. `persist_to_disk` writes the graph file, then a payload
for each entry, then the index, one file a step; each write may fail, which
ends the call, or tear, when the process crashes in it. `load_from_disk` goes the
other way and takes what it can parse. `LossyStore` maps the entries of
memory together with what a load would find.

**UnionFind.** `parent`, `rank`, `size` are the maps. The recursion of
`find_root` and the loop of `compress_path` take a step per node, so that the
properties hold between any two writes. `class` is auxiliary: the sets the
calls so far have made.

**OwnershipSolver.** One action per `Effect` the solver distinguishes.
The graph is not a variable: each edge is chosen when the loop
reaches it. That gives all graphs, because an acquire edge does nothing in the
second pass and the others nothing in the first. The drop tracker is reduced to
the set of its ids, and the cycle detector's union-find to the sets that
`UnionFind` is shown to represent. An id is a name: its fields other than `id` and
`state` are left out.

**ContractGraphBuilder.** A module is a sequence of calls, each with a caller, a
callee and the call that defines its argument's register, if any. `Registry`,
`FfiDb`, `Summary` and the sets of symbols stand for the tables in which the code
looks names up. The phases of `run` follow one another as actions: the raw facts
in call order, where each fact acquires or consumes at once; the calls of each
function, where acquires, releases, escapes and reclaims are first collected
into queues and matched after that; then releases in callees, orphan releases,
late uses, and the memory graph. Evidence and confidence of an edge are left out.

**IssueCandidates.** Each rule is an operator from the group of an
instance, its state in the solver, and the calls behind its edges to the
candidates it makes. The free site of an edge is found as the code finds it, by
counting edges. Leak detection is computed acquire by acquire from the facts,
the solver's slots and the call graph.

**ResourcePipeline.** `OwnershipSolver` is instantiated with the edges the builder made in
place of arbitrary ones; nothing else of it changes.

**IssueVerification.** A candidate is a record of what the tests look at: kind,
instance, functions, families, kinds of evidence, the confidence of the semantic facts,
and `marks`, the answers of the tests on names and on the module. `Verify` takes the
candidates one by one; the order of the tests of `Verdict` is the order of the
early returns. `Emit` asks the gate, whose rules may answer either way.

**DataflowAnalysis.** A node missing from a hash map reads as the empty list. `freeze`
fills offsets and targets and drops the lists; an edge added to a frozen graph unpacks
first. The analysis is one `Visit` per node of each pass, in any order, the same
in each pass of a run, as iterating one `HashMap` gives. The domain (`Value`,
`Join`, `Meet`, `Transfer`) is a parameter, as the trait is.

**IrLoader, ProjectPipeline.** A backend is a table: what it makes of a content. A step of a loader
reads or writes one thing (the fingerprint, an entry, the source), so that edits,
other loaders and kills come in between. An entry holds the content it was made of, or is
half written. `ProjectPipeline` takes the module out of each pipeline when it runs,
as `take()` does.

**IrReaders, FfiAnalysis.** A line is a record of what later stages look at: the operation, the names, the operands
and the registers it mentions. Names are model values with a set of `tags`, the answers of the tests on
names (`llvm.` prefix, mangling, libc, release-like, ...), and with the registry's entry. `ReadNext` takes one line of
whichever of the three readers was chosen; `ExpandSeed` expands the slice from one strong seed; `EmitNext` assesses one
boundary and files what the gate lets through (`emit_issue`; resolutions, which it asks for first, are stored by later passes only, and
of its rules on names only the first knows the kinds of this pass). `indexed` says whether the pipeline stored a `ModuleIndex`: without it both passes take their fallback.

**ModuleIndex.** `build` is operators over the module read: metadata of each call, the two verdicts on the
languages of the module, and the pairs of the n-th acquire with the n-th release of a function and family. Depth and
relevance in the slice are set as `entry().or_insert` and `insert` set them, first come or last.

**SemanticEngine.** A pattern is a formula over the positions of a body. `FromRegistry`, `FromCallee` and
`FromCaller` are the three steps of `assess_ffi_safety`; the name tables of the last step are the field `named` of a symbol.
The whitelist alone looks at parts of names: there a name is spelt as a sequence of its segments (`Spelling`).

**BodyChecks, ModuleChecks.** One action per pass, over all bodies or structs of the module at once: `IrBehaviorSummary`,
`FfiReturnCheck`, `WriteToImmutable`; `ParseStructs`, `AbiLayout`, `FindResources`, one `PropagateNext` per step of the worklist of
lifetimes, `FinishLifetimes`, `FilePatterns`. Registers, types and operands are the words of an instruction that the scans compare.
A struct is the sequence of its fields' types (a scalar, an array or a vector of one); sizes and alignments are the code's table.

**NameInference, FamilyRegistry, LanguageAdapters.** The code tests names by
`starts_with`, `ends_with`, `contains` and equality. A name is its own model string with a `Shape`, the set of the tested
prefixes, suffixes and parts that match it; `ShapeAssumption` says that every name has one. The tables are sets of names, so that a
rule of the code is a formula over membership. Where a function returns on the first match, the order is that of the
disjuncts' guards.

**FunctionSummaries, BehaviorSummary.** One action per pass: `CollectRawFacts`, `SummarizeBehaviors`,
`AdaptLanguages`, `BuildSummaries`, `InferStructure`, then one `PropagateRound` per iteration of the propagation, and
`MergeNullChecked` of the verifier. `store` is `summary_store`: a function from ids to summaries, where every pass computes ids
as it does in the code (the first request, a hash, a place in sorted or in hash order, 0). The body of a function is the set of the
patterns `extract_behavior` finds.

`EmitIssue` is `emit_issue` of the context with `should_suppress_issue` behind it: rules on the kind, the
names of symbol and caller and the resolutions, first one first. `LeakRules`, `CallRules` and `FaultRules` are the arms for the
kinds of issues.

## 3. Runs

Every passing run explores its instance exhaustively.

| Run | Instance | What it shows |
|---|---|---|
| `pass_order` | 3 names and one that nobody registers, up to 3 passes, duplicates allowed; 131k states | an installed order is topological, the search implements `PassSchedule` |
| `pass_manager` | 7 registrations of up to 4 passes, both modes, a cache, 2 runs, 1 edit; 43k states | dependencies first, outputs and issue ids reach dependents, freshness of cached results, agreement of the modes, and that a run returns |
| `default_pipeline` | the 22 default passes, sequentially and by levels; 2402 states | sequentially `semantic_facts` is complete |
| `cache` | 2 keys, room for one, 3 seconds, failures and crashes anywhere; beside it 3 passes and 2 functions with up to 4 edges; 190k states | implements `LossyStore`, what was saved can be loaded, a put keeps the limit, nothing expired is served; the search of the dependency graph finds exactly the affected passes |
| `union_find` | 4 ids, every call sequence; 308k states | the forest represents the sets, stays shallow, implements `Partition` |
| `ownership_solver` | 3 ids, 1 function, 1 argument, up to 4 edges; 64k states up to symmetry | ids that alias share a chain, so do the ends of every escape and reclaim, a reclaim ends one life |
| `resource_pipeline` | some 2,900 modules of one or two functions with up to four calls; 130k states | the builder matches first in first out, the solver's leaks are the acquires nobody consumed, the memory graph says the same, releases in callees are paired once, late uses and mismatches are reported, a definite leak has no release below it, a program that frees in order is understood exactly |
| `issue_verification` | all lists of up to two candidates of some 150, and of three or four of ten; 720k states | a reportable fault reaches the gate or its cause does, no fault is reported beside its cause or twice, deduplication drops no leak without one as strong |
| `dataflow` | 3 nodes, up to 3 edges out of 4, packed and unpacked at any time, constants as the domain; 588k states | queries answer the edges added, an analysis ends, with the least facts |
| `project_pipeline` | two inputs, another loader, 1 edit, kills and removals, 2 runs; 1.2 million states | a load gives a content the file had meanwhile, automatic strategies fail only at their last backend, a project has all inputs or none |
| `ffi_analysis` | 10,454 pairs of a small source and a reader, with and without an index; 428k states | a reader keeps every call and body, the slice is what two calls reach, the three notions of boundary are nested, a foreign release that is considered is reported once unless the whitelist excuses it or one part of a runtime calls another; an unchecked return is reported exactly where it is used unguarded, the better order of a struct saves what is claimed and a struct of scalars that is passed over wastes nothing, leaks are counted exactly per function |
| `semantic_resolution` | 10 modules, 17 issues, two of them emitted; 1776 states | a name is given no kind of another, the management of reference counts goes three calls far, misuse of libc's heap in user code is reported |

Some of the properties join two parts that watch the same state: `EntriesBounded` of `cache` (a put keeps the limit,
nothing expired is served), `DependentsFollow` of `pass_manager` (outputs and issue ids reach dependents), and of
`resource_pipeline` `InstancesAgree` (leaks are the acquires nobody consumed, the memory graph says the same) and
`KnownProgramsExact` (a lone pair of two families, and a program that frees in order, come out as they must). The type invariants (`...TypeOK`) of the modules hold in these
instances too; the runs leave their time to the other properties, except where a proof needs one.

### Bounds, and why they are enough

* `pass_order`: every way in which the search branches involves at most three
  names: a chain, a diamond's shared end, cycles of one, two and three names, an
  unknown name beside a known one, a name twice. Sizes beyond are proved.
* `pass_manager`: `MaxRuns = 2` and `MaxVersion = 1` are what a stale hit
  needs (run, edit, run). The registrations include one with a missing
  dependency, one with a cycle, one that does not declare what it reads, one in
  which a pass of a level holds a stale value. Other registrations are proved, of distinct names.
* `cache`: one entry is evicted for the other, so that the directory can hold a
  payload the index does not list, and a load brings the second entry back beside
  the first. `Ttl = 1` within `MaxTime = 2` lets an entry be fresh, expire, and
  be put again, and be loaded at the second at which it is already too old to be
  served. `MaxTotal` bounds the byte count, which may drift upwards for ever. In the dependency graph, which shares no state with the
  entries and is therefore explored on its own (`side`), four edges make a cycle of three passes with an entry
  from a function, and a pass reached in two ways. Sizes beyond are proved, of both.
* `default_pipeline`: nothing is bounded but the number of runs; the passes are those
  of the program.
* `union_find`: four ids give trees of rank 2, the least on which compression
  changes a parent. Sizes beyond are proved.
* `ownership_solver`: escape, reclaim, and a use of either id take an acquire
  and three effects. The same run with five edges (2.4 million
  states, 85 s) finds no error either. The ids are interchangeable and the
  run has no liveness property, so symmetry is sound. Sizes beyond are proved.
* `resource_pipeline`: a pair matched wrongly needs two acquires and a release; a use
  after it, a fourth call. Symbols of each kind the tables know: two heaps, a family that
  another's function may release, a foreign object with conditional release, escape and reclaim,
  symbols of the FFI database, callbacks, functions with a summary. Calls of all kinds are mixed up to
  length three, of fewer kinds up to four.
* `issue_verification`: reconciliation relates a candidate to at most two others (chains are
  of two steps); deduplication needs a third for its two strategies, and a fourth to
  disturb them. Any number of candidates is proved for all three properties.
* `dataflow`: three nodes give a loop beside an entry and an exit, two ways into a node and a
  parallel edge. `MaxNodes` and `MaxEdges` bound the graph, the code does not. Graphs of any size, and any domain, are
  proved but for termination.
* `project_pipeline`: one edit between the check of an entry and its load or save
  is what a stale entry takes; the other loader gives the half-written one. `MaxRuns = 2`
  gives a run after a failed one. Any number of loaders, edits and inputs is proved.
* `ffi_analysis`: each source varies one thing: the surroundings of one call to each of 22 symbols, from four callers and
  with the declaration before or after; the body of a callee, of parts of a runtime too; a call graph of four functions with cycles up to length
  four; a text cut at any line, without one of its ends, or with a call outside of any function. Two expansions of
  depth two meet each other on four functions. A struct has up to three fields of seven types, four of five or five of four: a loss
  behind a nested struct takes four, and the fields after the fourth repeat an alignment there was. The gate answers for callers and callees that are
  both of a runtime, one of them, or none.
* `semantic_resolution`: a collision of ids takes two functions for each pair of numberings, and a hash order of up to
  three; the propagation a chain of five calls, with something of Python at its start, in its middle, or nowhere. The other
  modules call each language's API and declare a boundary by function, by language and by pattern. The gate answers for one
  issue at a time, so that `MaxEmitted = 2` is one more than it needs.

### Fairness

`FairManager` and `Visit` of `DataflowAnalysis` assume
weak fairness of the steps of the running call only: a single thread goes on with
its loop, and rayon runs every closure of a level to its end before `collect`
returns. Nothing is assumed of the client: no call has to be made, nobody
has to edit or persist.

### Deadlock

It is checked where the system is open, that is, where a client may always make
another call. The runs over a pass or a pipeline that ends (`pass_manager`, `default_pipeline`,
`ownership_solver`, `resource_pipeline`, `issue_verification`, `dataflow`,
`project_pipeline`, `ffi_analysis` and `semantic_resolution` at their bounds) say `CHECK_DEADLOCK FALSE`, which means no more than that.

## 4. Proofs

Proved with TLAPS, for every value of the constants that satisfies the assumptions named. Each is by an inductive
invariant; TLC checked every one of them before it was proved.

| Module | Proved of | Runs it generalises |
|---|---|---|
| `PassManagerProofs` | `InstalledOrderIsTopological`, `ScheduleSpec`; `DependentsFollow`, `ModesAgree`, `ResultsAreCurrent` | `pass_order`; `pass_manager` |
| `AnalysisCacheProofs` | `ImplementsLossyStore`, `SavedIsLoadable`, `EntriesBounded`, `ExactlyAffected` | `cache` |
| `UnionFindProofs` | `RepresentsSets`, `ImplementsPartition`, `TreesAreShallow` | `union_find` |
| `OwnershipSolverProofs` | `AliasesShareChain`, `ReclaimEndsOwnership` | `ownership_solver` |
| `ResourcePipelineProofs` | `ConsumedInOrder`, `PairedAcrossOnce`, `InstancesAgree`, `LateUsesReported`, `DefiniteLeaksHaveNoRelease` | `resource_pipeline` |
| `IssueVerificationProofs` | `FaultReachesGate`, `LeakSurvivesDedup`, `ReportsNotRedundant` | `issue_verification` |
| `ProjectPipelineProofs` | `LoadedIsCurrent`, `AutoFailsOnlyAtLast`, `BuiltWhole` | `project_pipeline` |
| `DataflowProofs` | `QueriesMatchEdges`, `FinishedIsLeast` | `dataflow` |

**`PassManagerProofs`, the order**, from `DeclAssumption` (a declaration has a name of `Name` and a
set of names) and `MaxPassesAssumption`. The inductive invariant is
`SearchInv`: the stack is a chain of calls
each made for a dependency of the one below (`StackInv`), what is
visited is closed under dependence and acyclic (`VisitedInv`), `order` lists the
visited registered names, each after its dependencies (`OrderInv`), the outer loop
has reached every name it has passed (`LoopInv`).
A topological order does not follow from the order alone, because a name is
pushed when its call returns: one has to know what the call had still to do. From
it follow `TypeCorrect`, `BookkeepingCorrect`, `InstalledOrderCorrect`, `IndicesCorrect`
and `OrderImplementsSchedule` (initial states and steps map to those of `PassSchedule`).

**`PassManagerProofs`, the manager**, from those and `EffectAssumption` (what a pass reads and stores are keys), `InputAssumption`,
`RegistrationsAssumption`, `RunBounds`. It builds on the order: `OrderPart` is the invariant of the search with what an installed
order is. `ManagerInv` adds the results of a run (`ResultsInv`), what a key with one writer holds (`WritersInv`), what its
readers saw (`ReadsInv`), the ids of the issues (`IdsInv`), and for each mode what is between two steps: `SequenceInv` that the results
are those of the order so far and that an output is there until a pass replaces it; `LevelsInv`, for each pass of the level, that its
clone holds of each key nothing or what the main context holds, and, once it ran, its own output. This is what a merge needs, which takes every key of a
clone whole: a clone without a key takes nothing away, and only the writer has another value. `DependentsComeAfter` and
`ModesAlwaysAgree` follow under the hypothesis `DistinctRegistrations`: no name is registered twice, as in
`register_default_passes`. With a name twice they are false, since the two modes run different ones of the two (section 5).
`ServedAreCurrent` needs no such hypothesis; its invariant `CurrentInv` is about the cache and the results alone.

**`AnalysisCacheProofs`**, from `CacheAssumption` and `EntryKeyAssumption` (a key is the pair of its two fields, so that
two keys have two files). `DirectoryInv` says which files are whole while they are written (`WritingInv`), and that what was
saved is on disk entry by entry as long as `saved` says so (`SavedInv`). With it every step is a step of `LossyStore` or a
stutter (`CacheIsLossyStore`), what a finished persist wrote can be loaded (`SavedStaysLoadable`), and `get` serves nothing
expired (`OnlyFreshIsServed`). After a put the entries fit the limit (with it, `EntriesAreBounded`), because the count of bytes
errs upwards only (`SizeInv`): an overwritten entry is counted twice, one dropped on the way stays counted, and a load adds all it
brings. The sum of the sizes is the number of the bytes, a set of pairs of key and position, so that it is known without an induction over the sum. For the dependency graph, `SearchInv` is the argument for breadth-first
search: an edge that leaves what was found starts in the queue, and what was found is in every closed set.
From it `AffectedAreExact`, for every graph with finitely many edges, registered in any order between the searches.

**`UnionFindProofs`**, from `NoRootAssumption` and `ElementAssumption`. The
inductive invariant joins the type invariant and `RepresentsSets`: parents
stay in the class, rank grows strictly towards the root, a class has one root, and
**a root outranks all other members of its class**. That last part
replaces the reachability of the root by `parent`, whose definition would be
recursive: a node of the class that is its own parent is the root since no two
nodes of a class can outrank each other. From it follow
`ForestTypeCorrect`, `ForestCorrect` and `UnionFindImplementsPartition`. `ForestIsShallow` (a tree of rank r has 2^r members at
least) is preserved by a union of two roots of one rank because 2^(r+1) = 2^r + 2^r; as the provers have no induction
over the definition of powers, `PowerDoubles` counts the subsets of an interval instead.

**`OwnershipSolverProofs`**, from `NoIdAssumption` and `MaxEdgesAssumption`. `SolverInv` adds to the type invariant and the two properties
that the detector's sets are disjoint, that an instance is found under its own id, and that a reclaimed id has
an instance. `AliasesShareChain` has two parts, each kept by a lemma of its own: ids with one instance (`AliasesKept`), and the ends of
every move (`MovesKept`), where the source of a reclaim may be an id that nobody acquired: `union` makes it a set first. The solver keeps instances, index, slots and detector apart and every
effect updates some of them; each effect is a lemma that says which it leaves alone. `AliasesAlwaysShareChain`
and `ReclaimAlwaysEnds` hold for every contract graph, those the builder would never make included.

**`ResourcePipelineProofs`**, from `ModuleAssumption` (a module is a list of calls and of sets of declarations, a callee's summary a list of
effects) and nothing about families, tables or how many calls and functions there are. The graph alone is the subject of `Linear`: its edges are a
list and ids are below its counter (`GraphShape`, `InUse`); an id is born at one acquire (`OneBirth`) and ends at one edge at
most (`OneEnd`); of two acquires of a family in one queue or list the earlier has the smaller id, and if the later one has ended so has the earlier,
before it (`Fifo`). Every edge the builder adds is of one of three sorts: neutral, a birth, or the end of the oldest live acquire of its family and list
(`NeutralEdge`, `BirthEdge`, `EndEdge`), and each keeps a graph linear. That a release does take the oldest live acquire is
what the rest of `BuilderInv` is for: a queue of the raw facts holds the live acquires of its scope in their order (`QueuesHold`),
the lists of the function being matched hold those of its calls (`ListsHold`, `ScannedAcquires`), a caller is visited once
(`CallersOnce`), and the fallback by family takes the first that fits (`Fallback`). From it `InstancesConsumedInOrder`.
`CrossInv` is about what crosses functions: a cross acquire is followed by its release,
of two with one pair of functions neither call is shared, and the pair is not met again. With it
`CrossPairsOnce`. `DefiniteLeaksAreReal` needs that no release is lost on the way to the graph (`ReleasesMet`): one the
scan has passed waits in `func_releases`, and has an edge once its function is left; edges stay where they are (`EdgesKept`). It has the
hypothesis `ShallowCalls`: no call path needs more than `MAX_DEPTH` calls, which is how far the code looks. `FewFunctionsShallow` proves it of
every module of `MAX_DEPTH + 1` functions at most; in a larger one, a release 17 calls away is missed.

`InstancesTracked` goes from the graph to what solver and memory graph say of it. The solver takes the edges in two rounds, the acquires
in the first, all others in the second, so that it knows every acquire before anything ends one. That it
arrives at the account of the graph takes three more invariants. `NameInv` compares edges two by two (`Apart`): an instance is
created under a new name, and nothing ends it before it is acquired or after it was passed on; an edge for a late
use follows a release of its instance (`LateUse`). For that, the lists of the function being matched may hold only names that are still
to be used (`ListNames`). `SolverInv` says what the solver holds when it has met the births of the edges `B` and applied the edges
`P` (`Tracked`): each birth has an instance, owned until an edge of `P` passes it on (`OwnedUntilPassed`) and then in the state its end
leaves (`EndsTold`), and nothing else is owned (`OthersOver`). `MemoryInv` says that the memory graph is the replay of the edges,
and `Recorded` where each of its states comes from. `ResultsFound` then compares the account with the candidates:
`InstancesAreAgreed`, `LateUsesAreReported`. Both have the hypothesis `IdsSuffice`, that there is an id for each instance of the graph, since TLC's `Id` is
finite; it holds in the run's instance, and always when ids are numbers, as in the code (`AgreedForNumbers`).

The builder's loops over facts, calls, summaries, uses and nodes are recursive functions; that each is the result of
its steps one after the other is proved with `Ascend` (`OrderSteps`, `SummarySteps`, `PairSteps`, `PostFreeSteps`, `MemorySteps`), and a selection by the
smallest index with `FirstOf`.

**`IssueVerificationProofs`**, from `ListsAssumption` (a list of candidates is a finite sequence) and nothing about families or pairs of families.
`FaultsReachGate`: whatever the candidates are, and however many, a reportable fault reaches
the gate itself, or one of its resource does that is of its class or explains it. The inductive invariant says, phase by phase, what the
verifier has by then: verdicts and `reportable` agree for the candidates verified so far (`PassAInv`), the
actions are those of the reconciliation (`PassBInv`), and what is not kept was not
handed to the gate (`DoneInv`). The heart is a fact about the reconciliation alone: nothing explains a use after
release, which alone explains a double release, so that from any silenced candidate one reaches in at most
two steps one that no cause silences; and of the candidates of a class the first of the
most confident ones is kept. That there is a first is `LeastIndex`, from the well-foundedness of
`<` (`NatLessThanWellFounded`). `GateAskedOnce` has the same source: two that are kept differ in class and
neither explains the other (`GateInv`). `LeaksOutliveDedup` rests on `DedupInv`: of the duplicates by instance, and then by
caller, one of the strongest stays. What each strategy keeps is found in the order of the list (`NthReachesAll`: the k-th of a finite
set of indices, counted upwards, reaches all of them).

**`ProjectPipelineProofs`**, from `LoaderAssumption` and `ProjectAssumption`. A loader reads a file, its cache entry and the entry's content in three
steps, and the file may be edited between any two. `LoaderInv` therefore speaks of a history `h`, what each path held at each
stamp, that some function must satisfy: a whole entry holds what `h` says of the stamp in its name, unless an edit came between
extraction and fingerprint (`raced`), and what a loader has found it has seen. From it `LoadsAreCurrent` (the one exception, a
raced entry, is named in the property) and `OnlyLastFails`; `ProjectsAreWhole` adds which inputs a project has by each stage (`LoadingInv`, `BuiltInv`).

**`DataflowProofs`**, from `GraphBounds` and `DomainAssumption`, which is what the trait's comments say of a domain: join and meet
are commutative, associative and idempotent, with bottom and top for units. `GraphInv` says where the edges are: in the lists while they are not packed, else in the
slices of every node the offsets have, which may be one more than there are nodes. That `freeze` loses nothing is `PackedSlices`: what a node
packs is not moved by the nodes after it (`PackedStays`), so that its two offsets cut its list out again (`CutOut`). `QueriesAlwaysMatch` follows.
`FinishedAlwaysLeast` has the hypothesis `MonotoneTransfer`, which the trait does not state and the
analyses rely on. Its invariant `RunInv`: no fact exceeds that of any solution (`FactsBelow`), save at a
boundary with nodes upstream, whose first visit replaces what it began with; after a pass that has changed nothing so far,
the nodes visited hold what another visit would give them (`FactsSettled`); a node with nothing upstream keeps its first
fact (`SourcesKept`). So the end of a pass without a change is a solution, and the least. Two functions of this module
are recursive, over the nodes packed and over the facts merged. The provers cannot cite the library's theorem on
recursive functions; `Stepwise` (there is a function with a given first value and step) and `Ascend` (a set that
holds 0 and, with each number below a bound, the next one holds all up to the bound) take its place.

### What stays with TLC

* Liveness: `RunReturns`, `RunsEnd`, and whatever needs `ENABLED`.
* `SequentialFactsComplete`: it is about one program, the 22 default passes, which TLC explores whole.
* Of `resource_pipeline`: `KnownProgramsExact`, which replays the allocations and frees of two kinds of programs; a proof would
  follow their calls through both ways in which the builder makes edges of them.
* What `ffi_analysis` and `semantic_resolution` check: their operators fold over the lines and calls of a
  module, select and sort sequences. What a fold computes for every input takes an induction over data; sorting, selecting and
  folding with the library's operators are opaque to the provers.

## 5. Where code and documentation disagree

Met while modelling; the models follow the code. Paths are below `src/crates` unless they start with `docs`.

The engine:

* `manager.rs:391`: in parallel mode the passes that depend on an unregistered name never run, silently;
  `docs/en/passes.md:43` says an unknown dependency is ignored.
* `pass.rs:734`: two passes of a level use the same issue ids; `:746` and `:371` call them unique.
* `SummaryBuilder` reads `function_behaviors` without declaring its producer, and in
  parallel mode runs beside it (`architecture.md` calls the declarations a
  contract that guarantees the order).
* The sequential order is not reproducible (`architecture.md`): `visit` takes the
  dependencies in the order of a `HashSet`. On a merge "the later writer wins" also when it
  never wrote the key. The issues of a cached result are in neither place `run_all_with_issues` looks; nor
  does a pass served from the cache store its outputs, which its dependents miss.
* `language_adapter_fact_pass.rs:23` ("the merge is append-only so order does not matter") and `abi_layout_pass.rs:161`:
  `ir_behavior_summary_pass.rs:142` stores `semantic_facts` afresh, and a merge takes a key whole from the later clone, so that in
  parallel mode the copy `AbiLayout` started from replaces the facts of `IRBehaviorSummary`.
* Of two passes with one name a sequential run runs the last alone, a parallel one all that are ready
  together. `passes.md` counts 21 passes where 22 are registered.

The cache:

* `incremental_cache.rs:371`: bytes of overwritten entries count, so that entries that fit are
  evicted, against `:253`. `total_entries` still counts an expired entry that `get` has dropped; `clear` leaves the
  entries in memory, against its doc; within one second the entry just put may
  be evicted before older ones. `load_from_disk` replaces newer entries in memory by older
  ones of the directory, and has already replaced the dependency graph when the
  index does not parse.

Ownership:

* `ownership_solver.rs:153`: a released instance's slot still says `Owned`, against `:97`. After two retains
  the second conditional release of three references already releases. The doc of `is_in_cycle`
  (`union_find.rs`) asks for an id both escaped and reclaimed where the code takes either; the cycle
  detector and the drop tracker are stored and read by nobody.
* `family_registry.rs:33`: an escape is "NOT a release", but the path over the facts makes a release edge of it.
* `contract_graph_builder.rs:909`: the comment expects `DoubleReclaim` to be found, which `escape_claimed` prevents;
  `:960` "not a self-loop", but the fallback is one; `:833` "the same conditions as the raw_facts path", but
  the calls' path pairs a release with an acquire that comes after it; `:1196` "match orphan releases": a new
  instance is made, the caller's acquire stays unreleased, and all releases of the callee are paired, not the orphans.
* Released ids "match the order free calls appear": not beside releases of other functions.
* Unmatched releases of the calls share source 0 and so make one group across functions; a summary's
  `EscapesToCallback` makes a borrowed instance 0, with which each of them is an `InvalidBorrowedFree`.
* `helpers.rs:245` counts the edges of facts and of calls together, so that the second edge of a pair has no call and
  aliases nothing; reachable release sites count twice for the same reason.
* A plain double free has no `DoubleRelease` candidate: the second release is an unmatched one.
* `path_sensitive_leak`: the count "scoped to the allocation's function" (`helpers.rs:146`) also counts
  equal symbols elsewhere; `collect_exit_states` matches slots by the prefix of a name, so that `f` takes those of
  `f_g`; `check_release_in_summaries` and `caller_returns_owned` compare numbers of different tables.
* Dead code: the freed-argument scan (`issue_candidate_builder/mod.rs:1182`), `merge_cross_module`, which would not
  offset its result ids. `pattern_candidates.rs:29` documents a counter it does not return. The FFI-adjacency
  gate runs before the configuration fills `ffi_boundaries`.

Verification:

* Medium confidence excuses no conditional leak (`leak.rs:56` says it does) while low confidence and the legacy
  resolution do; a definite leak that high confidence suppresses is Confirmed by `PathStateRefinement`.
* `deduplicate_leak_candidates`: "candidates without resource_id are never removed", but the second
  strategy removes them; one candidate of a user function removes all runtime ones of its function and family.
* `reconcile`: "only candidates that will actually be emitted may suppress", but the issue gate comes after; a cause the
  gate suppresses still silences its leak. Rule 2b (`mod.rs:353`) never finds two leaks. What holds is `FaultReachesGate`.
* `collect_semantic_facts` keeps the first fact of a kind and drops a later one of higher confidence;
  `verified_candidates` is stored and read by nobody.

Dataflow, IR and project:

* `graph.rs:93`, `:240`: freezing a frozen graph loses its edges, and a second node added to a frozen graph makes the next
  edge panic. `analysis.rs:88`: a boundary node with edges into it loses its boundary fact. (`strained` in
  `DataflowAnalysis` marks such graphs; nothing is claimed of them.)
* `ir_cache.rs:7`, `:65` speak of content; the key is of size and time. The fingerprint is taken after the
  extraction, so that an entry may hold the older content. A garbled or truncated entry makes a forced backend fail
  until somebody removes it, and the pass output is saved before it is parsed.
* `project_pipeline.rs`: a run after a failed or reported one finds the modules gone and reports passes that ran on
  nothing; `cross_module_issues` is always empty, `total_functions` 0, and the index is built of summaries without functions (`:147`).
  `ProjectIndex`: a third definer is not added to an ambiguous symbol.

Boundaries:

* `module_index.rs:545` takes the verdict of the calls for final, but functions nobody calls add languages after it: the slice
  is then empty while boundaries are reported. (`ffi_slice_info` is read by no pass.)
* `boundary_seeds.rs` keeps the first depth reached, not the least (`boundary.rs:418`), and the closure of pairs may note depth 2
  for a function that was nearer.
* `FFIBoundaryPass` asks the index only when the call graph has no cross-language edge at all (`analysis/mod.rs:130`): one such edge, even one
  that is no boundary, silences every call from Rust or C++ to an unknown external, `free` among them, though
  `module_index.rs:492` keeps libc on purpose for transfers of ownership.
* The scan without an index takes every call of a local callee to a name that says nothing for a call to C (`:294`), also one
  to another function of the module.
* `callee_name_suggests_release` guards the two broad rules of `derive_from_caller_context` against releases, but a caller without
  memory management of its own is cleared before as a pure computation.
* `emit_issue` (`pass.rs:479`): "suppress leak-type issues", but the rule takes unsafe calls, foreign frees and violations of ownership
  too; so a foreign release within a runtime goes unreported, which `ReleasesReported` allows for.
* `should_suppress_by_srt` (`noise_reduction.rs:229`), `emit_issue_with_keys` and `load_from_config` have no caller; the first
  excuses other issues than the gate does.
* The readers treat `invoke`, intrinsics, operands of calls and declarations that come late differently; `ReadersAgree` says what they
  have in common.

Checks of bodies and modules (`omniscope-semantics/src/resource` and `omniscope-pass/src/resource`):

* `rust_stdlib_whitelist/mod.rs:12`: "Exact Matching Only", "Zero False Negatives", but the fragments `3get`, `4drop`, `4take` and `4swap`
  (`:392`) match within any mangled name. Nobody reads `involves_ownership`. So a foreign release whose caller has such a name goes unreported, which
  `ReleasesReported` allows for.
* `bounds_check_pattern.rs:51`, `detect_constant_overflow`: "first match", but `?` in its loop ends the scan at the first call without a callee name, or
  with a size that is not computed; what it finds is filed as a definite leak.
* `ir_pattern.rs:1515`: `is_derived_from` keeps no visited set. `ReturnAlias` follows the arguments of calls and the indices of address
  computations too; a use after a free in a callback is found by a register's name within another's.
* `is_likely_ffi_by_name` (`ffi_return_check.rs:560`): "Rust legacy mangled names contain `::`", but they start with `_ZN` and pass for foreign.
  `noundef` counts as non-null; one comparison with null anywhere in a function silences all its unchecked returns at the gate.
* `cross_function_lifetime_pass.rs:18`: violations are stored "for downstream `IssueCandidateBuilder` consumption", which reads another key: nobody reads
  `lifetime_violations`, nor `function_surfaces` (`surface_classifier_pass.rs:158`). Taking a reference counts as an allocation, pairs ignore families, a use after a
  free is never found, and `accessible_in` depends on the order of a hash map.
* `helpers.rs:107` of the candidate builder: `function_returns_pointer` "returns `false` if the function is not found", the code `true`. Rules 1 to 3 of
  `should_suppress_leak_for_allocator_escape` never apply, because `mod.rs:1062` passes no caller. `is_thin_wrapper_function` also excuses a wrapper that frees twice.
  A branch between two releases makes them exclusive (`mod.rs:540`), wherever it leads.
* `abi_layout`: without source text it has no structs; a vector of halves divides by an alignment of zero; each struct that is not packed is a
  mismatch between C and Rust; the quick test for waste
  (`abi_layout_pass.rs:348`) misses structs with arrays, and what comes after a nested struct, whose size of zero (`detector.rs:227`, "a
  conservative estimate") it takes for a multiple of any alignment: an `i8`, a nested struct, an `i64` and an `i8` take 24 bytes for 16, unreported. `StructWidthMismatch` is never found, since `UnsafeBitcast` is tried first.
* `WriteToImmutable` reports neither stores with swapped operands nor writes through the first argument of a `memcpy` whose result it names. `FFIBoundary`
  says a pointer has no owner of a function for which it also reports an escape to the heap.
* Patterns that `extract_behavior` documents but never reaches: the stores into an owner or a runtime, the escape of a resource, the release on all exit paths.

Names and summaries:

* `structural_inference_pass.rs:105`: a raw fact names the callee and has the id of the caller, so that of the registered callees of
  a function only the last keeps a summary; all behaviours without a summary share the id 0, where
  `ir_behavior_summary_pass.rs:106` wants an id that is "unique". `SummaryBuilder` numbers behaviours in sorted order and new
  functions in hash order, and the second overwrites the first. What holds is the first part of `SummariesExact`: a summary may be lost, none
  speaks for another name.
* `structural_inference_pass.rs:610` propagates "only to functions that already have SRT entries", but makes the entry
  where there is none.
* The contracts name `DeleteLocalRef` as the release of `NewStringUTF` and `NewByteArray`, which the registry puts into the
  family of global references; `PyList_GetItem` retains in one table and borrows in the other, `PyTuple_SetItem` releases in one and
  transfers in the other.
* Strong names are compared in lower case, so that the prefixes `_ZN4core`, `_Znwm` and `_ZdlPv` match nothing; `mi`, `je`, `tc` and `_ZN` as
  prefixes of allocator shims match unrelated names.
* `has_balanced_refcount` holds of any pattern found, where its evidence says "balanced". A Java concern about leaked references
  cannot arise: the tests for creation and cleanup are the same. The adapters' analyses of bodies are always called without one.

## 6. Not modelled

* Strings: names are the patterns that match them. The type rules and the adapters' analyses of bodies, which are never given one.
* Tokens, types, debug metadata and globals of the IR: `IrReaders` begins at the lines, `IrLoader` takes a backend as a table of outcomes.
* In `issue_verification` the gate may answer either way, which is more than it can do; its rules are checked in
  `semantic_resolution`.
* The single-pass heuristics other than those of `BodyChecks` and `ModuleChecks` (`surface_classifier`, `noise_reduction`, the detector's
  configuration, the risk scores): each looks at one function and leaves nothing another part depends on.
* The confidence and evidence of a resolution of the semantic tree; in `issue_verification` they enter as the confidence by
  which facts excuse a candidate.
* Counts per function, the caches of names and the lookups of `ModuleIndex`: data computed once from the module.
* `ProjectIndex`, which `run` leaves empty. Reports, CLI, profiler: output only.
* `benches`, `tests`, `scripts`, `examples`, the C++ tools.

## 7. Plan

1. `ResourcePipelineProofs`: `KnownProgramsExact`, from the queues and lists of a single function.
2. `ProjectIndex` with the functions its summaries should have.
