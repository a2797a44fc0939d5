--------------------------- MODULE IssueCandidates ---------------------------
(***************************************************************************)
(* The passes that read the contract graph for issues.                     *)
(*                                                                         *)
(* IssueCandidateBuilderPass::run: the edges of the contract graph grouped *)
(* by the instance they concern, and one rule per kind of candidate.  A    *)
(* candidate is its kind, its instance and the edges it rests on; its      *)
(* evidence, texts and number are left out.  `is` are the instances of the *)
(* ownership solver.                                                       *)
(*                                                                         *)
(* LeakDetectionPass::run: for each acquire the raw facts have in a        *)
(* function, whether it leaks.  Acquires and releases are counted, pointer *)
(* slots give a second opinion, and what is known of the function          *)
(* overrules both.  `slots` are the slots of the solver that have a state. *)
(***************************************************************************)
EXTENDS ContractGraphBuilder

CONSTANTS Thunk,            \* is_allocator_thunk
          PureDeallocator,  \* is_pure_deallocator
          Shim,             \* is_custom_allocator_shim
          StdLibrary,       \* functions of the C++ library (_ZNSt, _ZNKSt)
          RustFamily        \* RUST_RAW_OWNERSHIP and RUST_GLOBAL

(* The group of the edges without a source: u64::MAX.                      *)
NoSource == 2147483647

GroupsOf(e) ==
  CASE e.effect = "Acquire" -> {e.result}
    [] e.effect = "OwnershipReclaim" -> {e.result} \cup ({e.source} \ {0})
    [] e.effect \in {"Release", "ConditionalRelease", "OwnershipEscape"} -> {e.source}
    [] e.effect \in {"EscapesToCallback", "ReturnsBorrowed"} ->
         {IF e.source = 0 THEN NoSource ELSE e.source}
    [] OTHER -> {e.source} \ {0}

Groups == UNION {GroupsOf(graph.edges[i]) : i \in DOMAIN graph.edges}

(* The edges of group x with one of the effects, in the graph's order.     *)
EdgesOf(x, effects) ==
  {i \in DOMAIN graph.edges : x \in GroupsOf(graph.edges[i]) /\ graph.edges[i].effect \in effects}

Freeing == {"Release", "ConditionalRelease"}

Candidate(kind, x, es) == [kind |-> kind, instance |-> x, edges |-> es]

Incompatible(a, r) == ~are_families_compatible(graph.edges[a].family, graph.edges[r].family)

SiteOf(i) == graph.edges[i].site

(* The edge an instance was created at tells its contract and function.    *)
BirthOf(x) ==
  {i \in DOMAIN graph.edges : LET e == graph.edges[i] IN
     \/ e.effect \in {"Acquire", "OwnershipReclaim"} /\ e.result = x
     \/ e.effect = "OutParamOwnedOnSuccess" /\ e.target = x}

BornBorrowed(x) == BirthOf(x) = {}

InstanceFunction(x) ==
  LET callbacks == {i \in DOMAIN graph.edges : /\ graph.edges[i].effect = "EscapesToCallback"
                                               /\ graph.edges[i].source = x} IN
  SiteOf(Min(IF BornBorrowed(x) THEN callbacks ELSE BirthOf(x))).caller

InstanceState(is, x) == {is[i].state : i \in {j \in DOMAIN is : is[j].id = x}}

-----------------------------------------------------------------------------
(* The two calls of a double release, as the may-alias gate sees them.     *)

(***************************************************************************)
(* The register of a release: of the n-th call of its callee in its        *)
(* caller, where n counts the earlier release edges of the two, from the   *)
(* facts and from the calls alike.  {} when there is no such call.         *)
(***************************************************************************)
build_free_site_for_edge(i) ==
  LET nth == Cardinality({j \in 1 .. i - 1 : /\ graph.edges[j].effect \in Freeing
                                            /\ SiteOf(j).caller = SiteOf(i).caller
                                            /\ SiteOf(j).callee = SiteOf(i).callee})
      matching == SelectSeq(CallsOf(SiteOf(i).caller), LAMBDA c : Calls[c].callee = SiteOf(i).callee)
  IN IF nth < Len(matching) THEN {Calls[matching[nth + 1]].arg} ELSE {}

(* Address computations lead to the register they start from.              *)
trace_root_set(registers) ==
  LET root[r \in 0 .. Len(Calls)] ==
        IF r # 0 /\ Calls[r].callee = Gep THEN root[Calls[r].arg] ELSE r
  IN {root[r] : r \in registers}

may_alias(i, j) ==
  /\ SiteOf(i).caller = SiteOf(j).caller
  /\ trace_root_set(build_free_site_for_edge(i))
       \cap trace_root_set(build_free_site_for_edge(j)) # {}

-----------------------------------------------------------------------------
(* The rules.                                                              *)

CrossFamilyFree(x) ==
  {Candidate("CrossFamilyFree", x, {p[1], p[2]}) :
     p \in {q \in EdgesOf(x, {"Acquire"}) \X EdgesOf(x, ReleaseOrCross) :
             Incompatible(q[1], q[2]) /\ {SiteOf(q[1]).caller, SiteOf(q[2]).caller} \cap Thunk = {}}}

(* Releases by a deallocator in several functions are taken to be of       *)
(* pointers that have only the instance in common.                         *)
DoubleRelease(x) ==
  LET releases == EdgesOf(x, Freeing)
      first == Min(releases) IN
  {[kind |-> "DoubleRelease", instance |-> x, edges |-> {first, i}, aliased |-> may_alias(first, i)] :
     i \in {j \in releases :
             /\ j # first
             /\ SiteOf(first).callee \in PureDeallocator => SiteOf(j).caller = SiteOf(first).caller}}

BorrowEscape(is, x) ==
  {Candidate("BorrowEscape", x, es) :
     es \in {EdgesOf(x, {"EscapesToCallback"}) : s \in InstanceState(is, x)} \ {{}}}

BorrowedCandidates(is, x) ==
  IF ~BornBorrowed(x) THEN {}
  ELSE BorrowEscape(is, x) \cup
       {Candidate("InvalidBorrowedFree", x, es) :
          es \in {EdgesOf(x, Freeing) : s \in InstanceState(is, x)} \ {{}}}

Use == {"EscapesToCallback", "ReturnsBorrowed", "ConsumesArg", "StoresArgToOwner",
        "StoresArgToGlobal"}

UsesBefore(x, releases) == {i \in EdgesOf(x, Use) : \A r \in releases : i < r}   \* mutant

UsesAfter(x, releases) == {i \in EdgesOf(x, Use) : \A r \in releases : r < i}

UseAfterFree(is, x) ==
  LET releases == EdgesOf(x, Freeing)
      uses == UsesAfter(x, releases) IN
  IF /\ releases # {} /\ uses # {}
     /\ "Released" \in InstanceState(is, x) /\ ~BornBorrowed(x)
  THEN {Candidate("UseAfterFree", x, uses)} ELSE {}

DoubleReclaim(x) ==
  LET reclaims == EdgesOf(x, {"OwnershipReclaim"}) IN
  {Candidate("DoubleReclaim", x, {i}) : i \in {j \in reclaims : \E r \in reclaims : r < j}}

OwnershipEscapeLeak(x) ==
  LET escapes == EdgesOf(x, {"OwnershipEscape"}) IN
  IF escapes # {} /\ EdgesOf(x, {"OwnershipReclaim"}) = {}
  THEN {Candidate("OwnershipEscapeLeak", x, {Min(escapes)})} ELSE {}

CrossFamilyReclaim(x) ==
  {Candidate("CrossFamilyFree", x, {p[1], p[2]}) :
     p \in {q \in EdgesOf(x, {"Acquire"}) \X EdgesOf(x, {"OwnershipReclaim"}) :
             graph.edges[q[1]].family \notin RustFamily /\ Incompatible(q[1], q[2])}}

NeedsModel(x) ==
  IF EdgesOf(x, {"Acquire", "OwnershipEscape"}) # {} THEN {}
  ELSE {Candidate("NeedsModel", x, {i}) : i \in EdgesOf(x, {"OwnershipReclaim"})}

GroupCandidates(is, x) ==
  CrossFamilyFree(x) \cup DoubleRelease(x) \cup BorrowedCandidates(is, x)
  \cup UseAfterFree(is, x) \cup DoubleReclaim(x) \cup OwnershipEscapeLeak(x)
  \cup CrossFamilyReclaim(x) \cup NeedsModel(x)

is_leak_candidate(instance) == instance.state \in {"Acquired", "Retained"}

ConditionalLeaks(is) ==
  {Candidate("ConditionalLeak", is[i].id, {}) :
     i \in {j \in DOMAIN is : /\ is_leak_candidate(is[j])
                             /\ InstanceFunction(is[j].id) \notin StdLibrary \cup NonAllocator}}

(* The functions a candidate is filed under: alloc_function and            *)
(* release_function.                                                       *)
FiledUnder(c) ==
  CASE c.kind = "CrossFamilyFree" -> {SiteOf(i).callee : i \in c.edges}
    [] c.kind \in {"BorrowEscape", "InvalidBorrowedFree", "UseAfterFree", "ConditionalLeak"} ->
         {InstanceFunction(c.instance)}
    [] OTHER -> {SiteOf(Max(c.edges)).callee}

(* The candidates, without those of a custom allocator's own functions.    *)
IssueCandidates(is) ==
  {c \in (UNION {GroupCandidates(is, x) : x \in Groups}) \cup ConditionalLeaks(is) :
     FiledUnder(c) \cap Shim = {}}

-----------------------------------------------------------------------------
(* LeakDetectionPass. *)

CONSTANTS OnlyAborts,      \* functions that never return
          MayAbort,        \* functions with an exit that does not return
          ReturnsPointer,  \* functions with a `ret` of a register
          Returnable,      \* malloc, calloc, realloc, _Znam, _Znwm
          RuntimeManaged,  \* symbols and functions with a managing runtime
          NewArray,        \* operator new[]
          Library,         \* functions of a library, by their summary
          SummaryOf        \* function -> effects of the summary with its number

Facts == {i \in DOMAIN Calls : Calls[i].callee \in DOMAIN Registry}
FactFamily(i) == Registry[Calls[i].callee].family
IsAcquire(s) == s \in DOMAIN Registry /\ Registry[s].effect \in AcquireFact

AllocSites == {i \in Facts : IsAcquire(Calls[i].callee)}

(* count_alloc_release_in_facts: the facts of the function, and those of   *)
(* the allocator anywhere.                                                 *)
OfScope(i, j) == Calls[j].caller = Calls[i].caller \/ Calls[j].callee = Calls[i].callee

Counted(i) == {j \in Facts : FactFamily(j) = FactFamily(i) /\ OfScope(i, j)}
alloc_count(i) == Cardinality(Counted(i) \cap AllocSites)
release_count(i) == Cardinality(Counted(i) \ AllocSites)

SummaryEffects(f) ==
  IF f \in DOMAIN SummaryOf THEN {SummaryOf[f][n] : n \in DOMAIN SummaryOf[f]} ELSE {}

SummarySays(i, effects) ==
  \E e \in SummaryEffects(Calls[i].caller) : e.family = FactFamily(i) /\ e.effect \in effects

check_release_in_summaries(i) == SummarySays(i, {"Release", "ConditionalRelease"})

caller_returns_owned_resource(i) ==
  SummarySays(i, {"ReturnsOwned", "OutParamOwnedOnSuccess", "OwnershipEscape"})

allocation_returned_to_caller(i) ==
  Calls[i].caller \in ReturnsPointer /\ Calls[i].callee \in Returnable

is_runtime_managed(i) == {Calls[i].caller, Calls[i].callee} \cap RuntimeManaged # {}

-----------------------------------------------------------------------------
Partial(i) == release_count(i) > 0 /\ release_count(i) < alloc_count(i)

ByCounting(i) ==
  IF release_count(i) >= alloc_count(i) THEN "Safe"
  ELSE IF Partial(i) \/ check_release_in_summaries(i) THEN "Conditional"
  ELSE IF caller_returns_owned_resource(i) \/ allocation_returned_to_caller(i) THEN "Safe"
  ELSE "Definite"

CountsAlone(i) ==
  IF release_count(i) >= alloc_count(i) THEN "Safe"
  ELSE IF Partial(i) THEN "Conditional" ELSE "Definite"

(* collect_exit_states and determine_leak_type: an owned slot is still     *)
(* owned at the exit, unless it holds a result, which may be returned.     *)
ExitsOwned(i, s) ==
  /\ s.state = "Owned" /\ s.kind # "result"
  /\ Calls[i].caller \notin OnlyAborts
  /\ ~is_runtime_managed(i) /\ ~caller_returns_owned_resource(i)

ByExitStates(i, slots) ==
  LET exits == {s \in slots : s.function = Calls[i].caller}
      owned == {s \in exits : ExitsOwned(i, s)} IN
  IF exits = {} THEN CountsAlone(i)
  ELSE IF owned = {} THEN "Safe"
  ELSE IF owned = exits THEN "Definite"
  ELSE "Conditional"

CrossValidated(c, p) ==
  IF c = "Safe" THEN "Safe" ELSE IF p \in {"Safe", c} THEN c ELSE "Conditional"

-----------------------------------------------------------------------------
(* What overrules the two, in the code's order.                            *)

WithSummary(i, type) ==
  IF type = "Safe" \/ ~check_release_in_summaries(i) THEN type
  ELSE IF Partial(i) THEN "Conditional" ELSE "Safe"

WithTermination(i, type) ==
  IF Calls[i].caller \in OnlyAborts THEN "Safe"
  ELSE IF type = "Definite" /\ Calls[i].caller \in MayAbort THEN "Conditional"
  ELSE type

ReturnsOwnedCaller(f) ==
  \E n \in DOMAIN graph.edges :
    graph.edges[n].effect = "ReturnsOwned" /\ graph.edges[n].site.caller = f

WithCallers(i, type) ==
  IF \/ caller_returns_owned_resource(i) \/ ReturnsOwnedCaller(Calls[i].caller)
     \/ is_runtime_managed(i)
     \/ type = "Conditional" /\ Calls[i].callee \in NewArray /\ release_count(i) > 0
  THEN "Safe" ELSE type

LeakType(i, slots) ==
  WithCallers(i, WithTermination(i, WithSummary(i,
    CrossValidated(ByCounting(i), ByExitStates(i, slots)))))

-----------------------------------------------------------------------------
MAX_DEPTH == 16

only_itself(f) == {f}   \* mutant: no call path is followed

CalledFrom(fs) == {Calls[j].callee : j \in {c \in DOMAIN Calls : Calls[c].caller \in fs}}

reachable_functions(f) ==
  LET within[d \in 0 .. MAX_DEPTH] ==
        IF d = 0 THEN {f} ELSE within[d - 1] \cup CalledFrom(within[d - 1])
  IN within[MAX_DEPTH]

(* Release edges of the family that a call path leads to.  An edge of the  *)
(* facts and one of the calls may stand for the same release.              *)
ReachableReleases(i) ==
  release_call_sites_in(graph, FactFamily(i), reachable_functions(Calls[i].caller))

family_alloc_count(i) ==
  Cardinality({j \in AllocSites : FactFamily(j) = FactFamily(i)})
  + Cardinality({s \in module.declared \ Called : IsAcquire(s) /\ Registry[s].family = FactFamily(i)})

LeakCandidateOf(i, slots) ==
  LET type == LeakType(i, slots)
      paired == Cardinality(ReachableReleases(i)) IN
  CASE type = "Definite" /\ paired = 0 -> "DefiniteLeak"
    [] type = "Conditional" /\ paired > 0 /\ paired >= family_alloc_count(i) -> "Diagnostic"
    [] type = "Conditional" /\ (paired = 0 \/ paired < family_alloc_count(i)) -> "ConditionalLeak"
    [] OTHER -> "none"

(* Functions of a library are not looked at.                               *)
LeakCandidates(slots) ==
  {c \in {[call |-> i, kind |-> LeakCandidateOf(i, slots)] :
           i \in {j \in AllocSites : Calls[j].caller \notin Library}} : c.kind # "none"}
=============================================================================
