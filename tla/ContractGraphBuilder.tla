------------------------- MODULE ContractGraphBuilder -------------------------
(***************************************************************************)
(* ContractGraphBuilderPass::run, with the facts RawFactCollector feeds    *)
(* it.  The graph is built twice over: once from the raw facts, in call    *)
(* order, and once per calling function from the calls of the IR, where    *)
(* acquires, releases, escapes and reclaims are collected first and paired *)
(* after that.  Then releases in callees are paired with acquires in their *)
(* callers, uses of freed pointers are added, and the memory graph is      *)
(* filled from the edges.  Names are looked up in tables; the registers of *)
(* a function are the calls (and address computations) that define them.   *)
(***************************************************************************)
EXTENDS FiniteSets, SequencesExt, Naturals, Sequences

-----------------------------------------------------------------------------
(***************************************************************************)
(* The resource contract graph: a list of edges and the counter that gives *)
(* every resource instance its id.  0 is not an instance: it stands for    *)
(* the origin of an acquire and for the end of a release.                  *)
(***************************************************************************)


CONSTANTS Family,        \* resource families (FamilyId)
          UnknownFamily, \* FamilyId::UNKNOWN
          HeapFamily,    \* families whose pointers come from a heap
          CompatiblePair,\* <<acquire, release>>: compatible_releases of acquire
          Language       \* family -> the language group it is of

ASSUME FamilyAssumption ==
  /\ UnknownFamily \in Family
  /\ HeapFamily \subseteq Family
  /\ CompatiblePair \subseteq Family \X Family
  /\ DOMAIN Language \subseteq Family

(* Also FamilyRegistry::is_compatible_release. *)
are_families_compatible(a, r) == a = r \/ <<a, r>> \in CompatiblePair

is_cross_language_mismatch(a, r) ==
  {a, r} \subseteq DOMAIN Language /\ Language[a] # Language[r]

-----------------------------------------------------------------------------
EmptyGraph == [edges |-> <<>>, next_instance_id |-> 1]

(***************************************************************************)
(* `site` is where an edge comes from: its caller_name, its function_name  *)
(* (callee), and, for the properties, the call it stands for and the part  *)
(* of the builder that made it.                                            *)
(***************************************************************************)
Site(caller, callee, call, by) ==
  [caller |-> caller, callee |-> callee, call |-> call, by |-> by]

ContractEdge(source, target, effect, result, family, site) ==
  [source |-> source, target |-> target, effect |-> effect, result |-> result,
   family |-> family, site |-> site]

(* The id is g.next_instance_id, the graph is this one. *)
alloc_instance(g) == [g EXCEPT !.next_instance_id = @ + 1]

add_edge(g, e) == [g EXCEPT !.edges = Append(@, e)]

add_edges(g, es) == [g EXCEPT !.edges = @ \o es]

AcquireEdge(id, family, site) == ContractEdge(0, id, "Acquire", id, family, site)

ReleaseEdge(source, effect, family, site) ==
  ContractEdge(source, 0, effect, 0, family, site)

ReleaseEffect == {"Release", "ConditionalRelease", "CrossLanguageFree", "NullGuardedRelease"}

ReleasesOf(g, family) ==
  {k \in DOMAIN g.edges : g.edges[k].effect \in ReleaseEffect /\ g.edges[k].family = family}

(* Of a known symbol that nobody calls, the symbol is the site.            *)
release_call_site(e) == IF e.site.caller # "" THEN e.site.caller ELSE e.site.callee

release_call_sites_in(g, family, functions) ==
  {k \in ReleasesOf(g, family) : release_call_site(g.edges[k]) \in functions}

-----------------------------------------------------------------------------


CONSTANTS Registry,     \* FamilyRegistry::lookup, symbol -> [effect, family]
          FfiDb,        \* FFIContractDB::lookup, symbol -> [effect, family]
          Summary,      \* SummaryStore, symbol -> sequence of [effect, family]
          NoFamily,     \* the family of a contract without one
          NonAllocator, \* is_non_allocator_api
          CallbackApi,  \* is_callback_registration_api
          FreeCall,     \* free, _ZdaPv and _ZdlPv: the calls that free a register
          GuardFree,    \* the frees that make the next call worth a look
          Indirect,     \* the callee of a call through a pointer
          Gep,          \* the callee of an address computation, which is no call
          Modules       \* what is analysed: [calls, declared]

VARIABLES module,              \* .calls: sequence of [caller, callee, arg]
          pc, k,               \* the loop that runs, and its index
          todo,                \* what the loop over a hash map has left
          graph,
          acquire_instances,   \* raw facts: <<function, family>> -> queue of ids
          caller,              \* the function whose calls are paired
          func_acquires, func_releases, func_escapes, func_reclaims,
          escape_claimed, reclaim_fallback_id,
          memory               \* state of each node of the memory graph

(* enum Effect. *)
Effect ==
  {"Acquire", "Release", "ConditionalRelease", "Retain", "ReturnsOwned", "ReturnsBorrowed",
   "ConsumesArg", "StoresArgToOwner", "StoresArgToGlobal", "InitializesOutParam",
   "EscapesToCallback", "OwnershipEscape", "OwnershipReclaim", "CrossLanguageFree",
   "NullGuardedRelease", "OutParamOwnedOnSuccess", "OutParamNullOnError", "NullStoreAfterRelease"}

ASSUME ModuleAssumption ==
  /\ \A m \in Modules : m.calls \in Seq([caller : STRING, callee : STRING, arg : Nat])
  /\ \A s \in DOMAIN Summary : Summary[s] \in Seq([effect : Effect, family : Family])

lists == <<func_acquires, func_releases, func_escapes, func_reclaims>>
claims == <<escape_claimed, reclaim_fallback_id>>
builderVars == <<module, pc, k, todo, graph, acquire_instances, caller, lists, claims, memory>>

Calls == module.calls
Called == {Calls[i].callee : i \in DOMAIN Calls}
Callers == {Calls[i].caller : i \in DOMAIN Calls}

Upward(numbers, last) ==
  LET upto[i \in 0 .. last] ==
        IF i = 0 THEN <<>> ELSE IF i \in numbers THEN Append(upto[i - 1], i) ELSE upto[i - 1]
  IN upto[last]

(* A set of calls, in the order of the module. *)
InOrder(calls) == Upward(calls, Len(Calls))

(* calls_by_caller: the calls of f, in their order. *)
CallsOf(f) == InOrder({i \in DOMAIN Calls : Calls[i].caller = f})

Here == CallsOf(caller)[k]
CallSite(i, by) == Site(Calls[i].caller, Calls[i].callee, i, by)

BuilderInit ==
  /\ module \in Modules
  /\ pc = "facts" /\ k = 1 /\ todo = {}
  /\ graph = EmptyGraph
  /\ acquire_instances = <<>>
  /\ caller = ""
  /\ func_acquires = <<>> /\ func_releases = <<>>
  /\ func_escapes = <<>> /\ func_reclaims = <<>>
  /\ escape_claimed = {} /\ reclaim_fallback_id = 0
  /\ memory = <<>>

Continue(phase, left) ==
  /\ pc' = phase
  /\ k' = 1
  /\ todo' = left

-----------------------------------------------------------------------------
(* The raw facts.  An escape is a release here; a reclaim is an acquire.   *)

AcquireFact == {"Acquire", "Retain", "Reclaim"}

(* The scope of a fact is the function it is in, or its own symbol.        *)
Scope(site) == IF site.caller = "" THEN site.callee ELSE site.caller

Queue(key) == IF key \in DOMAIN acquire_instances THEN acquire_instances[key] ELSE <<>>

RawAcquire(site) ==
  /\ site.callee \in DOMAIN Registry
  /\ Registry[site.callee].effect \in AcquireFact
  /\ IF site.callee \in NonAllocator
     THEN UNCHANGED <<graph, acquire_instances>>
     ELSE LET family == Registry[site.callee].family
              id == graph.next_instance_id
              key == <<Scope(site), family>> IN
          /\ graph' = add_edge(alloc_instance(graph), AcquireEdge(id, family, site))
          /\ acquire_instances' = [q \in DOMAIN acquire_instances \cup {key} |->
                                     IF q = key THEN Append(Queue(q), id) ELSE Queue(q)]

(* Queues of the other known families that may not release into `family`.  *)
ViableQueues(scope, family) ==
  {q \in DOMAIN acquire_instances :
     /\ q[1] = scope
     /\ Queue(q) # <<>>
     /\ UnknownFamily \notin {q[2], family}
     /\ ~are_families_compatible(q[2], family)}

(***************************************************************************)
(* The queue a release takes from, if any.  A family that was acquired in  *)
(* the function is never paired with another, even when its queue is dry.  *)
(* Two viable queues hold two instances at least, which is too ambiguous.  *)
(***************************************************************************)
MatchedQueue(scope, family) ==
  IF <<scope, family>> \in DOMAIN acquire_instances
  THEN {q \in {<<scope, family>>} : Queue(q) # <<>>}
  ELSE {q \in ViableQueues(scope, family) : ViableQueues(scope, family) = {q}}

RawReleaseEffect(alloc, family) ==
  IF alloc = family THEN "Release"
  ELSE IF is_cross_language_mismatch(alloc, family) THEN "CrossLanguageFree"
  ELSE "ConditionalRelease"

RawReleaseNewest(site) ==       \* mutant: last in, first out
  /\ site.callee \in DOMAIN Registry
  /\ Registry[site.callee].effect \notin AcquireFact
  /\ LET family == Registry[site.callee].family
         matched == MatchedQueue(Scope(site), family) IN
     \/ \E q \in matched :
          /\ graph' = add_edge(graph, ReleaseEdge(Last(Queue(q)), RawReleaseEffect(q[2], family),
                                                  family, site))
          /\ acquire_instances' = [acquire_instances EXCEPT ![q] = Front(@)]
     \/ /\ matched = {}
        /\ graph' = add_edge(alloc_instance(graph),
                             ReleaseEdge(graph.next_instance_id, "Release", family, site))
        /\ UNCHANGED acquire_instances

RawRelease(site) ==
  /\ site.callee \in DOMAIN Registry
  /\ Registry[site.callee].effect \notin AcquireFact
  /\ LET family == Registry[site.callee].family
         matched == MatchedQueue(Scope(site), family) IN
     \/ \E q \in matched :
          /\ graph' = add_edge(graph, ReleaseEdge(Head(Queue(q)), RawReleaseEffect(q[2], family),
                                                  family, site))
          /\ acquire_instances' = [acquire_instances EXCEPT ![q] = Tail(@)]
     \/ /\ matched = {}
        /\ graph' = add_edge(alloc_instance(graph),
                             ReleaseEdge(graph.next_instance_id, "Release", family, site))
        /\ UNCHANGED acquire_instances

NoFact(site) ==
  /\ site.callee \notin DOMAIN Registry
  /\ UNCHANGED <<graph, acquire_instances>>

CallFact ==
  /\ pc = "facts" /\ k <= Len(Calls)
  /\ LET site == CallSite(k, "fact") IN RawAcquire(site) \/ RawRelease(site) \/ NoFact(site)
  /\ k' = k + 1
  /\ UNCHANGED <<module, pc, todo, caller, lists, claims, memory>>

CallFactsEnd ==
  /\ pc = "facts" /\ k > Len(Calls)
  /\ Continue("declared", (module.declared \cap DOMAIN Registry) \ Called)
  /\ UNCHANGED <<module, graph, acquire_instances, caller, lists, claims, memory>>

(* A known symbol that nobody calls still makes a fact of its own.         *)
DeclaredFact ==
  /\ pc = "declared"
  /\ \E s \in todo :
       /\ RawAcquire(Site("", s, 0, "fact")) \/ RawRelease(Site("", s, 0, "fact"))
       /\ todo' = todo \ {s}
  /\ UNCHANGED <<module, pc, k, caller, lists, claims, memory>>

DeclaredFactsEnd ==
  /\ pc = "declared" /\ todo = {}
  /\ Continue("callers", Callers)
  /\ UNCHANGED <<module, graph, acquire_instances, caller, lists, claims, memory>>

-----------------------------------------------------------------------------
(* The scan of one function's calls, into the four lists.                  *)

NextCaller ==
  /\ pc = "callers"
  /\ \E f \in todo :
       /\ caller' = f
       /\ Continue("scan", todo \ {f})
  /\ func_acquires' = <<>> /\ func_releases' = <<>>
  /\ func_escapes' = <<>> /\ func_reclaims' = <<>>
  /\ UNCHANGED <<module, graph, acquire_instances, claims, memory>>

FfiEffect ==
  [Allocator |-> "Acquire", Deallocator |-> "Release", Releaser |-> "ConditionalRelease",
   Transfer |-> "Escape", Retainer |-> "None", Borrower |-> "None"]

Lookup(s) ==
  IF s \in DOMAIN Registry THEN Registry[s]
  ELSE IF s \in DOMAIN FfiDb
  THEN [effect |-> FfiEffect[FfiDb[s].effect], family |-> FfiDb[s].family]
  ELSE [effect |-> "None", family |-> NoFamily]

Found == Lookup(Calls[Here].callee)

Entry(id) == [id |-> id, family |-> Found.family, call |-> Here]

Scanning(effects) ==
  /\ pc = "scan" /\ k <= Len(CallsOf(caller))
  /\ Calls[Here].callee \notin DOMAIN Summary
  /\ Found.effect \in effects
  /\ k' = k + 1
  /\ UNCHANGED <<module, pc, todo, acquire_instances, caller, claims, memory>>

(* An allocator without a family takes an id and leaves it.                *)
ScanAcquire ==
  /\ Scanning({"Acquire"})
  /\ LET skip == Calls[Here].callee \in NonAllocator IN
     /\ graph' = IF skip THEN graph ELSE alloc_instance(graph)
     /\ func_acquires' = IF skip \/ Found.family = NoFamily THEN func_acquires
                         ELSE Append(func_acquires, Entry(graph.next_instance_id))
  /\ UNCHANGED <<func_releases, func_escapes, func_reclaims>>

ScanReclaim ==
  /\ Scanning({"Reclaim"})
  /\ graph' = alloc_instance(graph)
  /\ func_reclaims' = Append(func_reclaims, Entry(graph.next_instance_id))
  /\ UNCHANGED <<func_acquires, func_releases, func_escapes>>

ScanRelease ==
  /\ Scanning({"Release", "ConditionalRelease"})
  /\ func_releases' = IF Found.family = NoFamily THEN func_releases
                      ELSE Append(func_releases, [effect |-> Found.effect, family |-> Found.family,
                                             call |-> Here])
  /\ UNCHANGED <<graph, func_acquires, func_escapes, func_reclaims>>

ScanEscape ==
  /\ Scanning({"Escape"})
  /\ IF Found.family = NoFamily THEN UNCHANGED <<graph, func_escapes>>
     ELSE /\ graph' = alloc_instance(graph)
          /\ func_escapes' = Append(func_escapes, Entry(graph.next_instance_id))
  /\ UNCHANGED <<func_acquires, func_releases, func_reclaims>>

ScanOther ==
  /\ Scanning({"Retain", "None"})
  /\ UNCHANGED <<graph, lists>>

(* effect_to_contract_edge.  The edges of a summary know no instance: they *)
(* have a new one as target or result, or none at all.                     *)
SummaryEdge(g, e, site) ==
  LET id == g.next_instance_id IN
  CASE e.effect = "Acquire" -> add_edge(alloc_instance(g), AcquireEdge(id, e.family, site))
    [] e.effect \in {"OutParamOwnedOnSuccess", "ReturnsOwned"} ->
         add_edge(alloc_instance(g), ContractEdge(0, id, e.effect, 0, e.family, site))
    [] e.effect = "OwnershipEscape" ->
         add_edge(alloc_instance(g), ContractEdge(0, 0, e.effect, id, e.family, site))
    [] e.effect = "OwnershipReclaim" ->
         add_edge(alloc_instance(g), ContractEdge(id, id, e.effect, id, e.family, site))
    [] OTHER -> add_edge(g, ContractEdge(0, 0, e.effect, 0, e.family, site))

SummaryEdges(g, effects, site) ==
  LET after[n \in 0 .. Len(effects)] ==
        IF n = 0 THEN g ELSE SummaryEdge(after[n - 1], effects[n], site)
  IN after[Len(effects)]

ScanSummary ==
  /\ pc = "scan" /\ k <= Len(CallsOf(caller))
  /\ Calls[Here].callee \in DOMAIN Summary
  /\ graph' = SummaryEdges(graph, Summary[Calls[Here].callee], CallSite(Here, "summary"))
  /\ k' = k + 1
  /\ UNCHANGED <<module, pc, todo, acquire_instances, caller, lists, claims, memory>>

(* The end of the scan: an edge for every acquire.                         *)
AcquireEdges ==
  /\ pc = "scan" /\ k > Len(CallsOf(caller))
  /\ graph' = add_edges(graph, [i \in DOMAIN func_acquires |->
                 LET a == func_acquires[i] IN AcquireEdge(a.id, a.family, CallSite(a.call, "call"))])
  /\ Continue("releases", todo)
  /\ UNCHANGED <<module, acquire_instances, caller, lists, claims, memory>>

-----------------------------------------------------------------------------
(* Pairing: each release and each escape consumes an acquire.              *)

OfFamily(family) == SelectInSeq(func_acquires, LAMBDA a : a.family = family)

(* The position in func_acquires of what a release consumes, 0 for none.   *)
ReleaseMatch(family) ==
  LET viable == {i \in DOMAIN func_acquires :
                   /\ UnknownFamily \notin {func_acquires[i].family, family}
                   /\ ~are_families_compatible(func_acquires[i].family, family)} IN
  IF OfFamily(family) # 0 THEN OfFamily(family)
  ELSE IF Cardinality(viable) = 1 THEN CHOOSE i \in viable : TRUE
  ELSE 0

KeepMatched(i) == UNCHANGED func_acquires     \* mutant: find without remove

Consume(i) == func_acquires' = IF i = 0 THEN func_acquires ELSE RemoveAt(func_acquires, i)

MatchedId(i, otherwise) == IF i = 0 THEN otherwise ELSE func_acquires[i].id

ReleaseOne ==
  /\ pc = "releases" /\ k <= Len(func_releases)
  /\ LET r == func_releases[k]
         i == ReleaseMatch(r.family) IN
     /\ graph' = add_edge(graph, ReleaseEdge(MatchedId(i, 0), r.effect, r.family,
                                             CallSite(r.call, "call")))
     /\ Consume(i)
  /\ k' = k + 1
  /\ UNCHANGED <<module, pc, todo, acquire_instances, caller, func_releases, func_escapes,
                 func_reclaims, claims, memory>>

ReleasesEnd ==
  /\ pc = "releases" /\ k > Len(func_releases)
  /\ Continue("escapes", todo)
  /\ UNCHANGED <<module, graph, acquire_instances, caller, lists, claims, memory>>

EscapeOne ==
  /\ pc = "escapes" /\ k <= Len(func_escapes)
  /\ LET e == func_escapes[k]
         i == OfFamily(e.family) IN
     /\ graph' = add_edge(graph, ContractEdge(MatchedId(i, e.id), 0, "OwnershipEscape", e.id,
                                              e.family, CallSite(e.call, "call")))
     /\ Consume(i)
  /\ k' = k + 1
  /\ UNCHANGED <<module, pc, todo, acquire_instances, caller, func_releases, func_escapes,
                 func_reclaims, claims, memory>>

EscapesEnd ==
  /\ pc = "escapes" /\ k > Len(func_escapes)
  /\ Continue("reclaims", todo)
  /\ escape_claimed' = {} /\ reclaim_fallback_id' = 0
  /\ UNCHANGED <<module, graph, acquire_instances, caller, lists, memory>>

(***************************************************************************)
(* What a reclaim takes: an escape of its family, any escape, an acquire   *)
(* of its family, any acquire, none of them claimed before; or else the    *)
(* first reclaim that found nothing either, which may be itself.           *)
(***************************************************************************)
Unclaimed(s, family) ==
  LET i == SelectInSeq(s, LAMBDA x : x.id \notin escape_claimed
                                      /\ family \in {x.family, NoFamily}) IN
  IF i = 0 THEN 0 ELSE s[i].id

ReclaimTarget(r) ==
  LET choices == <<Unclaimed(func_escapes, r.family), Unclaimed(func_escapes, NoFamily),
                   Unclaimed(func_acquires, r.family), Unclaimed(func_acquires, NoFamily),
                   reclaim_fallback_id, r.id>> IN
  choices[SelectInSeq(choices, LAMBDA x : x # 0)]

ReclaimOne ==
  /\ pc = "reclaims" /\ k <= Len(func_reclaims)
  /\ LET r == func_reclaims[k]
         target == ReclaimTarget(r) IN
     /\ graph' = add_edge(graph, ContractEdge(target, r.id, "OwnershipReclaim", r.id, r.family,
                                              CallSite(r.call, "call")))
     /\ escape_claimed' = IF target = r.id THEN escape_claimed ELSE escape_claimed \cup {target}
     /\ reclaim_fallback_id' = IF target = r.id THEN r.id ELSE reclaim_fallback_id
  /\ k' = k + 1
  /\ UNCHANGED <<module, pc, todo, acquire_instances, caller, lists, memory>>

ReclaimsEnd ==
  /\ pc = "reclaims" /\ k > Len(func_reclaims)
  /\ Continue("callbacks", todo)
  /\ UNCHANGED <<module, graph, acquire_instances, caller, lists, claims, memory>>

-----------------------------------------------------------------------------
(* The userdata of a callback, unless something of the heap is around.     *)

HasHeapSource ==
  func_escapes # <<>> \/ \E i \in DOMAIN func_acquires : func_acquires[i].family \in HeapFamily

CallbackOne ==
  /\ pc = "callbacks" /\ k <= Len(CallsOf(caller))
  /\ IF Calls[Here].callee \notin CallbackApi \/ HasHeapSource
     THEN UNCHANGED graph
     ELSE LET borrowed == func_acquires = <<>>
              id == IF borrowed THEN graph.next_instance_id ELSE func_acquires[1].id IN
          graph' = add_edge(IF borrowed THEN alloc_instance(graph) ELSE graph,
                            ContractEdge(id, 0, "EscapesToCallback", 0, NoFamily,
                                         CallSite(Here, "call")))
  /\ k' = k + 1
  /\ UNCHANGED <<module, pc, todo, acquire_instances, caller, lists, claims, memory>>

(* propagate_ptr_lifetime_across_functions: calls of the two roles.        *)
Role(s) == IF Lookup(s).family = NoFamily THEN "None" ELSE Lookup(s).effect

CallsWithRole(f, roles) ==
  InOrder({i \in DOMAIN Calls : Calls[i].caller = f /\ Role(Calls[i].callee) \in roles})

ReleasesIn(f) == CallsWithRole(f, {"Release", "ConditionalRelease"})
AcquiresIn(f) == CallsWithRole(f, AcquireFact)

(* Functions with more releases than acquires, and who calls them.         *)
OrphanPairs ==
  {<<Calls[i].callee, Calls[i].caller>> : i \in
     {j \in DOMAIN Calls : LET f == Calls[j].callee IN
        f \in Callers /\ Len(ReleasesIn(f)) > Len(AcquiresIn(f))}}

CallersEnd ==
  /\ pc = "callbacks" /\ k > Len(CallsOf(caller))
  /\ IF todo = {} THEN Continue("propagate", OrphanPairs) ELSE Continue("callers", todo)
  /\ caller' = ""
  /\ UNCHANGED <<module, graph, acquire_instances, lists, claims, memory>>

-----------------------------------------------------------------------------
(* Releases of a callee and acquires of its caller get instances together. *)

FamilyAt(i) == Lookup(Calls[i].callee).family

KeepPaired(s, j) == s           \* mutant: the acquire may be paired again

Unpaired(s, j) == RemoveAt(s, j)

PairAcross(pair, r) ==
  LET same == SelectInSeq(pair.acquires, LAMBDA i : FamilyAt(i) = FamilyAt(r))
      j == IF same # 0 THEN same ELSE 1 IN
  IF pair.acquires = <<>> THEN pair
  ELSE LET a == pair.acquires[j]
           id == pair.graph.next_instance_id
           effect == IF FamilyAt(a) = FamilyAt(r) THEN "Release" ELSE "ConditionalRelease"
           acquired == add_edge(alloc_instance(pair.graph),
                                AcquireEdge(id, FamilyAt(a), CallSite(a, "cross"))) IN
       [graph |-> add_edge(acquired, ReleaseEdge(id, effect, FamilyAt(r), CallSite(r, "cross"))),
        acquires |-> Unpaired(pair.acquires, j)]

(* The releases one by one. *)
PairedAcross(releases, acquires) ==
  LET after[n \in 0 .. Len(releases)] ==
        IF n = 0 THEN [graph |-> graph, acquires |-> acquires]
        ELSE PairAcross(after[n - 1], releases[n])
  IN after[Len(releases)].graph

(* The acquires of a caller, of which calls of the function itself are none. *)
AcquiresBut(f, g) ==
  InOrder({i \in DOMAIN Calls : /\ Calls[i].caller = f /\ Calls[i].callee # g
                                /\ Role(Calls[i].callee) \in AcquireFact})

(* All callers of one function before those of the next. *)
Propagate ==
  /\ pc = "propagate"
  /\ \E p \in todo :
       /\ caller # p[1] => \A q \in todo : q[1] # caller
       /\ graph' = PairedAcross(ReleasesIn(p[1]), AcquiresBut(p[2], p[1]))
       /\ caller' = p[1]
       /\ todo' = todo \ {p}
  /\ UNCHANGED <<module, pc, k, acquire_instances, lists, claims, memory>>

PropagateEnd ==
  /\ pc = "propagate" /\ todo = {}
  /\ Continue("postfree", Callers)
  /\ UNCHANGED <<module, graph, acquire_instances, caller, lists, claims, memory>>

-----------------------------------------------------------------------------
(* detect_post_free_call_use: registers that were freed and are used.      *)

ReleaseOrCross == {"Release", "ConditionalRelease", "CrossLanguageFree"}

(* Sources of the release edges of f, in the order of the edges.           *)
ReleasedIds(f) ==
  LET acquired == {e.result : e \in {d \in Range(graph.edges) : d.effect = "Acquire"}}
      released == {e.source : e \in {d \in Range(graph.edges) :
                                       d.effect \in {"Release", "ConditionalRelease"}}}
      ofF == Upward({n \in DOMAIN graph.edges : /\ graph.edges[n].effect \in ReleaseOrCross
                                                /\ graph.edges[n].source \in acquired \cap released
                                                /\ graph.edges[n].site.caller = f},
                    Len(graph.edges)) IN
  [i \in DOMAIN ofF |-> graph.edges[ofF[i]].source]

(* The map `m` with a value for x. *)
With(m, x, value) == [y \in DOMAIN m \cup {x} |-> IF y = x THEN value ELSE m[y]]

(* No function is an FFI boundary yet when the code asks: the              *)
(* configuration is applied after this.                                    *)
WorthALook(f) ==
  LET body == CallsOf(f) IN
  \/ \E i \in DOMAIN body : Calls[body[i]].callee = Indirect
  \/ \E i \in 1 .. Len(body) - 1 : /\ Calls[body[i]].callee \in GuardFree
                                   /\ Calls[body[i + 1]].callee # Gep

(***************************************************************************)
(* One instruction: `freed` maps the freed registers to instances (0 for   *)
(* a free beyond those known), `next` counts the frees, `found` the edges. *)
(***************************************************************************)
PostFree(ids, at, i) ==
  LET c == Calls[i]
      isFreed == c.arg \in DOMAIN at.freed
      id == IF at.freed[c.arg] = 0 THEN ids[1] ELSE at.freed[c.arg] IN
  CASE c.callee \in FreeCall ->
         LET known == at.next <= Len(ids)
             old == IF isFreed THEN at.freed[c.arg] ELSE 0 IN
         [at EXCEPT !.freed = With(@, c.arg, IF known THEN ids[at.next] ELSE old),
                    !.next = IF known THEN @ + 1 ELSE @]
    [] c.callee = Gep /\ isFreed -> [at EXCEPT !.freed = With(@, i, @[c.arg])]
    [] c.callee \notin FreeCall \cup {Gep} /\ isFreed ->
         [at EXCEPT !.found = Append(@, ContractEdge(id, 0, "ConsumesArg", 0, "C_HEAP",
                                                     CallSite(i, "use")))]
    [] OTHER -> at

PostFreeUses(f) ==
  LET ids == ReleasedIds(f) IN
  IF ids = <<>> \/ ~WorthALook(f) THEN <<>>
  ELSE LET body == CallsOf(f)
           after[n \in 0 .. Len(body)] ==
             IF n = 0 THEN [freed |-> <<>>, next |-> 1, found |-> <<>>]
             ELSE PostFree(ids, after[n - 1], body[n])
       IN after[Len(body)].found

(* The edges wait until all functions are done; they release nothing.      *)
PostFreeOne ==
  /\ pc = "postfree"
  /\ \E f \in todo :
       /\ graph' = add_edges(graph, PostFreeUses(f))
       /\ todo' = todo \ {f}
  /\ UNCHANGED <<module, pc, k, acquire_instances, caller, lists, claims, memory>>

-----------------------------------------------------------------------------
(* The memory graph: a node per acquired instance, with its last state.    *)

MemoryAfter(m, e) ==
  CASE e.effect = "Acquire" -> With(m, e.result, "Owned")
    [] e.effect = "Release" /\ e.source \in DOMAIN m -> [m EXCEPT ![e.source] = "Released"]
    [] e.effect = "OwnershipEscape" /\ e.source \in DOMAIN m ->
         [m EXCEPT ![e.source] = "EscapedToCaller"]
    [] OTHER -> m

MemoryOf(es) ==
  LET after[n \in 0 .. Len(es)] == IF n = 0 THEN <<>> ELSE MemoryAfter(after[n - 1], es[n])
  IN after[Len(es)]

FillMemoryGraph ==
  /\ pc = "postfree" /\ todo = {}
  /\ memory' = MemoryOf(graph.edges)
  /\ Continue("built", {})
  /\ UNCHANGED <<module, graph, acquire_instances, caller, lists, claims>>

-----------------------------------------------------------------------------
BuilderNext ==
  \/ CallFact \/ CallFactsEnd \/ DeclaredFact \/ DeclaredFactsEnd
  \/ NextCaller
  \/ ScanAcquire \/ ScanReclaim \/ ScanRelease \/ ScanEscape \/ ScanOther \/ ScanSummary
  \/ AcquireEdges
  \/ ReleaseOne \/ ReleasesEnd \/ EscapeOne \/ EscapesEnd \/ ReclaimOne \/ ReclaimsEnd
  \/ CallbackOne \/ CallersEnd
  \/ Propagate \/ PropagateEnd
  \/ PostFreeOne \/ FillMemoryGraph

=============================================================================
