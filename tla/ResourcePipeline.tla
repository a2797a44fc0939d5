-------------------------- MODULE ResourcePipeline --------------------------
(***************************************************************************)
(* The resource passes, from the calls of a module to its candidates: the  *)
(* contract graph is built, the ownership solver runs over its edges, and  *)
(* the candidate builder and leak detection read what both left on the     *)
(* blackboard.  The solver is OwnershipSolver, whose arbitrary edges are   *)
(* here the ones the builder made.                                         *)
(***************************************************************************)
EXTENDS IssueCandidates

CONSTANTS Id, Caller, Arg, NoId, MaxEdges,  \* of the solver
          DropLike                          \* is_drop_like: releases by a destructor

VARIABLES solver_pc, seen, instances, instance_map, pointer_states, chain, escaped,
          reclaimed, escape_targets, reclaim_sources, drops,
          candidates,       \* "issue_candidates"
          leak_candidates   \* "leak_candidates"

solverVars == <<solver_pc, seen, instances, instance_map, pointer_states, chain, escaped,
                reclaimed, escape_targets, reclaim_sources, drops>>
vars == <<builderVars, solverVars, candidates, leak_candidates>>

S == INSTANCE OwnershipSolver WITH pc <- solver_pc, edges <- seen

Init ==
  /\ BuilderInit /\ S!Init
  /\ candidates = {} /\ leak_candidates = {}

Build == BuilderNext /\ UNCHANGED <<solverVars, candidates, leak_candidates>>

-----------------------------------------------------------------------------
(* The two loops of the solver over graph.edges.                           *)

Edge == graph.edges[k]

Solving(pass) ==
  /\ pc = "built" /\ solver_pc = pass /\ k <= Len(graph.edges)
  /\ k' = k + 1
  /\ UNCHANGED <<module, pc, todo, graph, acquire_instances, caller, lists, claims, memory,
                 candidates, leak_candidates>>

SolveAcquire ==
  /\ Solving("acquires")
  /\ IF Edge.effect = "Acquire" THEN S!Acquire(Edge.site.caller, Edge.result)
     ELSE UNCHANGED solverVars

SolverTurns ==
  /\ pc = "built" /\ solver_pc = "acquires" /\ k > Len(graph.edges)
  /\ S!AcquiresEnd
  /\ k' = 1
  /\ UNCHANGED <<module, pc, todo, graph, acquire_instances, caller, lists, claims, memory,
                 candidates, leak_candidates>>

(* The event of an effect that only concerns the instance.                 *)
PlainEvent ==
  [ConditionalRelease |-> "ConditionalRelease", CrossLanguageFree |-> "Release",
   Retain |-> "Retain", ReturnsBorrowed |-> "Borrow", ConsumesArg |-> "Transfer",
   StoresArgToOwner |-> "Escape", StoresArgToGlobal |-> "Escape",
   InitializesOutParam |-> "Escape"]

SolveEffect ==
  /\ Solving("effects")
  /\ LET f == Edge.site.caller
         x == Edge.source IN
     CASE Edge.effect = "Acquire" -> UNCHANGED solverVars
       [] Edge.effect = "Release" -> S!Release(f, x, 0, Edge.site.callee \in DropLike)
       [] Edge.effect \in DOMAIN PlainEvent -> S!PlainEffect(x, PlainEvent[Edge.effect])
       [] Edge.effect = "ReturnsOwned" -> S!ReturnsOwned(f, x)
       [] Edge.effect = "EscapesToCallback" -> S!EscapesToCallback(x)
       [] Edge.effect = "OwnershipEscape" -> S!OwnershipEscape(f, x, Edge.result)
       [] Edge.effect = "OwnershipReclaim" -> S!OwnershipReclaim(x, Edge.result)
       [] Edge.effect = "OutParamOwnedOnSuccess" -> S!OutParamOwnedOnSuccess(f, Edge.target, 0)
       [] Edge.effect = "OutParamNullOnError" -> S!OutParamNullOnError(f, x, 0)
       [] Edge.effect = "NullStoreAfterRelease" -> S!NullStoreAfterRelease(f, 0)
       [] Edge.effect = "NullGuardedRelease" -> S!NullGuardedRelease(f, x, 0)

SolverStores ==
  /\ pc = "built" /\ solver_pc = "effects" /\ k > Len(graph.edges)
  /\ S!Store
  /\ UNCHANGED <<builderVars, candidates, leak_candidates>>

-----------------------------------------------------------------------------
(* The passes that depend on the solver.                                   *)

KnownSlots ==
  {[function |-> s[1], kind |-> s[2], state |-> pointer_states[s].state] :
     s \in {t \in S!Slot : pointer_states[t] # S!None}}

FindCandidates ==
  /\ pc = "built" /\ solver_pc = "stored"
  /\ candidates' = IssueCandidates(instances)
  /\ leak_candidates' = LeakCandidates(KnownSlots)
  /\ pc' = "done"
  /\ UNCHANGED <<module, k, todo, graph, acquire_instances, caller, lists, claims, memory, solverVars>>

Next ==
  \/ Build
  \/ SolveAcquire \/ SolverTurns \/ SolveEffect \/ SolverStores
  \/ FindCandidates

Spec == Init /\ [][Next]_vars

-----------------------------------------------------------------------------
Done == pc = "done"

EdgeIs(i, effects) == graph.edges[i].effect \in effects
By(i) == SiteOf(i).by
CallOf(i) == SiteOf(i).call

(* What ends the ownership of an instance, apart from a later use.         *)
Ending == ReleaseOrCross \cup {"OwnershipEscape", "OwnershipReclaim"}

Consumers(x) == {i \in DOMAIN graph.edges : EdgeIs(i, Ending) /\ graph.edges[i].source = x}

AcquireEdgesOf == {i \in DOMAIN graph.edges : EdgeIs(i, {"Acquire"})}

InstanceOf(i) == graph.edges[i].result

(* The queue or the list an acquire is in is that of a function. *)
ListOf(i) == IF By(i) = "fact" THEN Scope(SiteOf(i)) ELSE SiteOf(i).caller

(***************************************************************************)
(* The queue of the raw facts and the lists of a function hand each        *)
(* acquired instance to one release, escape or reclaim at most, and those  *)
(* of one family in the order of their allocation, whatever the mixture of *)
(* the calls: even though releases, escapes and reclaims of the calls are  *)
(* paired one kind after the other.                                        *)
(***************************************************************************)
ConsumedInOrder ==
  /\ \A i \in AcquireEdgesOf : Cardinality(Consumers(InstanceOf(i))) <= 1
  /\ \A i, j \in AcquireEdgesOf :
       i < j /\ By(i) = By(j) /\ By(i) # "cross" /\ ListOf(i) = ListOf(j)
         /\ graph.edges[i].family = graph.edges[j].family
       => \A c \in Consumers(InstanceOf(j)) : \E d \in Consumers(InstanceOf(i)) : d < c

(***************************************************************************)
(* From the builder through the solver to the candidates: the instances    *)
(* reported as leaks are the owned ones that no edge after their birth     *)
(* releases, hands over, reclaims or passes on, but for those born in a    *)
(* function that may leak (of the C++ library or of an allocator).         *)
(***************************************************************************)
Births == {i \in DOMAIN graph.edges : EdgeIs(i, {"Acquire", "OwnershipReclaim", "OutParamOwnedOnSuccess"})}

BornAs(i) == IF EdgeIs(i, {"OutParamOwnedOnSuccess"}) THEN graph.edges[i].target ELSE InstanceOf(i)

MayLeak == StdLibrary \cup NonAllocator \cup Shim

PassedOn(i) ==
  \E j \in DOMAIN graph.edges :
    /\ EdgeIs(j, Ending \cup {"ConsumesArg", "EscapesToCallback"})
    /\ graph.edges[j].source = BornAs(i)
    /\ EdgeIs(i, {"Acquire"}) \/ i < j

LeaksAreUnconsumed ==
  Done => {c.instance : c \in {d \in candidates : d.kind = "ConditionalLeak"}}
          = {BornAs(i) : i \in {j \in Births : /\ ~PassedOn(j)
                                             /\ SiteOf(j).caller \notin MayLeak}}

(***************************************************************************)
(* The memory graph, which the builder fills on its own, and the solver,   *)
(* which replays the same edges, agree on how an instance ends.            *)
(***************************************************************************)
MemoryGraphAgrees ==
  Done => \A x \in DOMAIN memory : \A s \in InstanceState(instances, x) :
            /\ memory[x] = "Released" => s = "Released"
            /\ memory[x] = "EscapedToCaller" => s \in {"Escaped", "Released"}
            /\ s \in S!LeakCandidate => memory[x] = "Owned"

(* Builder, solver, memory graph and candidates have one account of which  *)
(* instances end and which leak.                                           *)
InstancesAgree == LeaksAreUnconsumed /\ MemoryGraphAgrees

(***************************************************************************)
(* The releases of one callee take an acquire of a caller once, and a      *)
(* release is paired with the caller's acquires once.                      *)
(***************************************************************************)
CrossPairs == {i \in AcquireEdgesOf : By(i) = "cross"}

PairedAcrossOnce ==
  \A i, j \in CrossPairs :
    LET same == i # j /\ SiteOf(i + 1).caller = SiteOf(j + 1).caller
                      /\ SiteOf(i).caller = SiteOf(j).caller IN
    same => CallOf(i) # CallOf(j) /\ CallOf(i + 1) # CallOf(j + 1)

(***************************************************************************)
(* A use of a freed register that the builder found is not lost on the way:*)
(* the instance is still released in the solver, the edge comes after its  *)
(* releases, and a use-after-free candidate rests on it, unless the        *)
(* function is an allocator's own.                                         *)
(***************************************************************************)
LateUsesReported ==
  Done => \A i \in DOMAIN graph.edges :
            By(i) = "use" /\ InstanceFunction(graph.edges[i].source) \notin Shim
            => \E c \in candidates : c.kind = "UseAfterFree" /\ i \in c.edges

(***************************************************************************)
(* One acquire, one release after it, and no other call of the tables: a   *)
(* cross-family free is reported by facts and calls just when the families *)
(* are known, differ, and may not release each other.                      *)
(***************************************************************************)
OnlyPair(a, r) ==
  /\ Facts = {a, r} /\ a < r /\ Calls[a].caller = Calls[r].caller /\ Calls[a].caller \notin Thunk
  /\ \A i \in DOMAIN Calls : Calls[i].callee \notin DOMAIN FfiDb \cup DOMAIN Summary
  /\ Registry[Calls[a].callee].effect = "Acquire" /\ Calls[a].callee \notin NonAllocator
  /\ Registry[Calls[r].callee].effect \in Freeing

MayNotFree(a, r) == a # r /\ <<a, r>> \notin CompatiblePair /\ UnknownFamily \notin {a, r}

MismatchReported ==
  Done => \A a, r \in DOMAIN Calls :
    OnlyPair(a, r) =>
      {{By(i) : i \in c.edges} : c \in {d \in candidates : d.kind = "CrossFamilyFree"}}
      = IF MayNotFree(FactFamily(a), FactFamily(r)) THEN {{"fact"}, {"call"}} ELSE {}

(***************************************************************************)
(* A program that frees the oldest live allocation of a family each time   *)
(* is understood exactly: every release ends the instance of the call its  *)
(* register comes from, the leaks are the allocations that were not freed, *)
(* and in a single function leak detection is silent when all were.        *)
(***************************************************************************)
FreedBefore(a, i) == \E j \in 1 .. i - 1 : Calls[j].callee \in PureDeallocator /\ Calls[j].arg = a

OldestLive(a, i) ==
  /\ a \in 1 .. i - 1 /\ ~FreedBefore(a, i)
  /\ \A b \in 1 .. a - 1 : /\ IsAcquire(Calls[b].callee) /\ FactFamily(b) = FactFamily(a)
                           => FreedBefore(b, i)

FifoProgram ==
  /\ Cardinality(Callers) = 1
  /\ \A i \in DOMAIN Calls :
       \/ Registry[Calls[i].callee].effect = "Acquire" /\ Calls[i].callee \notin NonAllocator
       \/ /\ Calls[i].callee \in PureDeallocator
          /\ OldestLive(Calls[i].arg, i)
          /\ IsAcquire(Calls[Calls[i].arg].callee)
          /\ FactFamily(Calls[i].arg) = FactFamily(i)

AllFreed == \A a \in AllocSites : FreedBefore(a, Len(Calls) + 1)

FifoProgramsExact ==
  Done /\ Facts = DOMAIN Calls /\ FifoProgram =>
    /\ \A i \in AcquireEdgesOf, j \in DOMAIN graph.edges :
         j \in Consumers(InstanceOf(i)) => Calls[CallOf(j)].arg = CallOf(i)
    /\ \A i \in AcquireEdgesOf :
         (Consumers(InstanceOf(i)) # {}) = FreedBefore(CallOf(i), Len(Calls) + 1)
    /\ {c.kind : c \in candidates} \subseteq {"ConditionalLeak"}
    /\ AllFreed => leak_candidates = {}

(* Two kinds of program, the lone pair and the one that frees in order, of *)
(* which the outcome is known beforehand: it is the one the passes reach.  *)
KnownProgramsExact == MismatchReported /\ FifoProgramsExact

(***************************************************************************)
(* An allocation is called a definite leak only in a function that may     *)
(* return, and from which no call path of any length leads to a release of *)
(* its family, be it known by the registry or by the FFI database.         *)
(***************************************************************************)
Reaches(fs) == CalledFrom(fs) \subseteq fs

ReleasedFrom(f, family) ==
  \A fs \in SUBSET (Callers \cup Called) :
    f \in fs /\ Reaches(fs) =>
      \E i \in DOMAIN Calls : /\ Calls[i].caller \in fs /\ Calls[i].callee \notin DOMAIN Summary
                              /\ Role(Calls[i].callee) \in Freeing
                              /\ Lookup(Calls[i].callee).family = family

DefiniteLeaksHaveNoRelease ==
  \A c \in leak_candidates :
    c.kind = "DefiniteLeak" => /\ ~ReleasedFrom(Calls[c.call].caller, FactFamily(c.call))
                               /\ Calls[c.call].caller \notin OnlyAborts

=============================================================================
