---------------------------- MODULE ModuleIndex ----------------------------
(***************************************************************************)
(* The FFI slice of a module: classify_seed says which calls are seeds,    *)
(* and from the strong ones the slice takes in two calls forward and two   *)
(* backward, and then the other half of each acquire and release.          *)
(***************************************************************************)
EXTENDS IrReaders, FiniteSetsExt

-----------------------------------------------------------------------------
(***************************************************************************)
(* ModuleIndex::build: what is known of every call of a module, whether    *)
(* the module is in one language, whether it is an allocator's, and which  *)
(* of its calls acquire and release the same resource.                     *)
(***************************************************************************)


Lang(s)   == Trait[s].lang
Effect(s) == Trait[s].effect    \* the registry's: "none" for a symbol it has not

(* is_cpp_mangled leaves out the Rust names of that prefix. *)
CppMangled(s) == Is(s, "_Z") /\ ~Is(s, "rust")

(* is_runtime_intrinsic: the names of the runtime of a language. *)
Runtime(s, lang) == lang \in Trait[s].runtimeOf

Acquiring == {"Acquire", "Retain", "Reclaim"}
Releasing == {"Release", "ConditionalRelease"}

(* A function the module defines is taken for C when its name says nothing. *)
DefinedLang(s) == IF Lang(s) = "Unknown" THEN "C" ELSE Lang(s)

CallerLang(m, s) == IF s \in DOMAIN m.functions THEN DefinedLang(s) ELSE Lang(s)

Crosses(a, b) == a # "Unknown" /\ b # "Unknown" /\ a # b

(* A language other than C calls a name that says nothing, outside. *)
ToUnknown(from, to, external) == from \notin {"Unknown", "C"} /\ to = "Unknown" /\ external

IsFfiBoundary(from, c) ==
  /\ \/ Crosses(from, Lang(c.callee))
     \/ CppMangled(c.callee) /\ from = "C"
     \/ ToUnknown(from, Lang(c.callee), c.external)
  /\ ~Is(c.callee, "intrinsic") /\ ~Runtime(c.callee, Lang(c.callee))
  /\ ~Is(c.callee, "glue")

CallMeta(m, c) ==
  LET from == CallerLang(m, c.caller) IN
  [caller |-> c.caller, callee |-> c.callee, external |-> c.external,
   from |-> from, to |-> Lang(c.callee),
   cross |-> Crosses(from, Lang(c.callee)), boundary |-> IsFfiBoundary(from, c)]

CallMetas(m) == [i \in DOMAIN m.calls |-> CallMeta(m, m.calls[i])]

-----------------------------------------------------------------------------
(* One language, or several. *)

CallLanguages(m) ==
  LET metas == CallMetas(m)
  IN UNION {{metas[i].from, metas[i].to} : i \in DOMAIN metas} \ {"Unknown"}

FunctionLanguages(m) ==
  ({DefinedLang(f) : f \in DOMAIN m.functions} \cup {Lang(f) : f \in DOMAIN m.declarations})
    \ {"Unknown"}

MIN_FOREIGN_EXTERNS_FOR_MIXED == 3

ForeignExterns(m, lang) ==
  {d \in DOMAIN m.declarations :
     ~Is(d, "intrinsic") /\ Lang(d) # lang /\ ~Runtime(d, lang)}

HasCppMangled(m) == \E s \in DOMAIN m.declarations \cup DOMAIN m.functions : Is(s, "_Z")

(* One language at most, and neither foreign externs nor C++ names besides. *)
OnlyOne(m, langs) ==
  \/ langs = {}
  \/ \E lang \in langs :
       /\ langs = {lang}
       /\ Cardinality(ForeignExterns(m, lang)) < MIN_FOREIGN_EXTERNS_FOR_MIXED
       /\ ~HasCppMangled(m)

(* The first verdict knows the calls alone; it rules out the slice. *)
EarlySingleLanguage(m) == OnlyOne(m, CallLanguages(m))

IsSingleLanguage(m) == OnlyOne(m, CallLanguages(m) \cup FunctionLanguages(m))

(* Three functions in ten have the name of an allocator's, or ten of them. *)
IsAllocatorCrate(m) ==
  LET allocators == {f \in DOMAIN m.functions : Is(f, "allocator")}
  IN /\ DOMAIN m.functions # {}
     /\ \/ 10 * Cardinality(allocators) >= 3 * Cardinality(DOMAIN m.functions)
        \/ Cardinality(allocators) >= 10

-----------------------------------------------------------------------------
(* build_resource_pair_closure: in each function and family the n-th call  *)
(* that acquires goes with the n-th that releases.                         *)

Rank(metas, i, effects) ==
  Cardinality({j \in 1 .. i : /\ Effect(metas[j].callee) \in effects
                              /\ metas[j].caller = metas[i].caller
                              /\ Trait[metas[j].callee].family = Trait[metas[i].callee].family})

ResourcePairs(metas) ==
  {<<a, r>> \in (DOMAIN metas) \X (DOMAIN metas) :
     /\ Effect(metas[a].callee) \in Acquiring /\ Effect(metas[r].callee) \in Releasing
     /\ metas[a].caller = metas[r].caller
     /\ Trait[metas[a].callee].family = Trait[metas[r].callee].family
     /\ Rank(metas, a, Acquiring) = Rank(metas, r, Releasing)}

-----------------------------------------------------------------------------


Info(depth, relevance) == [depth |-> depth, relevance |-> relevance]

(* looks_like_exported_wrapper: no mangling, though the language mangles. *)
ExportedWrapper(meta) ==
  \/ meta.from = "Rust" /\ ~Is(meta.caller, "rust")
  \/ meta.from = "Cpp" /\ ~Is(meta.caller, "_Z")

(* has_pointer_param_or_return: of the callee, declared or defined, or of  *)
(* the caller.                                                             *)
PointerOf(m, meta) ==
  \/ meta.callee \in DOMAIN m.declarations /\ m.declarations[meta.callee].pointer
  \/ meta.callee \in DOMAIN m.functions \ DOMAIN m.declarations /\ m.functions[meta.callee].pointer
  \/ meta.caller \in DOMAIN m.functions /\ m.functions[meta.caller].pointer

Allocates(meta) == Effect(meta.callee) = "Acquire"

(* What is looked at before anything speaks for a boundary. *)
SuppressedRuntime(meta) ==
  \/ Is(meta.callee, "intrinsic") /\ ~Allocates(meta)
  \/ Runtime(meta.callee, meta.to) /\ ~(Allocates(meta) /\ meta.cross)

SuppressedLibc(m, meta) ==
  /\ Is(meta.callee, "libc") /\ ~Is(meta.callee, "dangerous") /\ ~PointerOf(m, meta)
  /\ ~(Allocates(meta) /\ meta.cross)

SuppressedInternal(meta) ==
  ~meta.cross /\ ~meta.external /\ ~Is(meta.callee, "callback") /\ ~ExportedWrapper(meta)

SuppressedDeclared(m, meta) ==     \* mutant: every call to libc is left out
  SuppressedRuntime(meta) \/ Is(meta.callee, "libc") \/ SuppressedInternal(meta)

Suppressed(m, meta) ==
  SuppressedRuntime(meta) \/ SuppressedLibc(m, meta) \/ SuppressedInternal(meta)

StrongEvidence(m, meta) ==
  \/ meta.cross
  \/ ToUnknown(meta.from, meta.to, meta.external)
  \/ CppMangled(meta.callee) /\ meta.from = "C"
  \/ ExportedWrapper(meta) /\ PointerOf(m, meta)
  \/ Is(meta.callee, "callback")
  \/ Allocates(meta)

WeakEvidence(m, meta) ==
  \/ ~meta.cross /\ meta.external /\ PointerOf(m, meta)
  \/ Is(meta.callee, "dangerous") /\ ExportedWrapper(meta)

classify_seed(m, meta) ==
  CASE Suppressed(m, meta)     -> "Suppression"
    [] StrongEvidence(m, meta) -> "Strong"
    [] WeakEvidence(m, meta)   -> "Weak"
    [] OTHER                   -> "Suppression"

-----------------------------------------------------------------------------
(* Depth and relevance of the calls and of the functions in the slice. *)

EmptySlice == [calls |-> <<>>, functions |-> <<>>]

(* entry(k).or_insert(v) *)
OrInsert(f, k, v) == IF k \in DOMAIN f THEN f ELSE Put(f, k, v)

(* Step 1: the call; its caller, whatever was noted of it; its callee. *)
AddSeed(slice, i, meta, relevance) ==
  [calls |-> Put(slice.calls, i, Info(0, relevance)),
   functions |-> OrInsert(Put(slice.functions, meta.caller, Info(0, relevance)),
                          meta.callee, Info(1, relevance))]

SeedSlice(metas, class) ==
  FoldLeft(LAMBDA slice, i :
             IF class[i] = "Suppression" THEN slice
             ELSE AddSeed(slice, i, metas[i], class[i]),
           EmptySlice, [i \in DOMAIN metas |-> i])

(* Step 2, from one strong seed: MAX_EXPANSION_DEPTH is 2.  Next and End   *)
(* give the calls of a function and the function a call leads to.          *)
Hop(slice, i, function, depth) ==
  LET info == Info(depth, IF depth = 1 THEN "Strong" ELSE "Weak")
  IN [calls |-> OrInsert(slice.calls, i, info),
      functions |-> OrInsert(slice.functions, function, info)]

TwoHops(slice, start, Next(_), End(_)) ==
  FoldLeft(LAMBDA s, i :
             FoldLeft(LAMBDA t, j : Hop(t, j, End(j), 2), Hop(s, i, End(i), 1), Next(End(i))),
           slice, Next(start))

ExpandForward(slice, metas, i) ==     \* mutant: the callers are left out
  LET order == [j \in DOMAIN metas |-> j]
      callsOf(f) == SelectSeq(order, LAMBDA j : metas[j].caller = f)
      callee(j) == metas[j].callee
  IN TwoHops(slice, metas[i].callee, callsOf, callee)

Expand(slice, metas, i) ==
  LET order == [j \in DOMAIN metas |-> j]
      callsOf(f) == SelectSeq(order, LAMBDA j : metas[j].caller = f)
      callsTo(f) == SelectSeq(order, LAMBDA j : metas[j].callee = f)
      callee(j) == metas[j].callee
      caller(j) == metas[j].caller
  IN TwoHops(TwoHops(slice, metas[i].callee, callsOf, callee), metas[i].caller, callsTo, caller)

(* Step 3, for one pair: the half that is missing, and its function. *)
ClosePair(slice, metas, pair) ==
  LET missing == {pair[1], pair[2]} \ DOMAIN slice.calls
  IN IF Cardinality(missing) # 1 THEN slice
     ELSE LET i == CHOOSE j \in missing : TRUE
          IN [calls |-> Put(slice.calls, i, Info(2, "Weak")),
              functions |-> Put(slice.functions, metas[i].caller, Info(2, "Weak"))]

=============================================================================
