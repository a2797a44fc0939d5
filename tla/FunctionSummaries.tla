---- MODULE FunctionSummaries ----
\* From the calls and bodies of a module to the semantic kinds of its names and
\* the verdict on an issue: RawFactCollector, IRBehaviorSummaryPass,
\* LanguageAdapterFactPass, SummaryBuilder and StructuralInferencePass, in the
\* order the pipeline runs them, then what IssueVerifier adds and emit_issue.
\* A store of summaries is keyed by ids that these passes number differently: the
\* same id may stand for two functions, and the last one inserted has it.
EXTENDS BehaviorSummary, LanguageAdapters, TLC

LOCAL Seqs == INSTANCE SequencesExt

-----------------------------------------------------------------------------
\* The gate every issue goes through (issue_gate.rs), and what follows it when an
\* issue is emitted (pass.rs): an issue is suppressed by the semantic kinds of
\* its symbol or, failing these, as the business of a runtime.

NoCaller == ""

\* An issue on the symbol, or for `also` on the function it is located in too,
\* is suppressed with the verdict when it has one of the kinds.
AlsoCaller(kinds, verdict) == [kinds |-> kinds, verdict |-> verdict, also |-> TRUE]
Rule(kinds, verdict) == [kinds |-> kinds, verdict |-> verdict, also |-> FALSE]

Syscalls == {"FileOperation", "NetworkOperation", "ProcessOperation"}
CppCleanup == {"CppDestructor", "CppUniquePtr", "CppSharedPtr"}
GoCleanup == {"GoDeferCleanup", "GoFinalizer"}
PythonRefKinds ==
    {"PythonRefcountInc", "PythonRefcountDec", "PythonBorrowedRef", "PythonOwnedRef",
     "PythonGilProtected"}
CsharpCleanup == {"CsharpSafeHandle", "CsharpFinalizer"}
JavaRefs == {"JavaLocalRef", "JavaGlobalRef", "JavaWeakRef"}

BySyscall == Rule(Syscalls, "NonMemorySyscall")
ByLibrary == Rule({"LibraryRelease"}, "LibraryRelease")
ByTransfer == Rule({"IntoRawTransfer"}, "OwnershipTransfer")
ByDrop == Rule({"RaiiDropRelease"}, "Raii")
ByRuntime == Rule({"RuntimeInternal"}, "RuntimeInternal")
ByMarshal == Rule({"CsharpPinvokeMarshal"}, "Raii")
ByOrigin == Rule({"HeapProvenance", "GlobalProvenance"}, "HeapOrigin")
ByParameter == Rule({"FromParameter"}, "FromParameter")
ByNullCheck == AlsoCaller({"NullChecked"}, "NullChecked")
Cleanups(kinds) == Rule(kinds, "Raii")

\* The rules of each kind of issue, in order: of faults
FaultRules ==
    [BorrowEscape |->
        <<Rule({"HeapProvenance"}, "HeapOrigin"), Rule({"GlobalProvenance"}, "GlobalOrigin"),
          ByParameter, ByLibrary>>,
     UseAfterFree |-> <<ByDrop, ByLibrary>>,
     WriteToImmutable |->
        <<Rule({"MutableParam"}, "MutableParam"), Rule({"InteriorMutability"}, "InteriorMut")>>,
     CrossLanguageFree |-> <<ByTransfer, BySyscall, ByLibrary, ByRuntime, ByMarshal>>,
     OwnershipViolation |->
        <<ByTransfer, BySyscall, ByLibrary, ByRuntime, ByMarshal,
          AlsoCaller(PythonRefKinds \cup {"PythonRefcountManaged"}, "Raii")>>,
     DoubleFree |-> <<ByDrop, ByLibrary>>,
     InvalidFree |-> <<ByLibrary>>,
     UncheckedReturn |->
        <<Rule({"HeapProvenance", "GoRuntimeAlloc"}, "AllocatorReturn"), ByNullCheck>>]

\* Of calls across a boundary
CallRules ==
    [CrossFamilyFree |-> <<ByTransfer, BySyscall>>,
     FfiUnsafeCall |->
        <<BySyscall, ByLibrary, ByTransfer, ByDrop, ByOrigin, ByParameter,
          Cleanups(CppCleanup), Cleanups(GoCleanup), Cleanups(PythonRefKinds),
          Cleanups(CsharpCleanup), Cleanups(JavaRefs), ByRuntime>>]

\* Of leaks and null pointers
LeakRules ==
    LET leak == <<ByDrop, Cleanups(CppCleanup), Cleanups(GoCleanup), Cleanups(PythonRefKinds),
                  Cleanups(CsharpCleanup), Cleanups(JavaRefs), ByOrigin, ByRuntime>>
    IN [ConditionalLeak |-> leak,
        DefiniteLeak |-> leak,
        OwnershipEscapeLeak |->
            <<ByDrop, Cleanups(CppCleanup), Cleanups(GoCleanup), ByTransfer, ByRuntime>>,
        NullDereference |-> <<ByNullCheck>>]

\* The other kinds have no rules.
GateRules == FaultRules @@ CallRules @@ LeakRules

\* check_issue, by what the resolutions say of the symbol and of the caller
CheckIssue(issue, kinds, callerKinds) ==
    LET applies(rule) ==
            \/ rule.kinds \cap kinds # {}
            \/ rule.also /\ issue.caller # NoCaller /\ rule.kinds \cap callerKinds # {}
        rules == IF issue.kind \in DOMAIN GateRules THEN GateRules[issue.kind] ELSE <<>>
    IN FirstMatch([i \in DOMAIN rules |-> <<applies(rules[i]), rules[i].verdict>>], "Allow")

KindsIn(resolutions, n) == IF n \in DOMAIN resolutions THEN resolutions[n] ELSE {}

\* check_issue_with_kinds
CheckIssueWithKinds(issue, resolutions) ==
    CheckIssue(issue, KindsIn(resolutions, issue.symbol), KindsIn(resolutions, issue.caller))

\* NoiseReduction::runtime_caller_match
RuntimeCallerMatch(n) ==
    Contains(n, {"bun_alloc", "MimallocArena", "ZAllocator", "NullableAllocator",
                 "CAllocator", "heap_breakdown", "bss_arena_bump", "c_thunks", "Zone::",
                 "RawVec", "raw_vec", "SliceCursor"})

\* LIBC_FUNCTIONS
LibcFunctions ==
    {"malloc", "free", "calloc", "realloc", "read", "write", "open", "close", "strlen",
     "strncpy", "snprintf", "fgets", "getline", "memcpy", "memmove", "memset", "memcmp",
     "printf", "fprintf", "puts", "fopen", "fclose", "fread", "fwrite"}

Leaks == {"ConditionalLeak", "DefiniteLeak", "OwnershipEscapeLeak"}
Frees == {"DoubleFree", "UseAfterFree"}

CallerIsUserCode(issue) ==
    /\ issue.caller # NoCaller
    /\ ~IsRuntimeInternal(issue.caller) /\ ~RuntimeCallerMatch(issue.caller)

\* The fallback rules of emit_issue, each FALSE when the issue passes it
RuntimeSymbol(issue) ==
    /\ IsRuntimeInternal(issue.symbol) /\ ~CallerIsUserCode(issue)
    /\ issue.kind \in Leaks \cup {"FfiUnsafeCall", "CrossLanguageFree", "OwnershipViolation",
                                  "UseAfterFree", "InvalidFree", "BorrowEscape"}
RuntimeLeak(issue) == ~CallerIsUserCode(issue) /\ issue.kind \in Leaks
LibcFree(issue) ==
    /\ issue.symbol \in LibcFunctions /\ issue.kind \in Frees
    /\ issue.caller = issue.symbol \/ ~CallerIsUserCode(issue)
BridgeFree(issue) ==
    /\ issue.caller # NoCaller /\ StartsWith(issue.caller, {"c_", "rust_", "py_", "java_", "go_"})
    /\ ~CallerIsUserCode(issue) /\ issue.kind \in Frees

\* emit_issue: without resolutions the gate is open.
EmitIssue(issue, hasResolutions, resolutions) ==
    LET gate == IF hasResolutions THEN CheckIssueWithKinds(issue, resolutions) ELSE "Allow"
    IN FirstMatch(<<
        <<gate # "Allow", gate>>,
        <<RuntimeSymbol(issue), "RuntimeSymbol">>,
        <<RuntimeLeak(issue), "RuntimeCaller">>,
        <<LibcFree(issue), "LibcFree">>,
        <<BridgeFree(issue), "BridgeFree">> >>, "Allowed")

-----------------------------------------------------------------------------

CONSTANTS
    Programs,     \* the modules that may be analyzed
    Issues,       \* the issues that may be emitted
    MaxEmitted    \* bound on the issues emitted

VARIABLES
    program,    \* the module, which no pass changes
    phase,      \* the pass that runs next
    rawFacts,   \* raw_resource_facts
    facts,      \* semantic_facts: their symbols and kinds
    store,      \* summary_store: id -> summary
    strings,    \* srt_resolutions: name -> kinds
    keys,       \* srt_key_resolutions, by the name in the key
    rounds,     \* of the propagation through the calls
    srtFacts,   \* srt_facts: name -> kinds, each observed or inferred
    verdicts    \* issue -> what became of it

vars == <<program, phase, rawFacts, facts, store, strings, keys, rounds, srtFacts, verdicts>>

Items(s) == {s[i] : i \in DOMAIN s}
NoResolutions == [n \in {} |-> {}]

-----------------------------------------------------------------------------
\* What is known of the module

CallsOf(p, n) ==
    LET calls == SelectSeq(p.calls, LAMBDA c : c.caller = n)
    IN IF n \in Items(p.bodies) THEN [i \in DOMAIN calls |-> calls[i].callee] ELSE <<>>

\* The language of a name in the metadata of ModuleIndex
Detected(lang, isDefined) == IF isDefined /\ lang = "Unknown" THEN "C" ELSE lang
Language(p, n) == Detected(DetectFromFunction(n), n \in p.functions)

Names(p) ==
    ({c.caller : c \in Items(p.calls)} \cup {c.callee : c \in Items(p.calls)}
        \cup p.functions \cup p.declarations) \ {NoCaller}

-----------------------------------------------------------------------------
\* RawFactCollector

\* The ids of names: in the order in which they are first asked for
FunctionIds(names) ==
    LET first(n) == Min({i \in DOMAIN names : names[i] = n})
    IN [n \in Items(names) |-> Cardinality({names[i] : i \in 1 .. first(n) - 1})]

\* A fact of a call has the id of the caller and the name of the callee.
FactsOfCalls(p) ==
    LET calls == SelectSeq(p.calls, LAMBDA c : IsRegistered(c.callee))
    IN [i \in DOMAIN calls |->
           [name |-> calls[i].callee,
            owner |-> IF calls[i].caller = NoCaller THEN calls[i].callee ELSE calls[i].caller]]

CollectRawFacts ==
    /\ phase = "RawFactCollector" /\ phase' = "IRBehaviorSummary"
    /\ LET called == FactsOfCalls(program)
           others == {n \in program.functions \cup program.declarations : IsRegistered(n)}
                        \ {f.name : f \in Items(called)}
       IN \E order \in Seqs!SetToSeqs(others) :
            LET found == called \o [i \in DOMAIN order |-> [name |-> order[i], owner |-> order[i]]]
                ids == FunctionIds([i \in DOMAIN found |-> found[i].owner])
            IN rawFacts' = [i \in DOMAIN found |->
                               [function |-> ids[found[i].owner], name |-> found[i].name]]
    /\ UNCHANGED <<program, facts, store, strings, keys, rounds, srtFacts, verdicts>>

-----------------------------------------------------------------------------
\* IRBehaviorSummaryPass: here the id of a function is a hash of its name.

SummarizeBehaviors ==
    /\ phase = "IRBehaviorSummary" /\ phase' = "LanguageAdapterFact"
    /\ LET patterned == {n \in Items(program.bodies) : program.patterns[n] # {}}
       IN /\ store' = [n \in patterned |-> BehaviorToSummary(n, program.patterns[n])]
          /\ facts' = UNION {PatternFacts(n, program.patterns[n]) : n \in patterned}
                        \cup {[symbol |-> n, kind |-> "NonMemoryResource"] : n \in program.confused}
    /\ UNCHANGED <<program, rawFacts, strings, keys, rounds, srtFacts, verdicts>>

-----------------------------------------------------------------------------
\* LanguageAdapterFactPass

LooksLikeCpp(n) ==
    StartsWith(n, {"_Z", "__Z", "?"}) \/ Contains(n, {"::", "std::", "operator"})
LooksLikePython(n) ==
    \/ IsPythonApi(n)
    \/ Contains(n, {"PyObject", "PyList", "PyDict", "PyTuple", "PyErr", "PyGIL", "PyMem"})
LooksLikeJni(n) ==
    \/ StartsWith(n, {"Java_", "JNI_"})
    \/ Contains(n, {"JNIEnv", "NewGlobalRef", "DeleteGlobalRef", "NewLocalRef", "DeleteLocalRef",
                    "GetStringUTFChars", "ReleaseStringUTFChars"})
LooksLikeGo(n) ==
    StartsWith(n, {"runtime.", "_cgo_", "_Cfunc_"}) \/ Contains(n, {"crossboundary2"})
LooksLikeCsharp(n) == Contains(n, {"Marshal", "SafeHandle", "GCHandle"})
LooksLikeWasm(n) ==
    \/ StartsWith(n, {"emscripten_", "emnapi_", "wasm_", "__wasm_call_ctors", "__import_",
                      "__export_", "__asyncify"})
    \/ Contains(n, {"EM_JS_", "EM_ASM_", "memory.grow", "__memory_grow"})

CallsPythonCApi(calls) == \E i \in DOMAIN calls : IsPythonApi(calls[i])

\* The adapters run by language, or by the looks of a name that has none; only
\* the one for WebAssembly runs for a module in one language.
KindsByLanguage(n, lang, calls) ==
    LET unknown == lang = "Unknown"
    IN UNION Where({
        <<lang = "Cpp" \/ (unknown /\ LooksLikeCpp(n)), CppKinds(n)>>,
        <<\/ lang = "Python" \/ (unknown /\ LooksLikePython(n))
          \/ lang = "Rust" /\ CallsPythonCApi(calls), PythonKinds(n, calls)>>,
        <<lang = "Java" \/ (unknown /\ LooksLikeJni(n)), JavaKinds(n)>>,
        <<lang = "Go" \/ (unknown /\ LooksLikeGo(n)), GoKinds(n)>>,
        <<lang = "CSharp" \/ (unknown /\ LooksLikeCsharp(n)), CSharpKinds(n)>>,
        <<unknown /\ LooksLikeWasm(n), WasmKinds(n, calls)>>})

AdapterKinds(p, n) ==
    IF ~p.single THEN KindsByLanguage(n, Language(p, n), CallsOf(p, n))
    ELSE IF LooksLikeWasm(n) THEN WasmKinds(n, CallsOf(p, n)) ELSE {}

AdaptLanguages ==
    /\ phase = "LanguageAdapterFact" /\ phase' = "SummaryBuilder"
    /\ facts' = facts \cup UNION {{[symbol |-> n, kind |-> k] : k \in AdapterKinds(program, n)} :
                                  n \in Names(program)}
    /\ UNCHANGED <<program, rawFacts, store, strings, keys, rounds, srtFacts, verdicts>>

-----------------------------------------------------------------------------
\* SummaryBuilder: a new store, where the id of a function is its place among the
\* bodies, sorted by name first and in the order of the hash map after that.

BehaviorStore(p) ==
    LET kept == {i \in DOMAIN p.bodies :
                    p.patterns[p.bodies[i]] # {} /\ ~IsRegistered(p.bodies[i])}
    IN [id \in {i - 1 : i \in kept} |->
           BehaviorToSummary(p.bodies[id + 1], p.patterns[p.bodies[id + 1]])]

AllocatorCalls ==
    {"malloc", "calloc", "realloc", "_Znam", "_Znwm", "Marshal_AllocHGlobal", "CoTaskMemAlloc",
     "AllocHGlobal"}

IsLibrary(p, n) == IsLibraryFunction(n) \/ n \in p.declarations

\* An allocator is called and a pointer returned.
IsFactory(p, n) == Items(CallsOf(p, n)) \cap AllocatorCalls # {} /\ n \in p.returns

BuildSummaries ==
    /\ phase = "SummaryBuilder" /\ phase' = "StructuralInference"
    /\ LET old == BehaviorStore(program)
           owned == {s.name : s \in {t \in {old[id] : id \in DOMAIN old} :
                                        \E e \in t.effects : e.kind = "ReturnsOwned"}}
           isNew(n) == /\ ~IsRegistered(n) /\ n \notin owned
                       /\ IsLibrary(program, n) \/ IsFactory(program, n)
       IN \E order \in Seqs!SetToSeqs(Items(program.bodies)) :
            LET new == {i \in DOMAIN order : isNew(order[i])}
            IN store' =
                [id \in {i - 1 : i \in new} |->
                    Summary(order[id + 1], "Unknown",
                            IF IsLibrary(program, order[id + 1]) THEN {} ELSE Owned, {})] @@ old
    /\ UNCHANGED <<program, rawFacts, facts, strings, keys, rounds, srtFacts, verdicts>>

-----------------------------------------------------------------------------
\* StructuralInferencePass

\* The behavior looked up by the id of the fact
InferFromFactById(p, f) ==
    IF f.function + 1 \in DOMAIN p.bodies
    THEN [BehaviorToSummary(p.bodies[f.function + 1], p.patterns[p.bodies[f.function + 1]])
             EXCEPT !.name = f.name]
    ELSE InferSummary(f.name)

\* The name's behavior is preferred to the name.
InferFromFact(p, f) ==
    IF f.name \in Items(p.bodies) THEN BehaviorToSummary(f.name, p.patterns[f.name])
    ELSE InferSummary(f.name)

WithFacts(p, old) ==
    Seqs!FoldLeft(LAMBDA acc, f : (f.function :> InferFromFact(p, f)) @@ acc, old, rawFacts)

\* Behaviors that have lost their summary, or have had none, share the id 0.
WithBehaviors(p, old) ==
    LET add(acc, n) ==
            IF p.patterns[n] = {} \/ \E id \in DOMAIN acc : acc[id].name = n THEN acc
            ELSE (0 :> BehaviorToSummary(n, p.patterns[n])) @@ acc
    IN Seqs!FoldLeft(add, old, p.bodies)

\* The resolutions of a store: of two summaries of a name, the one that the map
\* has later is kept, unless it says nothing.
ResolutionsOf(said) ==
    FoldSet(LAMBDA n, sofar :
                {r @@ (n :> t.kinds) : r \in sofar, t \in {u \in said : u.name = n}},
            {NoResolutions}, {t.name : t \in said})

Resolutions(s) ==
    ResolutionsOf({t \in {[name |-> s[id].name, kinds |-> KindsOf(s[id])] : id \in DOMAIN s} :
                    t.kinds # {}})

\* The callers at a boundary that have no resolution yet take their pointers
\* from a parameter.
BoundaryCallers(p) ==
    {c.caller : c \in {d \in Items(p.calls) :
        /\ d.external \/ IsRegistered(d.callee) \/ IsFfiBoundaryFunction(d.caller)
        /\ d.caller # NoCaller /\ ~IsRegistered(d.caller)}}

\* --cross: the functions listed, or without a list those of the calls that cross
DeclaredCrossing(p) ==
    LET listed == UNION {b.functions : b \in p.boundaries}
        languages(c) == [i \in 1 .. 2 |-> DetectFromFunction(<<c.caller, c.callee>>[i])]
        crosses(b, c) == \/ languages(c) \in {<<b.from, b.to>>, <<b.to, b.from>>}
                         \/ {c.caller, c.callee} \cap b.matching # {}
    IN IF listed # {} THEN listed \cap p.functions
       ELSE UNION {{c.caller, c.callee} :
                       c \in {d \in Items(p.calls) : \E b \in p.boundaries : crosses(b, d)}}
            \ {NoCaller}

Push(resolutions, names, kind) ==
    [n \in DOMAIN resolutions \cup names |->
        KindsIn(resolutions, n) \cup (IF n \in names THEN {kind} ELSE {})]

Managed == "PythonRefcountManaged"
ManagedIn(resolutions) == {n \in DOMAIN resolutions : Managed \in resolutions[n]}

FromParameters(p, resolutions) == resolutions @@ [n \in BoundaryCallers(p) |-> {"FromParameter"}]

InferStructure ==
    /\ phase = "StructuralInference" /\ phase' = "Propagation"
    /\ store' = WithBehaviors(program, WithFacts(program, store))
    /\ \E resolved \in Resolutions(store') :
        keys' = Push(FromParameters(program, resolved), DeclaredCrossing(program),
                     "DeclaredCrossBoundary")
    /\ strings' = Push(keys', {f.symbol : f \in {g \in facts : g.kind = Managed}}, Managed)
    /\ rounds' = 0
    /\ UNCHANGED <<program, rawFacts, facts, srtFacts, verdicts>>

MAX_ITERATIONS == 3

\* mutant: to all that is called
PropagateToAll(p, resolutions) ==
    LET managed == ManagedIn(resolutions)
    IN ({c.caller : c \in {d \in Items(p.calls) : d.callee \in managed}}
            \cup {c.callee : c \in {d \in Items(p.calls) : d.caller \in managed}})
       \ managed

\* From the callee to the caller, and from the caller to what it calls of Python
Propagations(p, resolutions) ==
    LET managed == ManagedIn(resolutions)
    IN ({c.caller : c \in {d \in Items(p.calls) : d.callee \in managed}}
            \cup {c.callee : c \in {d \in Items(p.calls) :
                                        d.caller \in managed /\ IsPythonApi(d.callee)}})
       \ managed

PropagateRound ==
    /\ phase = "Propagation" /\ rounds < MAX_ITERATIONS
    /\ Propagations(program, strings) # {}
    /\ strings' = Push(strings, Propagations(program, strings), Managed)
    /\ rounds' = rounds + 1
    /\ UNCHANGED <<program, phase, rawFacts, facts, store, keys, srtFacts, verdicts>>

\* The kinds of srt_facts: those of semantic_facts, and the others of the
\* resolutions as inferred
FinishInference ==
    /\ phase = "Propagation" /\ phase' = "IssueVerifier"
    /\ rounds = MAX_ITERATIONS \/ Propagations(program, strings) = {}
    /\ LET observed(n) == {f.kind : f \in {g \in facts : g.symbol = n}}
       IN srtFacts' =
            [n \in {f.symbol : f \in facts} \cup DOMAIN strings |->
                {[kind |-> k, inferred |-> k \notin observed(n)] :
                    k \in observed(n) \cup KindsIn(strings, n)}]
    /\ UNCHANGED <<program, rawFacts, facts, store, strings, keys, rounds, verdicts>>

-----------------------------------------------------------------------------
\* IssueVerifier adds the functions that check what they got, and emits.

MergeNullChecked ==
    /\ phase = "IssueVerifier" /\ phase' = "Gate"
    /\ strings' = Push(strings, program.nullChecked, "NullChecked")
    /\ UNCHANGED <<program, rawFacts, facts, store, keys, rounds, srtFacts, verdicts>>

Emit(issue) ==
    /\ phase = "Gate" /\ issue \notin DOMAIN verdicts
    /\ Cardinality(DOMAIN verdicts) < MaxEmitted
    /\ verdicts' = (issue :> EmitIssue(issue, TRUE, strings)) @@ verdicts
    /\ UNCHANGED <<program, phase, rawFacts, facts, store, strings, keys, rounds, srtFacts>>

Init ==
    /\ program \in Programs /\ phase = "RawFactCollector"
    /\ rawFacts = <<>> /\ facts = {} /\ store = <<>>
    /\ strings = NoResolutions /\ keys = NoResolutions /\ rounds = 0
    /\ srtFacts = NoResolutions /\ verdicts = <<>>

Next ==
    \/ CollectRawFacts \/ SummarizeBehaviors \/ AdaptLanguages \/ BuildSummaries
    \/ InferStructure \/ PropagateRound \/ FinishInference \/ MergeNullChecked
    \/ \E issue \in Issues : Emit(issue)

Spec == Init /\ [][Next]_vars

-----------------------------------------------------------------------------

\* What may be said of a name: what its own body, its own name and its own calls
\* say, and what the user declares of it.
OwnKinds(p, n) ==
    KindsOf(InferSummary(n)) \cup NameKinds(n) \cup
    (IF n \in Items(p.bodies) THEN KindsOf(BehaviorToSummary(n, p.patterns[n])) ELSE {}) \cup
    (IF n \in BoundaryCallers(p) THEN {"FromParameter"} ELSE {}) \cup
    (IF n \in DeclaredCrossing(p) THEN {"DeclaredCrossBoundary"} ELSE {}) \cup
    (IF n \in p.nullChecked THEN {"NullChecked"} ELSE {})

\* However the ids of the passes collide, no name is given the kinds of another:
\* a kind that is not its own would suppress its issues. Only the management of
\* reference counts is passed on (structural_inference_pass.rs 105-166).
KindsAreOwn ==
    \A n \in DOMAIN strings \ {NoCaller} :
        strings[n] \ {Managed} \subseteq OwnKinds(program, n)

\* The names at a distance of at most k from a function whose body manages
\* reference counts, through callers and through the functions of Python called
Near(p, seeds) ==
    LET calls == Items(p.calls)
        steps == {<<c.callee, c.caller>> : c \in calls} \cup
                 {<<c.caller, c.callee>> : c \in {d \in calls : IsPythonApi(d.callee)}}
        near[k \in Nat] ==
            IF k = 0 THEN seeds
            ELSE near[k - 1] \cup {s[2] : s \in {t \in steps : t[1] \in near[k - 1]}}
    IN near

\* The propagation ends with exactly the names three calls away, those nearer
\* whatever the order of the calls, and none that is farther
\* (structural_inference_pass.rs 564-633).
PropagationExact ==
    phase \in {"IssueVerifier", "Gate"} =>
        ManagedIn(strings)
            = Near(program, {f.symbol : f \in {g \in facts : g.kind = Managed}})[3]

\* What the passes know of a name is its own, or came to it along the calls it is
\* near to, and nothing that should have come is missing.
SummariesExact == KindsAreOwn /\ PropagationExact

\* A double free, a use after free or a wrong release of what libc allocates is
\* reported in user code, unless the module has its own function of that name:
\* nothing any pass learns of the rest of the module suppresses it.
PlainReleasesReported ==
    \A issue \in DOMAIN verdicts :
        /\ issue.kind \in {"DoubleFree", "UseAfterFree", "InvalidFree", "CrossFamilyFree",
                           "CrossLanguageFree"}
        /\ issue.symbol \in LibcFunctions \ Items(program.bodies)
        /\ issue.caller # issue.symbol /\ CallerIsUserCode(issue)
        => verdicts[issue] = "Allowed"

====
