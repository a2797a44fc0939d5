---- MODULE NameInference ----
\* What a name alone says of a function: its language, its summary when no
\* table and no body knows better, and its semantic kind.
\* family_inference.rs, structural_inference/, summary_inference.rs, kind.rs.
EXTENDS FamilyRegistry, Integers, FiniteSetsExt

-----------------------------------------------------------------------------
\* The tests the analysis makes on a function's name. A name is known by its
\* shape: the patterns of the code it starts with, ends with and contains.


CONSTANTS
    Shape,      \* name -> [starts, ends, has : sets of patterns]
    LowerCase,  \* the names to_lowercase changes, each with what it becomes
    Namespace   \* the names in one, each with the first of its namespaces

ASSUME ShapeAssumption ==
    /\ \A n \in DOMAIN LowerCase : {n, LowerCase[n]} \subseteq DOMAIN Shape
    /\ DOMAIN Namespace \subseteq DOMAIN Shape

SymbolName == DOMAIN Shape

StartsWith(n, patterns) == Shape[n].starts \cap patterns # {}
EndsWith(n, patterns) == Shape[n].ends \cap patterns # {}
Contains(n, patterns) ==
    (Shape[n].starts \cup Shape[n].ends \cup Shape[n].has) \cap patterns # {}

ToLowercase(n) == IF n \in DOMAIN LowerCase THEN LowerCase[n] ELSE n

\* The result of the first rule, a pair of a condition and a result, that applies
FirstMatch(rules, otherwise) ==
    LET applies == {i \in DOMAIN rules : rules[i][1]}
    IN IF applies = {} THEN otherwise ELSE rules[Min(applies)][2]

-----------------------------------------------------------------------------


\* EXACT_ALLOC_SET
ExactAllocators ==
    [C |-> {"malloc", "calloc", "realloc", "free", "aligned_alloc",
            "posix_memalign", "valloc", "pvalloc", "memalign", "reallocarray",
            "HeapAlloc", "HeapFree", "HeapReAlloc", "LocalAlloc", "LocalFree",
            "LocalReAlloc", "GlobalAlloc", "GlobalFree", "GlobalReAlloc",
            "VirtualAlloc", "VirtualFree", "mi_malloc", "mi_free", "mi_calloc",
            "mi_realloc", "mi_zalloc", "mi_malloc_aligned", "mi_free_aligned",
            "mi_realloc_aligned", "je_malloc", "je_free", "je_calloc",
            "je_realloc", "je_mallocx", "je_dallocx", "je_rallocx",
            "je_xallocx", "je_sallocx", "tc_malloc", "tc_free", "tc_calloc",
            "tc_realloc", "tc_malloc_skip_new_handler", "tc_malloc_nothrow",
            "tc_new", "tc_delete", "tc_newarray", "tc_deletearray", "dlmalloc",
            "dlfree", "dlcalloc", "dlrealloc", "dlmemalign", "nedmalloc",
            "nedfree", "nedcalloc", "nedrealloc", "nedmemalign", "rpmalloc",
            "rpfree", "rpcalloc", "rprealloc", "rpmemalign", "sn_malloc",
            "sn_free", "sn_calloc", "sn_realloc"},
     Rust |-> {"__rust_alloc", "__rust_dealloc", "__rust_realloc",
            "__rust_alloc_zeroed", "alloc::alloc::alloc", "alloc::alloc::dealloc",
            "alloc::alloc::realloc", "alloc::alloc::alloc_zeroed",
            "std::alloc::alloc", "std::alloc::dealloc", "std::alloc::realloc",
            "std::alloc::alloc_zeroed", "__rdl_dealloc", "__rg_dealloc"},
     Cpp |-> {"_Znwm", "_Znwj", "_Znam", "_Znaj", "_ZdlPv", "_ZdaPv",
            "operator new", "operator delete", "operator new[]",
            "operator delete[]"},
     Python |-> {"PyObject_New", "PyObject_NewVar", "PyObject_Del",
            "PyObject_Free", "PyMem_Malloc", "PyMem_Calloc", "PyMem_Realloc",
            "PyMem_Free", "PyMem_RawMalloc", "PyMem_RawCalloc",
            "PyMem_RawRealloc", "PyMem_RawFree", "PyBytes_FromStringAndSize",
            "PyBytes_FromString", "PyUnicode_FromString",
            "PyUnicode_FromStringAndSize", "PyList_New", "PyTuple_New",
            "PyDict_New", "PySet_New"},
     Java |-> {"NewLocalRef", "DeleteLocalRef", "NewGlobalRef",
            "DeleteGlobalRef", "GetStringUTFChars", "ReleaseStringUTFChars",
            "GetPrimitiveArrayCritical", "ReleasePrimitiveArrayCritical",
            "GetByteArrayElements", "ReleaseByteArrayElements", "NewStringUTF",
            "NewByteArray"},
     CSharp |-> {"AllocHGlobal", "FreeHGlobal", "CoTaskMemAlloc", "CoTaskMemFree"},
     Go |-> {"runtime.mallocgc", "runtime.alloc", "_cgo_allocate", "_cgo_free",
            "_Cfunc_GoMalloc", "_Cfunc_GoFree"}]

InferLanguageHint(n) ==
    IF \E g \in DOMAIN ExactAllocators : n \in ExactAllocators[g]
    THEN CHOOSE g \in DOMAIN ExactAllocators : n \in ExactAllocators[g]
    ELSE FirstMatch(<<
        <<StartsWith(n, {"_Z", "__cxx", "_GLOBAL__"}), "Cpp">>,
        <<StartsWith(n, {"__rust_"}), "Rust">>,
        <<StartsWith(n, {"Py"}), "Python">>,
        <<StartsWith(n, {"runtime."}), "Go">>,
        <<StartsWith(n, {"Java_"}), "Java">>,
        <<Contains(n, {"::"}), "Cpp">> >>, "Unknown")

\* is_rust_zn_mangling, where the pattern 17h stands for the hash and its E
IsRustZnMangling(n) ==
    \/ Contains(n, {"$LT$", "$GT$", "$u20$", "$RF$", "$BP$", "$u5b$", "$u5d$"})
    \/ StartsWith(n, {"_ZN"}) /\ Contains(n, {"17h"})
    \/ StartsWith(n, {"_ZN4core", "_ZN5alloc", "_ZN3std", "_ZN7cstring", "_ZN12alloc", "_R"})

\* LanguageDetector::detect_from_function
DetectFromFunction(n) ==
    FirstMatch(<<
        <<StartsWith(n, {"_ZN"}) /\ IsRustZnMangling(n), "Rust">>,
        <<StartsWith(n, {"_R", "__rust_"}), "Rust">>,
        <<StartsWith(n, {"_Z"}) \/ Contains(n, {"::"}), "Cpp">>,
        <<StartsWith(n, {"_Cfunc_", "_cgo_", "runtime."}), "Go">>,
        <<StartsWith(n, {"Py"}) \/ Contains(n, {"PyObject"}), "Python">>,
        <<StartsWith(n, {"Java_"}) \/ Contains(n, {"JNI"}), "Java">>,
        <<\/ StartsWith(n, {"Marshal_", "Marshal."})
          \/ Contains(n, {"System.Runtime.InteropServices", "DllImport", "P/Invoke"}),
          "CSharp">>,
        <<Contains(n, {"rust_box_new"}), "Rust">>,
        <<Contains(n, {"cpp_new_object", "cpp_delete_object"}), "Cpp">>,
        <<Contains(n, {"go_alloc", "go_free"}), "Go">>,
        <<Contains(n, {"jni_alloc"}), "Java">> >>, "Unknown")

\* is_known_stdlib_namespace
StdlibNamespaces ==
    {"std", "__gnu_cxx", "__cxxabiv1", "core", "alloc", "test", "proc_macro",
     "runtime", "sync", "time", "net", "os", "fmt", "strings", "bytes", "encoding",
     "io", "math", "sort", "reflect", "syscall", "internal", "unsafe", "unicode",
     "regexp", "path", "bufio", "strconv", "context", "errors", "flag", "hash",
     "html", "image", "log", "mime", "rand", "text", "archive", "compress",
     "crypto", "database", "debug", "embed", "expvar", "go", "index", "plugin",
     "testing", "System", "Microsoft", "java", "javax", "jdk", "com.sun", "sun",
     "_Py", "Py", "Swift", "Foundation", "kotlin", "kotlinx"}

\* is_library_function. A const method, _ZNK, is in no namespace: the test for
\* _ZN takes it first and finds no length.
IsLibraryFunction(n) ==
    \/ StartsWith(n, {"__clang", "__cxx", "__gnu"})
    \/ n \in DOMAIN Namespace /\ Namespace[n] \in StdlibNamespaces

\* A name is of no kind.
None == "None"

ClassifyDestructor(n, language) ==
    LET low == ToLowercase(n)
    IN FirstMatch(<<
        <<Contains(n, {"D0Ev", "D1Ev", "D2Ev"}) /\ StartsWith(n, {"_ZN"}),
          "CppDestructor">>,
        <<language = "Rust" /\ (\/ n = "drop" \/ EndsWith(n, {"::drop"})
                                \/ Contains(n, {"drop_in_place"})), "RustDrop">>,
        <<language = "Python" /\ (n = "__del__" \/ EndsWith(n, {".__del__"})),
          "PythonFinalizer">>,
        <<language = "CSharp" /\ (\/ n = "Dispose"
                                  \/ EndsWith(n, {".Dispose", "::Dispose"})
                                  \/ StartsWith(n, {"~"})), "CSharpDispose">>,
        <<language = "Java" /\ n = "finalize", "JavaFinalizer">>,
        <<StartsWith(low, {"destroy"}) \/ Contains(low, {"_destroy", "::destroy"}),
          "CDestroy">>,
        <<StartsWith(low, {"dealloc"}) \/ Contains(low, {"_dealloc"}), "CDestroy">>,
        <<low = "delete" \/ EndsWith(low, {"_delete"}), "CDestroy">>,
        <<low = "finalize" \/ EndsWith(low, {"_finalize"}), "JavaFinalizer">>,
        <<\/ low = "close"
          \/ EndsWith(low, {"_close", "_cleanup", "_teardown", "_shutdown"}),
          "GenericCleanup">>,
        <<low = "deinit" \/ EndsWith(low, {"_deinit"}), "CDestroy">>,
        <<\/ low = "drop" \/ EndsWith(low, {"_drop"})
          \/ Contains(low, {"drop_in_place"}), "RustDrop">> >>, None)

\* Verbs that make of "..._data" a computation and not an accessor
ProcessingVerbs ==
    {"process", "compute", "transform", "validate", "parse", "encode", "decode",
     "compress", "decompress", "encrypt", "decrypt", "filter", "sort", "merge",
     "convert", "generate", "serialize", "deserialize", "handle", "manage",
     "update", "modify", "write", "send", "receive", "transfer", "copy", "clone",
     "load", "read"}

ClassifyBridge(n, language) ==
    LET low == ToLowercase(n)
    IN FirstMatch(<<
        <<language = "Rust" /\ (\/ n \in {"as_ptr", "as_mut_ptr"}
                                \/ EndsWith(n, {"::as_ptr", "::as_mut_ptr"})), "AsPtr">>,
        <<language = "Rust" /\ Contains(n, {"from_raw", "into_raw"}), None>>,
        <<language = "Cpp" /\ (\/ n \in {"data", "c_str"}
                               \/ EndsWith(n, {"::data", "::c_str"})), "DataAccessor">>,
        <<EndsWith(low, {"_ptr"}), "AsPtr">>,
        <<EndsWith(low, {"_c_str"}), "DataAccessor">>,
        <<EndsWith(low, {"_data"}) /\ ~Contains(low, ProcessingVerbs),
          "DataAccessor">> >>, None)

\* What is released in these is a lock, not a reference.
Synchronization ==
    {"semaphore", "lock", "mutex", "thread", "sem_", "spinlock", "rwlock",
     "condvar", "fence"}

ClassifyRefcount(n, language) ==
    LET low == ToLowercase(n)
    IN FirstMatch(<<
        <<language = "Python" /\ (n = "Py_CLEAR" \/ Contains(n, {"DECREF"})),
          [kind |-> "PythonRefcount", family |-> "PYTHON_OBJECT"]>>,
        <<language = "Rust" /\ (\/ Contains(n, {"Arc::drop", "drop_in_place"})
                                \/ n = "drop"),
          [kind |-> "RustArc", family |-> "RUST_GLOBAL"]>>,
        <<language = "CSharp" /\ (n = "Release" \/ EndsWith(n, {"::Release"})),
          [kind |-> "ComRefCount", family |-> "CSHARP_COTASK"]>>,
        <<StartsWith(low, {"cfrelease"}), [kind |-> "CoreFoundation", family |-> "C_HEAP"]>>,
        <<Contains(low, {"objc_release"}), [kind |-> "ObjcArc", family |-> "C_HEAP"]>>,
        <<\/ /\ EndsWith(low, {"_release"})
             /\ ~Contains(low, {"unconditional"} \cup Synchronization)
          \/ Contains(low, {"_decref"})
          \/ EndsWith(low, {"_refcount_dec", "_rc_dec"}),
          [kind |-> "Generic", family |-> "C_HEAP"]>> >>, None)

ClassifyStaticLifetime(n, language) ==
    LET low == ToLowercase(n)
    IN FirstMatch(<<
        <<language = "Rust" /\ Contains(n, {"lazy_static", "OnceLock", "once_lock",
                                            "call_once"}), "RustLazyStatic">>,
        <<language = "Rust" /\ (\/ StartsWith(n, {"<static>"})
                                \/ Contains(n, {"::init::", "__static_init"})),
          "RustStaticItem">>,
        <<language = "Cpp" /\ Contains(n, {"__cxa_guard_acquire", "__cxa_guard_release"}),
          "StaticLocal">>,
        <<language = "Cpp" /\ StartsWith(n, {"_GLOBAL__I_", "__cxx_global_var_init"}),
          "GlobalVariable">>,
        <<language = "Java" /\ (n = "<clinit>" \/ EndsWith(n, {".<clinit>"})),
          "JavaClassInit">>,
        <<language = "Python" /\ StartsWith(n, {"PyInit_"}), "PythonModuleInit">>,
        <<EndsWith(low, {"_init_once", "_once_init"}), "GenericOnceInit">>,
        <<Contains(low, {"global_init", "static_init", "_global_ctor"}),
          "GlobalVariable">>,
        <<EndsWith(low, {"_register", "_install"}), "GenericOnceInit">> >>, None)

\* into_raw and from_raw are idioms of Rust, whose mangled names have no hint.
MayBeRust(language) == language \in {"Rust", "Unknown"}

IsIntoRaw(n, language) == MayBeRust(language) /\ Contains(n, {"into_raw"})
IsFromRaw(n, language) == MayBeRust(language) /\ Contains(n, {"from_raw"})

AllocSuffix(n) == EndsWith(ToLowercase(n), {"_alloc", "_create", "_new"})
ReleaseSuffix(n) ==
    EndsWith(ToLowercase(n),
        {"_free", "_destroy", "_delete", "_deinit", "_close", "_release"})

\* A summary: what the function does to resources, and the evidence with the
\* words of its description that are looked for later.
Summary(n, language, effects, evidence) ==
    [name |-> n, language |-> language, effects |-> effects, evidence |-> evidence]

Effect(kind, family) == [kind |-> kind, family |-> family]
Evidence(kind, says) == [kind |-> kind, says |-> says]
NoFamily == "NoFamily"

EffectKind ==
    [Acquire |-> "ReturnsOwned", Release |-> "Release",
     ConditionalRelease |-> "ConditionalRelease", Retain |-> "Retain",
     Escape |-> "OwnershipEscape", Reclaim |-> "OwnershipReclaim"]

\* "library" stands in the description of a library's symbol, and in that of any
\* name it is part of.
SaysLibrary(n, said) == IF said \/ Contains(n, {"library"}) THEN {"library"} ELSE {}

SummaryOfEntry(e) ==
    LET library == e.family \in {"SQLITE_RESOURCE", "ZLIB_STREAM",
                                 "OPENSSL_RESOURCE", "MIMALLOC"}
    IN Summary(e.symbol, e.language, {Effect(EffectKind[e.effect], e.family)},
               {Evidence("SymbolPattern", SaysLibrary(e.symbol, library))})

SummaryOfSuffix(n, language) ==
    LET by(effect) == Summary(n, language, {Effect(effect, "C_HEAP")},
                              {Evidence("SymbolPattern", SaysLibrary(n, FALSE))})
    IN FirstMatch(<< <<AllocSuffix(n), by("ReturnsOwned")>>,
                     <<ReleaseSuffix(n), by("Release")>> >>,
                  Summary(n, language, {}, {}))

\* infer_summary_for_symbol: the table, then the first kind the name is of
SummaryOfKind(n, language, destructor, refcount) ==
    LET python == IF Contains(n, {"Py", "python"}) \/
                     (refcount # None /\ refcount.kind = "PythonRefcount")
                  THEN {"Python"} ELSE {}
    IN FirstMatch(<<
        <<destructor # None,
          Summary(n, language, {Effect("ConsumesArg", "C_HEAP"), Effect("Release", "C_HEAP")},
                  {Evidence("DestructorRelease", {destructor})})>>,
        <<ClassifyBridge(n, language) # None,
          Summary(n, language, {Effect("ReturnsBorrowed", NoFamily)},
                  {Evidence("BridgeHelper", {})})>>,
        <<refcount # None,
          Summary(n, language,
                  {Effect("ConditionalRelease",
                          IF refcount # None THEN refcount.family ELSE NoFamily)},
                  {Evidence("RefcountConditional", python)})>>,
        <<ClassifyStaticLifetime(n, language) # None,
          Summary(n, language, {Effect("StoresArgToGlobal", NoFamily)},
                  {Evidence("StaticLifetimeSink", {})})>>,
        <<IsIntoRaw(n, language),
          Summary(n, language, {Effect("OwnershipEscape", "RUST_RAW_OWNERSHIP"),
                                Effect("ConsumesArg", "RUST_GLOBAL")},
                  {Evidence("OwnershipTransfer", {"into_raw"})})>>,
        <<IsFromRaw(n, language),
          Summary(n, language, {Effect("OwnershipReclaim", "RUST_RAW_OWNERSHIP")},
                  {Evidence("OwnershipTransfer", {})})>> >>,
        SummaryOfSuffix(n, language))

SummaryOfName(n, language) ==
    SummaryOfKind(n, language, ClassifyDestructor(n, language), ClassifyRefcount(n, language))

InferSummary(n) ==
    IF IsRegistered(n) THEN SummaryOfEntry(Entry[n]) ELSE SummaryOfName(n, InferLanguageHint(n))

====
