---- MODULE BehaviorSummary ----
\* What the patterns found in a function's body say of it: its summary
\* (behavior_to_summary) and the facts stated of it (pattern_to_facts). A pattern
\* with a flag is named by what the flag says.
EXTENDS NameInference, TLC

-----------------------------------------------------------------------------
\* The semantic kinds a function is given: by its name alone, and by the
\* evidence of its summary. kind.rs and structural_inference_pass.rs.


\* SemanticKind::from_function_name: the kind of the first pattern that matches
FromFunctionName(n) ==
    FirstMatch(<<
        <<Contains(n, {"Py_INCREF", "Py_XINCREF"}), "PythonRefcountInc">>,
        <<Contains(n, {"Py_DECREF", "Py_XDECREF"}), "PythonRefcountDec">>,
        <<Contains(n, {"PyList_GetItem", "PyTuple_GetItem", "PyDict_GetItem",
                       "PyList_GET_ITEM", "PyTuple_GET_ITEM"}), "PythonBorrowedRef">>,
        <<Contains(n, {"PyBytes_FromString", "PyLong_FromLong", "PyFloat_FromDouble",
                       "PyObject_Call", "PyUnicode_FromString", "PyBool_FromLong"}),
          "PythonOwnedRef">>,
        <<Contains(n, {"PyGILState_Ensure", "PyGILState_Release"}), "PythonGilProtected">>,
        <<Contains(n, {"defer"}) /\ Contains(n, {"free"}), "GoDeferCleanup">>,
        <<Contains(n, {"SetFinalizer"}), "GoFinalizer">>,
        <<Contains(n, {"runtime.mallocgc", "runtime.newobject", "runtime.newarray"}),
          "GoRuntimeAlloc">>,
        <<Contains(n, {"unique_ptr", "make_unique"}), "CppUniquePtr">>,
        <<Contains(n, {"shared_ptr", "make_shared"}), "CppSharedPtr">>,
        <<StartsWith(n, {"~"}) \/ Contains(n, {"::~"}), "CppDestructor">>,
        <<Contains(n, {"__cxa_throw", "__cxa_begin_catch", "__cxa_end_catch",
                       "__cxa_allocate_exception"}), "CppExceptionPath">>,
        <<StartsWith(n, {"_Cgo_"}) \/ Contains(n, {"_cgo_"}), "GoCgoWrapper">>,
        <<Contains(n, {"SafeHandle", "ReleaseHandle", "CriticalHandle"}),
          "CsharpSafeHandle">>,
        <<Contains(n, {"Finalize", "~Destructor"}), "CsharpFinalizer">>,
        <<Contains(n, {"DllImport", "Marshal.AllocHGlobal", "Marshal_AllocHGlobal",
                       "Marshal.FreeHGlobal", "Marshal_FreeHGlobal", "P/Invoke"}),
          "CsharpPinvokeMarshal">>,
        <<Contains(n, {"NewLocalRef", "DeleteLocalRef"}), "JavaLocalRef">>,
        <<Contains(n, {"NewGlobalRef", "DeleteGlobalRef"}), "JavaGlobalRef">>,
        <<Contains(n, {"NewWeakGlobalRef", "DeleteWeakGlobalRef"}), "JavaWeakRef">>,
        <<Contains(n, {"Arc::into_raw", "Arc::from_raw"}), "RefcountTransfer">>,
        <<Contains(n, {"malloc"}) /\ Contains(n, {"wasm"}), "WasmMemoryAlloc">>,
        <<Contains(n, {"free"}) /\ Contains(n, {"wasm"}), "WasmMemoryFree">>,
        <<StartsWith(n, {"emscripten_"}) /\ ~StartsWith(n, {"emscripten_val_"}),
          "EmScriptenRuntimeOp">>,
        <<StartsWith(n, {"emscripten_val_"}), "EmvalHandle">>,
        <<StartsWith(n, {"__import_"}), "JsImportWrapper">>,
        <<StartsWith(n, {"__export_"}), "JsExportWrapper">> >>, "Unknown")

\* is_ffi_boundary_function
IsFfiBoundaryFunction(n) ==
    \/ /\ StartsWith(n, {"_R"})
       /\ Contains(n, {"ffi", "extern", "callback", "c_api", "sys", "2os"})
    \/ /\ ~StartsWith(n, {"_R"})
       /\ Contains(n, {"::ffi::", "::extern::", "::sys::", "::c_api::", "::callback::"})
    \/ /\ ~Contains(n, {"::"}) /\ ~StartsWith(n, {"_"}) /\ Contains(n, {"_"})
       /\ StartsWith(n, {"sqlite3_", "uv_", "curl_", "png_", "jpeg_", "zlib_", "ssl_",
                         "openssl_", "crypto_", "gtk_", "gdk_", "SDL_", "lua_", "py_",
                         "PyObject_", "PyModule_", "JNI_", "cf_", "CG", "NS", "CF"})

\* is_c_library_internal
IsCLibraryInternal(n) ==
    /\ ~StartsWith(n, {"_R", "_Z"}) /\ ~Contains(n, {"::"})
    /\ StartsWith(n,
        {"sqlite", "pcache", "btree", "vdbe", "pager", "wal", "json", "memjrnl", "yy",
         "tokenize", "pthread", "code", "expr", "where", "select", "trigger", "attach",
         "window", "column", "index", "table", "view", "blob", "memdb", "unix", "stat",
         "group", "concat", "char", "unhex", "rename", "fk", "pragma", "vacuum",
         "inflate", "deflate", "zlib_", "ssl_", "openssl_", "EVP_", "SSL_", "BIO_",
         "X509_", "CRYPTO_", "uv_", "curl_", "png_", "jpeg_", "mi_", "g_", "glib_"})

\* is_runtime_internal
IsRuntimeInternal(n) ==
    \/ n \in {"mmap", "munmap", "brk", "sbrk", "mprotect", "madvise"}
    \/ StartsWith(n, {"__rust_", "core::panicking", "alloc::raw_vec", "_ZN5alloc",
                      "_ZN4core", "__cxa_", "llvm.", "__llvm_", "compiler_builtins",
                      "__stack_chk_"})
    \/ StartsWith(n, {"_R"}) /\ Contains(n, {"4core", "5alloc", "3std"})
    \/ Contains(n, {"panic_fmt", "begin_panic", "drop_in_place", "c_allocator_impl"})

\* What a kind of evidence says of the function, whatever its description
KindOfEvidence ==
    [SameFamilyRelease |-> "HeapProvenance", RaiiDropRelease |-> "RaiiDropRelease",
     OwnershipTransfer |-> "IntoRawTransfer", OwnershipEscapeLeak |-> "IntoRawTransfer",
     NullGuardedRelease |-> "ReleaseOnAllExitPaths"]

\* What it says by the words of its description: the first that is there
KindByWord ==
    [ParameterMutability |->
        << <<"Mutable", "MutableParam">>, <<"Readonly", "ReadonlyParam">> >>,
     DestructorRelease |->
        << <<"CppDestructor", "CppDestructor">>, <<"CSharpDispose", "CsharpSafeHandle">>,
           <<"PythonFinalizer", "PythonRefcountDec">>, <<"JavaFinalizer", "JavaLocalRef">> >>,
     PosixSyscallClass |->
        << <<"file", "FileOperation">>, <<"network", "NetworkOperation">>,
           <<"process", "ProcessOperation">> >>,
     SymbolPattern |-> << <<"library", "LibraryRelease">> >>,
     RefcountConditional |-> << <<"Python", "PythonRefcountDec">> >>]

\* and what it says when none of the words is
KindOtherwise ==
    [ParameterMutability |-> None, DestructorRelease |-> "RaiiDropRelease",
     PosixSyscallClass |-> None, SymbolPattern |-> None,
     RefcountConditional |-> "RuntimeManagedResource"]

KindSaid(e) ==
    IF e.kind \in DOMAIN KindOfEvidence THEN KindOfEvidence[e.kind]
    ELSE IF e.kind \in DOMAIN KindByWord
    THEN LET words == KindByWord[e.kind]
         IN FirstMatch([i \in DOMAIN words |-> <<words[i][1] \in e.says, words[i][2]>>],
                       KindOtherwise[e.kind])
    ELSE None

Acquires(summary) ==
    \E e \in summary.effects : e.kind \in {"ReturnsOwned", "OwnershipReclaim"}
Releases(summary) ==
    \E e \in summary.effects : e.kind \in {"Release", "ConditionalRelease"}

\* The kinds a name has whatever its summary says
NameKinds(n) ==
    ({FromFunctionName(n)} \ {"Unknown"})
        \cup (IF IsRuntimeInternal(n) THEN {"RuntimeInternal"} ELSE {})
        \cup (IF IsCLibraryInternal(n) THEN {"LibraryRelease"} ELSE {})

KindsOf(summary) ==
    ({KindSaid(e) : e \in summary.evidence} \ {None})
        \cup NameKinds(summary.name)
        \cup (IF /\ summary.language = "Rust" /\ ~Acquires(summary) /\ ~Releases(summary)
                 /\ ~Contains(summary.name, {"alloc"})
                 /\ IsFfiBoundaryFunction(summary.name)
              THEN {"FromParameter"} ELSE {})

-----------------------------------------------------------------------------


Row(effects, evidence) == [effects |-> effects, evidence |-> evidence]
IrEvidence == Evidence("IrPattern", {})
Owned == {Effect("ReturnsOwned", "C_HEAP")}
Released == {Effect("Release", "C_HEAP")}
Borrowed == {Effect("ReturnsBorrowed", NoFamily)}
Globalized == {Effect("StoresArgToGlobal", NoFamily)}

\* Patterns of what a function does with a value
ValuePatterns ==
    [ConditionalRelease |->
        Row({Effect("ConditionalRelease", "RUST_GLOBAL")}, Evidence("RefcountConditional", {})),
     OwnershipAcquired |-> Row(Owned, Evidence("OwnershipTransfer", {})),
     OwnershipReleased |-> Row(Released, Evidence("OwnershipTransfer", {})),
     PureComputation |-> Row({}, IrEvidence),
     PointerProjection |-> Row(Borrowed, IrEvidence),
     Initialization |-> Row({}, IrEvidence),
     InternalBridge |-> Row({}, Evidence("CallGraphStructure", {})),
     ReadonlyReturn |-> Row(Borrowed, IrEvidence),
     FieldReturn |-> Row(Borrowed, IrEvidence),
     RaiiDrop |->
        Row({Effect("Release", "RUST_GLOBAL"), Effect("ConsumesArg", "RUST_GLOBAL")},
            Evidence("RaiiDropRelease", {})),
     IntoRawTransfer |->
        Row({Effect("ReturnsOwned", "RUST_GLOBAL")}, Evidence("OwnershipTransfer", {"into_raw"})),
     FileOp |-> Row({}, Evidence("PosixSyscallClass", {"file"})),
     NetworkOp |-> Row({}, Evidence("PosixSyscallClass", {"network"})),
     ProcessOp |-> Row({}, Evidence("PosixSyscallClass", {"process"})),
     OtherOp |-> Row({}, Evidence("PosixSyscallClass", {}))]

\* Patterns of where a pointer goes, and on which paths it is released
PathPatterns ==
    [NullGuardedRelease |-> Row({Effect("ConditionalRelease", "C_HEAP")}, IrEvidence),
     NullStoreAfterRelease |-> Row(Released, IrEvidence),
     FallibleOutParamInit |-> Row(Owned, IrEvidence),
     OutParamNullOnError |-> Row({}, IrEvidence),
     OutParamOwnedOnSuccess |-> Row(Owned, IrEvidence),
     StoreToOwner |-> Row({Effect("StoresArgToOwner", NoFamily)}, IrEvidence),
     StoreToRuntime |-> Row(Globalized, IrEvidence),
     EscapeByReturn |-> Row(Owned, IrEvidence),
     EscapeByOutParam |-> Row(Owned, IrEvidence),
     ReleaseOnAllExitPaths |-> Row(Released, IrEvidence)]

\* Patterns of faults
FaultPatterns ==
    [StackToGlobalEscape |-> Row(Globalized, IrEvidence),
     HeapToGlobalEscape |-> Row(Globalized, IrEvidence),
     ReturnAlias |-> Row(Borrowed, IrEvidence),
     FreeThenCallbackUse |->
        Row(Released \cup {Effect("EscapesToCallback", NoFamily)}, Evidence("UseAfterFree", {})),
     BufferOverflow |-> Row({}, IrEvidence)]

PatternRow == ValuePatterns @@ PathPatterns @@ FaultPatterns

\* A function without patterns has a summary that says so. What the returned
\* value is made of adds evidence that gives no kind, and is left out.
SummaryOfRows(n, rows) ==
    Summary(n, "Unknown", UNION {r.effects : r \in rows},
            IF rows = {} THEN {Evidence("Insufficient", {})} ELSE {r.evidence : r \in rows})

BehaviorToSummary(n, patterns) == SummaryOfRows(n, {PatternRow[p] : p \in patterns})

-----------------------------------------------------------------------------
\* The kind of the fact stated of each pattern

ValueFact ==
    [ConditionalRelease |-> "ReleaseOnAllExitPaths", PureComputation |-> "NonMemoryResource",
     OwnershipAcquired |-> "HeapProvenance", OwnershipReleased |-> "IntoRawTransfer",
     PointerProjection |-> "FromParameter", Initialization |-> "NonMemoryResource",
     InternalBridge |-> "DeclaredCrossBoundary", ReadonlyReturn |-> "ReadonlyParam",
     FieldReturn |-> "FromParameter", RaiiDrop |-> "RaiiDropRelease",
     IntoRawTransfer |-> "IntoRawTransfer", FileOp |-> "FileOperation",
     NetworkOp |-> "NetworkOperation", ProcessOp |-> "ProcessOperation",
     OtherOp |-> "NonMemoryResource"]

PathFact ==
    [NullGuardedRelease |-> "NullOnErrorPath", NullStoreAfterRelease |-> "AliasOfReleased",
     FallibleOutParamInit |-> "FallibleOutParamInit", OutParamNullOnError |-> "NullOnErrorPath",
     OutParamOwnedOnSuccess |-> "EscapedToOutParam", StoreToOwner |-> "StoredToOwner",
     StoreToRuntime |-> "StoredToRuntime", EscapeByReturn |-> "EscapedToCaller",
     EscapeByOutParam |-> "EscapedToOutParam",
     ReleaseOnAllExitPaths |-> "ReleaseOnAllExitPaths"]

FaultFact ==
    [StackToGlobalEscape |-> "EscapedToCaller", HeapToGlobalEscape |-> "EscapedToCaller",
     ReturnAlias |-> "FromParameter", FreeThenCallbackUse |-> "AliasOfReleased",
     BufferOverflow |-> "NonMemoryResource"]

PatternFact == ValueFact @@ PathFact @@ FaultFact

\* The facts pattern_to_facts states of the function, under its symbol
PatternFacts(n, patterns) == {[symbol |-> n, kind |-> PatternFact[p]] : p \in patterns}

====
