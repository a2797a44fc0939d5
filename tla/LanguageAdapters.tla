---- MODULE LanguageAdapters ----
\* The adapters of LanguageAdapterFactPass: the semantic kinds each states of a
\* function, by the patterns in its name and, for Python and WebAssembly, in the
\* names it calls. The patterns that neither state a kind nor decide whether the
\* function is safe are left out. Of a function that is not safe an adapter says
\* Unknown as well.
EXTENDS NameInference, Sequences, FiniteSets

-----------------------------------------------------------------------------
\* The Python adapter: the kinds it states of a function, by its name and by the
\* functions of the Python API it calls. python_adapter/.


\* build_known_functions, by pattern
NewReferences ==
    {"PyObject_New", "PyObject_NewVar", "PyType_GenericAlloc", "PyBytes_FromStringAndSize",
     "PyBytes_FromString", "PyUnicode_FromString", "PyUnicode_FromStringAndSize",
     "PyList_New", "PyTuple_New", "PyDict_New", "PySet_New"}

OtherNewReferences ==
    {"PyList_GetItemRef", "PyDict_GetItemRef", "Py_BuildValue", "PyLong_FromLong",
     "PyLong_FromUnsignedLong", "PyLong_FromLongLong", "PyLong_FromDouble",
     "PyFloat_FromDouble"}

RefcountIncrements == {"Py_INCREF", "Py_XINCREF"}
RefcountDecrements == {"Py_DECREF", "Py_XDECREF"}
Gil == {"PyGILState_Ensure", "PyGILState_Release"}
Destructions == {"PyObject_Del", "PyObject_Free"}
ExceptionSetters == {"PyErr_SetString", "PyErr_Format"}
ExceptionClearers == {"PyErr_Clear", "PyErr_Print"}
OtherExceptions ==
    {"PyErr_Occurred", "PyErr_ExceptionMatches", "PyErr_GivenExceptionMatches",
     "PyErr_NewException", "PyErr_NewExceptionWithDoc", "PyErr_Fetch", "PyErr_Restore"}

CreationSuffixes ==
    {"_New", "_FromString", "_FromStringAndSize", "_FromDouble", "_FromLong",
     "_FromUnsignedLong", "_FromLongLong"}

IsPy(n, suffixes) == StartsWith(n, {"Py"}) /\ EndsWith(n, suffixes)

\* The patterns a name and a call have alike
SharedPattern(n) ==
    FirstMatch(<<
        <<n \in RefcountIncrements, "Increment">>,
        <<n \in RefcountDecrements, "Decrement">>,
        <<n \in NewReferences \cup {"Py_BuildValue"} \/ IsPy(n, CreationSuffixes),
          "NewReference">>,
        <<IsPy(n, {"_GetItem"}), "BorrowedReference">>,
        <<IsPy(n, {"_SetItem"}), "StolenReference">>,
        <<n \in Gil, "Gil">>,
        <<n \in Destructions, "ObjectDestruction">>,
        <<n \in ExceptionSetters, "ExceptionSetter">>,
        <<n \in ExceptionClearers, "ExceptionClearer">>,
        <<n \in OtherExceptions, "Exception">> >>, "None")

\* analyze_function: two functions more are known as names,
NamePattern(n) == IF n \in OtherNewReferences THEN "NewReference" ELSE SharedPattern(n)

\* analyze_function_body: and the allocators as calls.
CallPattern(c) ==
    FirstMatch(<<
        <<c \in {"PyMem_Malloc", "PyMem_Calloc", "PyMem_Realloc"}, "MemoryAllocation">>,
        <<c = "PyMem_Free", "MemoryDeallocation">> >>, SharedPattern(c))

PythonPatterns(n, calls) ==
    SelectSeq(<<NamePattern(n)>> \o [i \in DOMAIN calls |-> CallPattern(calls[i])],
              LAMBDA p : p # "None")

PythonFact ==
    [NewReference |-> "PythonOwnedRef", BorrowedReference |-> "PythonBorrowedRef",
     StolenReference |-> "PythonOwnedRef", Increment |-> "PythonRefcountInc",
     Decrement |-> "PythonRefcountDec", Gil |-> "PythonGilProtected",
     ObjectDestruction |-> "RaiiDropRelease", MemoryAllocation |-> "HeapProvenance",
     MemoryDeallocation |-> "RaiiDropRelease", ExceptionSetter |-> "CppExceptionPath",
     ExceptionClearer |-> "CppExceptionPath", Exception |-> "CppExceptionPath"]

IsPythonApi(n) == StartsWith(n, {"Py", "_Py"})

\* has_balanced_refcount: any pattern at all, or any call of the API
ManagesRefcount(n, calls) ==
    PythonPatterns(n, calls) # <<>> \/ \E i \in DOMAIN calls : IsPythonApi(calls[i])

\* determine_refcount_safety: "Unknown" leaves the verdict to what follows.
RefcountVerdict(patterns) ==
    LET count(p) == Cardinality({i \in DOMAIN patterns : patterns[i] = p})
        references == {"StolenReference", "NewReference", "BorrowedReference"}
    IN FirstMatch(<<
        <<count("Increment") > 0 /\ count("Decrement") > 0,
          IF count("Increment") = count("Decrement") THEN "Safe" ELSE "Concern">>,
        <<\E p \in references : count(p) > 0, "Safe">> >>, "Unknown")

\* determine_ffi_safety
PythonSafe(patterns) ==
    LET has(ps) == \E i \in DOMAIN patterns : patterns[i] \in ps
        refcount == RefcountVerdict(patterns)
    IN FirstMatch(<<
        <<has({"Gil"}), TRUE>>,
        <<refcount # "Unknown", refcount = "Safe">>,
        <<has({"ObjectDestruction"}), TRUE>>,
        <<has({"MemoryAllocation"}) /\ has({"MemoryDeallocation"}), TRUE>>,
        <<has({"ExceptionSetter", "ExceptionClearer", "Exception"}),
          has({"ExceptionClearer"}) \/ ~has({"ExceptionSetter"})>> >>, FALSE)

PythonKinds(n, calls) ==
    LET patterns == PythonPatterns(n, calls)
    IN {PythonFact[patterns[i]] : i \in DOMAIN patterns}
        \cup (IF ManagesRefcount(n, calls) THEN {"PythonRefcountManaged"} ELSE {})
        \cup (IF PythonSafe(patterns) THEN {} ELSE {"Unknown"})

-----------------------------------------------------------------------------


\* The results of the rules, pairs of a condition and a result, that apply
Where(rules) == {r[2] : r \in {q \in rules : q[1]}}

Unsafe(safe) == IF safe THEN {} ELSE {"Unknown"}
Stated(fact, patterns) == {fact[p] : p \in patterns \cap DOMAIN fact}

-----------------------------------------------------------------------------
\* go_adapter.rs

GoPatterns(n) ==
    Where({
        <<StartsWith(n, {"runtime."}), "RuntimeInternal">>,
        <<StartsWith(n, {"runtime.mallocgc", "runtime.alloc"}), "GoGCAllocation">>,
        <<StartsWith(n, {"runtime.deferproc"}), "DeferCleanup">>,
        <<StartsWith(n, {"runtime.SetFinalizer"}), "Finalizer">>,
        <<StartsWith(n, {"_cgo_", "_Cfunc_"}), "CGOBridge">>,
        <<n \in {"_cgo_allocate", "_Cfunc_GoMalloc"}, "CGOAllocation">>,
        <<n \in {"_cgo_free", "_Cfunc_GoFree"}, "CGODesallocation">>})

GoFact ==
    [GoGCAllocation |-> "GoRuntimeAlloc", CGOAllocation |-> "HeapProvenance",
     CGODesallocation |-> "RaiiDropRelease", RuntimeInternal |-> "RuntimeInternal",
     CGOBridge |-> "GoCgoWrapper", DeferCleanup |-> "GoDeferCleanup",
     Finalizer |-> "GoFinalizer"]

GoSafe(n, patterns) ==
    IF "CGOBridge" \in patterns
    THEN {"CGOAllocation", "CGODesallocation"} \subseteq patterns
    ELSE "RuntimeInternal" \in patterns \/ StartsWith(n, {"main."})

GoKinds(n) == Stated(GoFact, GoPatterns(n)) \cup Unsafe(GoSafe(n, GoPatterns(n)))

-----------------------------------------------------------------------------
\* java_adapter/mod.rs

JniCall(n) == Contains(n, {"(*env)->", "JNIEnv"})

\* What a call through the environment is: the first that its name says
JniOperation(n) ==
    FirstMatch(<<
        <<~JniCall(n), "None">>,
        <<Contains(n, {"NewStringUTF", "GetStringUTFChars", "ReleaseStringUTFChars",
                       "GetStringLength"}), "JNIStringOperation">>,
        <<Contains(n, {"NewIntArray", "NewBooleanArray", "NewByteArray", "NewCharArray",
                       "NewShortArray", "NewLongArray", "NewFloatArray", "NewDoubleArray",
                       "GetArrayElements", "ReleaseArrayElements", "GetArrayLength"}),
          "JNIArrayOperation">>,
        <<Contains(n, {"NewObject", "NewString"}), "JNIObjectCreation">>,
        <<Contains(n, {"DeleteLocalRef"}), "JNILocalReference">>,
        <<Contains(n, {"DeleteWeakGlobalRef", "NewWeakGlobalRef"}), "JNIWeakGlobalReference">>,
        <<Contains(n, {"DeleteGlobalRef", "NewGlobalRef"}), "JNIGlobalReference">>,
        <<Contains(n, {"FindClass", "GetMethodID", "GetStaticMethodID", "GetFieldID",
                       "GetStaticFieldID", "GetIntField", "SetIntField", "GetObjectField",
                       "SetObjectField"}), "None">>,
        <<Contains(n, {"ExceptionOccurred", "ExceptionClear", "ExceptionCheck", "Throw"}),
          "JNIExceptionHandling">> >>, "None")

JavaPatterns(n) ==
    Where({
        <<StartsWith(n, {"Java_", "JNI"}) \/ JniCall(n), "JNICall">>,
        <<StartsWith(n, {"Java_"}), "JNINativeRegistration">>,
        <<TRUE, JniOperation(n)>>,
        <<Contains(n, {"System.gc", "Runtime.gc"}), "GCOperation">>,
        <<Contains(n, {"java.lang.reflect", "Class.forName", "Method.invoke"}),
          "Reflection">>}) \ {"None"}

JavaFact ==
    [JNICall |-> "DeclaredCrossBoundary", JNIObjectCreation |-> "HeapProvenance",
     JNILocalReference |-> "JavaLocalRef", JNIGlobalReference |-> "JavaGlobalRef",
     JNIWeakGlobalReference |-> "JavaWeakRef", JNIStringOperation |-> "HeapProvenance",
     JNIArrayOperation |-> "HeapProvenance", JNIExceptionHandling |-> "CppExceptionPath",
     GCOperation |-> "RuntimeManagedResource",
     JNINativeRegistration |-> "DeclaredCrossBoundary"]

\* A reference is taken for created by what cleans it up, and for cleaned up by
\* what creates it: only exceptions tell.
JavaSafe(patterns) == patterns = {} \/ {"JNICall", "JNIExceptionHandling"} \subseteq patterns

JavaKinds(n) == Stated(JavaFact, JavaPatterns(n)) \cup Unsafe(JavaSafe(JavaPatterns(n)))

-----------------------------------------------------------------------------
\* csharp_adapter/mod.rs and pinvoke.rs

PInvokePatterns(n) ==
    Where({
        <<Contains(n, {"P/Invoke", "DllImport", "Marshal.PtrToStructure",
                       "Marshal.StructureToPtr", "Marshal.SizeOf", "Marshal.PtrToStringAnsi",
                       "Marshal.PtrToStringUni", "Marshal.PtrToStringAuto"}), "PInvokeCall">>,
        <<Contains(n, {"Marshal.AllocHGlobal", "Marshal.AllocCoTaskMem",
                       "Marshal.StringToHGlobalAnsi", "Marshal.StringToHGlobalUni",
                       "Marshal.StringToCoTaskMemAnsi", "Marshal.StringToCoTaskMemUni"}),
          "MarshalAllocation">>,
        <<Contains(n, {"Marshal.FreeHGlobal", "Marshal.FreeCoTaskMem"}), "MarshalDeallocation">>,
        <<Contains(n, {"Marshal.GetIUnknownForObject", "Marshal.GetObjectForIUnknown",
                       "Marshal.GetComInterfaceForObject", "Marshal.GetIDispatchForObject",
                       "Marshal.ReleaseComObject", "ComVisible"}), "COMInterop">>})

CSharpPatterns(n) ==
    PInvokePatterns(n) \cup
    Where({
        <<Contains(n, {"GCHandle.Alloc"}), "GCHandleAllocation">>,
        <<Contains(n, {"GCHandle.Free"}) /\ ~Contains(n, {"GCHandle.Alloc"}),
          "GCHandleDeallocation">>,
        <<Contains(n, {"SafeHandle", "CriticalHandle"}), "SafeHandleUsage">>,
        <<Contains(n, {"IDisposable", ".Dispose()"}), "IDisposablePattern">>,
        <<Contains(n, {"GC.Collect", "GC.WaitForPendingFinalizers"}), "GCOperation">>})

CSharpFact ==
    [PInvokeCall |-> "CsharpPinvokeMarshal", MarshalAllocation |-> "HeapProvenance",
     MarshalDeallocation |-> "RaiiDropRelease", SafeHandleUsage |-> "CsharpSafeHandle",
     IDisposablePattern |-> "CsharpSafeHandle", GCOperation |-> "RuntimeManagedResource",
     GCHandleAllocation |-> "CsharpPinvokeMarshal",
     GCHandleDeallocation |-> "CsharpPinvokeMarshal"]

CSharpSafe(patterns) ==
    \/ {"SafeHandleUsage", "IDisposablePattern"} \cap patterns # {}
    \/ {"MarshalAllocation", "MarshalDeallocation"} \subseteq patterns
    \/ patterns = {}

CSharpKinds(n) == Stated(CSharpFact, CSharpPatterns(n)) \cup Unsafe(CSharpSafe(CSharpPatterns(n)))

-----------------------------------------------------------------------------
\* cpp_adapter/mod.rs

Mangled(n) == StartsWith(n, {"_Z", "__Z"})

\* What the mangling of a name says
MangledPatterns(n) ==
    IF ~Mangled(n) THEN {}
    ELSE LET constructor == Contains(n, {"C1E", "C2E", "CI"})
         IN Where({
            <<constructor, "Constructor">>,
            <<constructor /\ Contains(n, {"EOS", "OE"}), "MoveConstructor">>,
            <<Contains(n, {"D0E", "D1E", "D2E"}), "Destructor">>,
            <<Contains(n, {"aSEO"}), "MoveAssignment">>,
            <<Contains(n, {"10unique_ptr"}), "UniquePtrCreation">>,
            <<Contains(n, {"10shared_ptr"}), "SharedPtrCreation">>,
            <<Contains(n, {"10weak_ptr"}), "WeakPtrCreation">>,
            <<Contains(n, {"_M_add_ref", "__add_ref"}), "RefCountIncrement">>,
            <<Contains(n, {"_M_release", "__release"}), "RefCountDecrement">>})

CppPatterns(n) ==
    MangledPatterns(n) \cup
    Where({
        <<Contains(n, {"lock_guard", "unique_lock", "scoped_lock", "RAII"}), "RaiiGuard">>,
        <<Contains(n, {"std::move", "4move"}), "StdMove">>,
        <<Contains(n, {"__cxa_throw", "__cxa_rethrow"}), "ThrowExpression">>,
        <<Contains(n, {"__cxa_begin_catch", "__cxa_end_catch"}), "CatchBlock">>,
        <<Contains(n, {"__cxa_begin_cleanup"}), "TryBlock">>,
        <<Contains(n, {"noexcept", "DnE"}), "Noexcept">>,
        <<n \in {"_Znwj", "_Znwm", "operator new"}, "RawNew">>,
        <<n \in {"_ZdlPv", "_ZdaPv", "operator delete"}, "RawDelete">>})

CppFact ==
    [Constructor |-> "HeapProvenance", Destructor |-> "CppDestructor",
     RaiiGuard |-> "RaiiDropRelease", UniquePtrCreation |-> "CppUniquePtr",
     SharedPtrCreation |-> "CppSharedPtr", RefCountIncrement |-> "CppSharedPtr",
     RefCountDecrement |-> "CppSharedPtr", MoveConstructor |-> "IntoRawTransfer",
     MoveAssignment |-> "IntoRawTransfer", StdMove |-> "IntoRawTransfer",
     TryBlock |-> "CppExceptionPath", CatchBlock |-> "CppExceptionPath",
     ThrowExpression |-> "CppExceptionPath", RawNew |-> "HeapProvenance",
     RawDelete |-> "RaiiDropRelease"]

SmartPointers == {"UniquePtrCreation", "SharedPtrCreation", "WeakPtrCreation"}

\* Every verdict on what is left is a concern, or Unknown.
CppSafe(patterns) ==
    \/ {"Constructor", "Destructor"} \subseteq patterns
    \/ "RaiiGuard" \in patterns
    \/ (SmartPointers \cup {"Noexcept"}) \cap patterns # {} /\ "RawNew" \notin patterns

CppKinds(n) == Stated(CppFact, CppPatterns(n)) \cup Unsafe(CppSafe(CppPatterns(n)))

-----------------------------------------------------------------------------
\* wasm_adapter.rs

WasmPatterns(n) ==
    Where({
        <<StartsWith(n, {"emscripten_val_"}), "EmvalOperation">>,
        <<\/ StartsWith(n, {"emscripten_"}) /\ ~StartsWith(n, {"emscripten_val_"})
          \/ Contains(n, {"__wasm_call_ctors"}), "EmscriptenRuntime">>,
        <<StartsWith(n, {"emnapi_", "__import_"}), "JsImportFunction">>,
        <<StartsWith(n, {"__export_"}), "JsExportFunction">>,
        <<StartsWith(n, {"wasm_"}) /\ Contains(n, {"memory"}), "WasmLinearMemory">>,
        <<Contains(n, {"memory.grow", "__memory_grow"}), "MemoryGrow">>,
        <<Contains(n, {"__asyncify"}), "AsyncifyOperation">>,
        <<Contains(n, {"EM_JS_", "EM_ASM_"}), "JsCallWrapper">>})

\* The pattern of a call
WasmCallPattern(c) ==
    FirstMatch(<<
        <<StartsWith(c, {"__import_", "env."}), "JsImportFunction">>,
        <<StartsWith(c, {"__export_"}), "JsExportFunction">>,
        <<StartsWith(c, {"emscripten_val_"}), "EmvalOperation">>,
        <<StartsWith(c, {"emscripten_"}), "EmscriptenRuntime">>,
        <<StartsWith(c, {"wasm_"}) /\ Contains(c, {"memory"}), "WasmLinearMemory">>,
        <<Contains(c, {"memory.grow"}) \/ c = "__memory_grow", "MemoryGrow">>,
        <<Contains(c, {"__asyncify"}), "AsyncifyOperation">>,
        <<Contains(c, {"EM_JS_", "EM_ASM_"}), "JsCallWrapper">>,
        <<StartsWith(c, {"__wasm_globals_set", "__global_set"}), "WasmGlobalSet">>,
        <<StartsWith(c, {"__wasm_table_set", "__table_set"}), "WasmTableSet">>,
        <<StartsWith(c, {"emnapi_"}), "JsImportFunction">> >>, "None")

WasmFact ==
    [WasmLinearMemory |-> "WasmMemoryAlloc", JsCallWrapper |-> "DeclaredCrossBoundary",
     JsImportFunction |-> "JsImportWrapper", JsExportFunction |-> "JsExportWrapper",
     EmscriptenRuntime |-> "EmScriptenRuntimeOp", EmvalOperation |-> "EmvalHandle",
     WasmGlobalSet |-> "RuntimeManagedResource", WasmTableSet |-> "DeclaredCrossBoundary",
     AsyncifyOperation |-> "RuntimeInternal", MemoryGrow |-> "RuntimeManagedResource"]

WasmSafe(patterns) ==
    LET memory == {"WasmLinearMemory", "MemoryGrow"} \cap patterns # {}
        boundary == {"JsCallWrapper", "JsImportFunction", "JsExportFunction",
                     "WasmTableSet"} \cap patterns # {}
        runtime == {"EmscriptenRuntime", "AsyncifyOperation"} \cap patterns # {}
    IN /\ "EmvalOperation" \notin patterns
       /\ memory # boundary \/ (~memory /\ runtime)

WasmKinds(n, calls) ==
    LET patterns == WasmPatterns(n) \cup {WasmCallPattern(calls[i]) : i \in DOMAIN calls}
    IN Stated(WasmFact, patterns) \cup Unsafe(WasmSafe(patterns))

====
