---- MODULE MCSemanticResolution ----
\* Modules in which ids collide, in which management of reference counts has far
\* to go, in several languages, with and without declared boundaries; and issues
\* on their names. The names are given by the patterns that match them.
EXTENDS FunctionSummaries

NameRows ==
    {<<"", {}, {}, {}>>,
     <<"Java_com_App_run", {"Java_"}, {}, {"_"}>>,
     <<"Marshal.AllocHGlobal", {"Marshal", "Marshal.", "Marshal.AllocHGlobal"}, {"Marshal.AllocHGlobal"}, {}>>,
     <<"NewGlobalRef", {"NewGlobalRef"}, {"NewGlobalRef"}, {}>>,
     <<"PyErr_Occurred", {"Py", "PyErr"}, {}, {"_"}>>,
     <<"PyList_New", {"Py", "PyList"}, {"_New"}, {"_"}>>,
     <<"PyObject_GetAttr", {"Py", "PyObject", "PyObject_"}, {}, {"_"}>>,
     <<"Py_DECREF", {"Py", "Py_DECREF"}, {"DECREF", "Py_DECREF"}, {"_"}>>,
     <<"Py_INCREF", {"Py", "Py_INCREF"}, {"Py_INCREF"}, {"_"}>>,
     <<"SafeHandle.Release", {"SafeHandle"}, {}, {}>>,
     <<"_RNvC4demo4pack", {"_", "_R"}, {}, {}>>,
     <<"_RNvC4demo8ffi_open", {"_", "_R"}, {}, {"ffi"}>>,
     <<"_ZN10unique_ptrC1Ev", {"_", "_Z", "_ZN"}, {}, {"10unique_ptr", "C1E", "unique_ptr"}>>,
     <<"_ZdlPv", {"_", "_Z"}, {}, {}>>,
     <<"__import_log", {"_", "__import_"}, {}, {}>>,
     <<"__rust_dealloc", {"_", "__rust_"}, {"_dealloc", "alloc"}, {}>>,
     <<"_cgo_free", {"_", "_cgo_"}, {"_free", "free", "go_free"}, {}>>,
     <<"_rnvc4demo4pack", {"_"}, {}, {}>>,
     <<"_rnvc4demo8ffi_open", {"_"}, {}, {"ffi"}>>,
     <<"_zdlpv", {"_"}, {}, {}>>,
     <<"_zn10unique_ptrc1ev", {"_"}, {}, {"10unique_ptr", "unique_ptr"}>>,
     <<"boot", {}, {}, {}>>,
     <<"box_destroy", {}, {"_destroy"}, {"_"}>>,
     <<"c_thunks_free", {"c_", "c_thunks"}, {"_free", "free"}, {"_"}>>,
     <<"copy_name", {"copy"}, {}, {"_"}>>,
     <<"emscripten_val_new", {"emscripten_", "emscripten_val_"}, {"_new"}, {"_"}>>,
     <<"ffi_entry", {"ffi"}, {}, {"_"}>>,
     <<"free", {"free"}, {"free"}, {}>>,
     <<"idle", {}, {}, {}>>,
     <<"java_com_app_run", {"java_"}, {}, {"_"}>>,
     <<"main", {}, {}, {}>>,
     <<"make_buf", {}, {}, {"_"}>>,
     <<"malloc", {"malloc"}, {"alloc", "malloc"}, {}>>,
     <<"marshal.allochglobal", {}, {}, {"alloc"}>>,
     <<"memory.grow", {"memory", "memory.grow"}, {"memory.grow"}, {}>>,
     <<"mmap", {}, {}, {}>>,
     <<"newglobalref", {}, {}, {}>>,
     <<"peek_ptr", {}, {"_ptr"}, {"_"}>>,
     <<"py_decref", {"py_"}, {"_decref"}, {"_"}>>,
     <<"py_incref", {"py_"}, {}, {"_"}>>,
     <<"pyerr_occurred", {}, {}, {"_"}>>,
     <<"pylist_new", {}, {"_new"}, {"_"}>>,
     <<"pyobject_getattr", {}, {}, {"_"}>>,
     <<"realloc", {}, {"alloc"}, {}>>,
     <<"release_buf", {}, {}, {"_"}>>,
     <<"run", {}, {}, {}>>,
     <<"runtime.mallocgc", {"runtime.", "runtime.mallocgc"}, {"runtime.mallocgc"}, {"alloc", "malloc"}>>,
     <<"safehandle.release", {}, {}, {"handle"}>>,
     <<"serve", {}, {}, {}>>,
     <<"shell", {}, {}, {}>>,
     <<"sqlite3_free", {"sqlite", "sqlite3_"}, {"_free", "free"}, {"_"}>>,
     <<"sync.put", {}, {}, {}>>,
     <<"wasm_run", {"wasm", "wasm_"}, {}, {"_"}>>}

MCShape ==
    [n \in {r[1] : r \in NameRows} |->
        LET row == CHOOSE r \in NameRows : r[1] = n
        IN [starts |-> row[2], ends |-> row[3], has |-> row[4]]]

MCLowerCase ==
    ("Java_com_App_run" :> "java_com_app_run" @@
     "Marshal.AllocHGlobal" :> "marshal.allochglobal" @@
     "NewGlobalRef" :> "newglobalref" @@
     "PyErr_Occurred" :> "pyerr_occurred" @@
     "PyList_New" :> "pylist_new" @@
     "PyObject_GetAttr" :> "pyobject_getattr" @@
     "Py_DECREF" :> "py_decref" @@
     "Py_INCREF" :> "py_incref" @@
     "SafeHandle.Release" :> "safehandle.release" @@
     "_RNvC4demo4pack" :> "_rnvc4demo4pack" @@
     "_RNvC4demo8ffi_open" :> "_rnvc4demo8ffi_open" @@
     "_ZN10unique_ptrC1Ev" :> "_zn10unique_ptrc1ev" @@
     "_ZdlPv" :> "_zdlpv")

MCNamespace ==
    ("Marshal.AllocHGlobal" :> "Marshal" @@
     "SafeHandle.Release" :> "SafeHandle" @@
     "_ZN10unique_ptrC1Ev" :> "unique_ptr" @@
     "memory.grow" :> "memory" @@
     "runtime.mallocgc" :> "runtime" @@
     "sync.put" :> "sync")

-----------------------------------------------------------------------------

Call(f, g) == [caller |-> f, callee |-> g, external |-> FALSE]
Outside(f, g) == [caller |-> f, callee |-> g, external |-> TRUE]

\* A module: its calls, the functions with a body by name and what their bodies
\* show, and the functions declared
Module(calls, bodies, patterns, declarations) ==
    [calls |-> calls, bodies |-> bodies, functions |-> {bodies[i] : i \in DOMAIN bodies},
     patterns |-> [n \in {bodies[i] : i \in DOMAIN bodies} |->
                      IF n \in DOMAIN patterns THEN patterns[n] ELSE {}],
     declarations |-> declarations, returns |-> {}, single |-> TRUE, boundaries |-> {},
     confused |-> {}, nullChecked |-> {}]

Plain == [n \in {} |-> {}]

Boundary(from, to, functions, matching) ==
    [from |-> from, to |-> to, functions |-> functions, matching |-> matching]

\* The calls of one function to libc by way of two of its own
Buffers ==
    [Module(<<Outside("make_buf", "malloc"), Call("run", "make_buf"), Call("run", "release_buf"),
              Outside("release_buf", "free")>>,
            <<"make_buf", "release_buf", "run">>,
            "release_buf" :> {"NullGuardedRelease"}, {"malloc", "free"})
        EXCEPT !.returns = {"make_buf"}, !.nullChecked = {"run"}, !.confused = {"run"}]

\* The first ids of all numberings stand for different functions.
Collisions ==
    [Module(<<Outside("peek_ptr", "malloc"), Outside("copy_name", "free"),
              Outside("", "realloc"), Outside("sync.put", "free")>>,
            <<"copy_name", "peek_ptr", "sync.put">>,
            "copy_name" :> {"OwnershipAcquired", "RaiiDrop"} @@ "peek_ptr" :> {"PointerProjection"}
                @@ "sync.put" :> {"ReleaseOnAllExitPaths", "FileOp"}, {"malloc"})
        EXCEPT !.returns = {"peek_ptr"}]

\* A function of libc defined by the module itself, and one of a C library called
OwnFree ==
    Module(<<Call("box_destroy", "free"), Outside("run", "sqlite3_free"), Call("run", "box_destroy")>>,
           <<"box_destroy", "free", "run">>,
           "free" :> {"OwnershipReleased"} @@ "box_destroy" :> {"StoreToOwner"}, {"sqlite3_free"})

\* The callers of a function in Rust that counts references, four calls away
References ==
    [Module(<<Outside("_RNvC4demo4pack", "PyList_New"), Outside("_RNvC4demo4pack", "Py_INCREF"),
              Outside("_RNvC4demo4pack", "PyObject_GetAttr"), Call("serve", "_RNvC4demo4pack"),
              Call("main", "serve"), Call("boot", "main"), Call("shell", "boot"),
              Outside("main", "free"), Outside("boot", "PyErr_Occurred")>>,
            <<"_RNvC4demo4pack", "boot", "main", "serve", "shell">>, Plain, {"free", "malloc"})
        EXCEPT !.single = FALSE]

\* The same with nothing of Python called, and the calls in another order
NoReferences ==
    [Module(<<Call("shell", "boot"), Call("boot", "main"), Call("main", "_RNvC4demo4pack"),
              Outside("_RNvC4demo4pack", "malloc"), Outside("main", "free")>>,
            <<"_RNvC4demo4pack", "boot", "main", "shell">>,
            "boot" :> {"InternalBridge"}, {"free", "malloc"})
        EXCEPT !.single = FALSE, !.nullChecked = {"main"}]

Languages ==
    [Module(<<Outside("run", "runtime.mallocgc"), Outside("run", "_cgo_free"),
              Outside("Java_com_App_run", "NewGlobalRef"), Outside("run", "Marshal.AllocHGlobal"),
              Call("run", "_ZN10unique_ptrC1Ev"), Outside("_ZN10unique_ptrC1Ev", "_ZdlPv"),
              Outside("run", "SafeHandle.Release"), Outside("run", "Py_DECREF"),
              Outside("c_thunks_free", "free")>>,
            <<"Java_com_App_run", "_ZN10unique_ptrC1Ev", "c_thunks_free", "run">>,
            "run" :> {"IntoRawTransfer"}, {"__rust_dealloc", "mmap", "emscripten_val_new"})
        EXCEPT !.single = FALSE]

WebAssembly ==
    Module(<<Outside("wasm_run", "emscripten_val_new"), Outside("wasm_run", "__import_log"),
             Outside("wasm_run", "memory.grow"), Outside("idle", "free")>>,
           <<"idle", "wasm_run">>, Plain, {"free"})

\* Boundaries declared by function, by language, and by pattern
Declared ==
    {[Module(<<Outside("ffi_entry", "malloc"), Call("run", "ffi_entry"), Outside("run", "free"),
               Call("_RNvC4demo8ffi_open", "run")>>,
             <<"_RNvC4demo8ffi_open", "ffi_entry", "run">>,
             "ffi_entry" :> {"EscapeByOutParam"}, {"malloc"})
        EXCEPT !.boundaries = {b}, !.single = FALSE] :
        b \in {Boundary("Rust", "C", {"ffi_entry", "missing"}, {}),
               Boundary("Rust", "Unknown", {}, {}), Boundary("Go", "C", {}, {"free"})}}

MCPrograms ==
    {Buffers, Collisions, OwnFree, References, NoReferences, Languages, WebAssembly} \cup Declared

Issue(kind, symbol, caller) == [kind |-> kind, symbol |-> symbol, caller |-> caller]

MCIssues ==
    {Issue("DoubleFree", "free", "run"), Issue("CrossFamilyFree", "free", "main"),
     Issue("CrossFamilyFree", "free", "sync.put"), Issue("InvalidFree", "free", "boot"),
     Issue("CrossLanguageFree", "free", "box_destroy"), Issue("DoubleFree", "free", "free"),
     Issue("UseAfterFree", "free", "c_thunks_free"), Issue("DoubleFree", "sqlite3_free", "run"),
     Issue("DefiniteLeak", "malloc", "c_thunks_free"), Issue("DefiniteLeak", "malloc", "make_buf"),
     Issue("OwnershipViolation", "PyList_New", "_RNvC4demo4pack"),
     Issue("OwnershipViolation", "Py_DECREF", "run"), Issue("FfiUnsafeCall", "mmap", ""),
     Issue("NullDereference", "malloc", "run"), Issue("UncheckedReturn", "malloc", "main"),
     Issue("BorrowEscape", "run", ""), Issue("DefiniteLeak", "NewGlobalRef", "Java_com_App_run")}

====
