---- MODULE FamilyRegistry ----
\* The table of resource families and of the symbols that acquire, release,
\* retain, escape or reclaim a resource of one: family_registry.rs, and the
\* families themselves in resource_family.rs. Families the configuration
\* declares are not in it: load_from_config has no caller. Then the contracts of
\* known foreign functions and how the two tables answer together.
\* ContractGraphBuilder asks the registry of families first, and for what it does
\* not know the database of contracts: the two ends of one resource may be known
\* from different tables.

Rows(family, effect, language, symbols) ==
    {[symbol |-> s, family |-> family, effect |-> effect, language |-> language] :
        s \in symbols}

LanguageFamilies ==
    {"C_HEAP", "CPP_NEW_SCALAR", "CPP_NEW_ARRAY", "RUST_GLOBAL", "PYTHON_OBJECT",
     "PYTHON_MEM", "PYTHON_MEM_RAW", "JAVA_LOCAL_REF", "JAVA_GLOBAL_REF",
     "CSHARP_HGLOBAL", "CSHARP_COTASK", "GO_GC"}

\* SWIFT_ALLOC has an id and symbols, and is no builtin family.
LibraryFamilies ==
    {"ZLIB_STREAM", "OPENSSL_RESOURCE", "SQLITE_RESOURCE", "GO_CGO", "MIMALLOC",
     "CSHARP_COM", "RUST_RAW_OWNERSHIP", "FILE_DESCRIPTOR", "UNKNOWN",
     "WIN32_HEAP", "WIN32_VIRTUAL"}

BuiltinFamilies == LanguageFamilies \cup LibraryFamilies

\* compatible_releases, where it is not empty
CompatibleReleases ==
    [PYTHON_OBJECT |-> {"PYTHON_OBJECT"}, PYTHON_MEM_RAW |-> {"C_HEAP"},
     GO_CGO |-> {"GO_GC"}, MIMALLOC |-> {"C_HEAP"}, CSHARP_COM |-> {"C_HEAP"},
     RUST_RAW_OWNERSHIP |-> {"RUST_GLOBAL"}]

IsCompatibleRelease(acquired, released) ==
    \/ acquired = released
    \/ acquired \in DOMAIN CompatibleReleases /\ released \in CompatibleReleases[acquired]

CHeapSymbols ==
    Rows("C_HEAP", "Acquire", "C",
      {"malloc", "calloc", "realloc", "valloc", "pvalloc", "memalign",
       "posix_memalign", "aligned_alloc", "reallocarray"}) \cup
    Rows("C_HEAP", "Release", "C",
      {"free"}) \cup
    Rows("C_HEAP", "Retain", "C",
      {"malloc_set_zone_name"})

CppSymbols ==
    Rows("CPP_NEW_SCALAR", "Acquire", "Cpp",
      {"_Znwm", "_Znwj", "operator new", "cpp_new_object"}) \cup
    Rows("CPP_NEW_SCALAR", "Release", "Cpp",
      {"_ZdlPv", "operator delete", "cpp_delete_object"}) \cup
    Rows("CPP_NEW_ARRAY", "Acquire", "Cpp",
      {"_Znam", "_Znaj", "operator new[]"}) \cup
    Rows("CPP_NEW_ARRAY", "Release", "Cpp",
      {"_ZdaPv", "operator delete[]"})

RustSymbols ==
    Rows("RUST_GLOBAL", "Acquire", "Rust",
      {"__rust_alloc", "__rust_alloc_zeroed", "__rust_realloc", "rust_box_new"}) \cup
    Rows("RUST_GLOBAL", "Release", "Rust",
      {"__rust_dealloc", "__rdl_dealloc", "__rg_dealloc"})

RustRawOwnershipSymbols ==
    Rows("RUST_RAW_OWNERSHIP", "Escape", "Rust",
      {"Box::into_raw", "CString::into_raw"}) \cup
    Rows("RUST_RAW_OWNERSHIP", "Reclaim", "Rust",
      {"Box::from_raw", "CString::from_raw", "Vec::from_raw_parts"})

PythonSymbols ==
    Rows("PYTHON_OBJECT", "Acquire", "Python",
      {"PyObject_New", "PyObject_NewVar", "PyType_GenericAlloc",
       "PyBytes_FromStringAndSize", "PyBytes_FromString", "PyUnicode_FromString",
       "PyUnicode_FromStringAndSize", "PyList_New", "PyTuple_New", "PyDict_New",
       "PySet_New", "PyList_GetItemRef"}) \cup
    Rows("PYTHON_OBJECT", "Release", "Python",
      {"PyObject_Del", "PyObject_Free", "PyTuple_SetItem", "PyList_SetItem"}) \cup
    Rows("PYTHON_OBJECT", "ConditionalRelease", "Python",
      {"Py_DECREF", "Py_XDECREF"}) \cup
    Rows("PYTHON_OBJECT", "Retain", "Python",
      {"Py_INCREF", "PyList_GetItem", "PyBytes_AsString", "PyUnicode_AsUTF8"}) \cup
    Rows("PYTHON_MEM", "Acquire", "Python",
      {"PyMem_Malloc", "PyMem_Calloc", "PyMem_Realloc", "ctypes_alloc"}) \cup
    Rows("PYTHON_MEM", "Release", "Python",
      {"PyMem_Free"}) \cup
    Rows("PYTHON_MEM_RAW", "Acquire", "Python",
      {"PyMem_RawMalloc", "PyMem_RawCalloc", "PyMem_RawRealloc"}) \cup
    Rows("PYTHON_MEM_RAW", "Release", "Python",
      {"PyMem_RawFree"})

JniSymbols ==
    Rows("JAVA_LOCAL_REF", "Acquire", "Java",
      {"NewLocalRef", "GetStringUTFChars", "GetStringCritical",
       "GetPrimitiveArrayCritical", "GetByteArrayElements", "jni_alloc"}) \cup
    Rows("JAVA_LOCAL_REF", "Release", "Java",
      {"DeleteLocalRef", "ReleaseStringUTFChars", "ReleaseStringCritical",
       "ReleasePrimitiveArrayCritical", "ReleaseByteArrayElements"}) \cup
    Rows("JAVA_GLOBAL_REF", "Acquire", "Java",
      {"NewGlobalRef", "NewStringUTF", "NewByteArray"}) \cup
    Rows("JAVA_GLOBAL_REF", "Release", "Java",
      {"DeleteGlobalRef"})

CsharpSymbols ==
    Rows("CSHARP_HGLOBAL", "Acquire", "CSharp",
      {"AllocHGlobal", "Marshal_AllocHGlobal", "Marshal.AllocHGlobal"}) \cup
    Rows("CSHARP_HGLOBAL", "Release", "CSharp",
      {"FreeHGlobal", "Marshal_FreeHGlobal", "Marshal.FreeHGlobal"}) \cup
    Rows("CSHARP_COTASK", "Acquire", "CSharp",
      {"CoTaskMemAlloc"}) \cup
    Rows("CSHARP_COTASK", "Release", "CSharp",
      {"CoTaskMemFree"})

GoSymbols ==
    Rows("GO_GC", "Acquire", "Go",
      {"runtime.mallocgc", "runtime.alloc", "go_alloc"}) \cup
    Rows("GO_CGO", "Acquire", "Go",
      {"_cgo_allocate", "_Cfunc_GoMalloc"}) \cup
    Rows("GO_CGO", "Release", "Go",
      {"_cgo_free", "_Cfunc_GoFree"}) \cup
    Rows("GO_GC", "Release", "Go",
      {"go_free"})

ZlibSymbols ==
    Rows("ZLIB_STREAM", "Acquire", "C",
      {"inflateInit_", "inflateInit2_", "deflateInit_", "deflateInit2_"}) \cup
    Rows("ZLIB_STREAM", "Release", "C",
      {"inflateEnd", "deflateEnd"})

OpensslSymbols ==
    Rows("OPENSSL_RESOURCE", "Acquire", "C",
      {"EVP_CIPHER_CTX_new", "BIO_new", "RSA_new", "BN_new"}) \cup
    Rows("OPENSSL_RESOURCE", "Release", "C",
      {"EVP_CIPHER_CTX_free", "BIO_free", "BIO_free_all", "RSA_free", "BN_free",
       "BN_clear_free"})

SqliteSymbols ==
    Rows("SQLITE_RESOURCE", "Acquire", "C",
      {"sqlite3_open", "sqlite3_open_v2", "sqlite3_prepare_v2", "sqlite3_prepare_v3"}) \cup
    Rows("SQLITE_RESOURCE", "Release", "C",
      {"sqlite3_close", "sqlite3_close_v2", "sqlite3_finalize", "sqlite3_free"})

MimallocSymbols ==
    Rows("MIMALLOC", "Acquire", "C",
      {"mi_malloc", "mi_realloc", "mi_calloc", "mi_malloc_aligned"}) \cup
    Rows("MIMALLOC", "Release", "C",
      {"mi_free"}) \cup
    Rows("MIMALLOC", "ConditionalRelease", "C",
      {"mi_heap_destroy"})

SwiftSymbols ==
    Rows("SWIFT_ALLOC", "Acquire", "Unknown",
      {"swift_alloc", "swift_allocObject"}) \cup
    Rows("SWIFT_ALLOC", "Release", "Unknown",
      {"swift_dealloc"})

FileDescriptorSymbols ==
    Rows("FILE_DESCRIPTOR", "Acquire", "C",
      {"open", "openat", "creat", "socket", "accept", "accept4", "dup", "dup2",
       "dup3", "pipe", "pipe2"}) \cup
    Rows("FILE_DESCRIPTOR", "Release", "C",
      {"close"})

Win32HeapSymbols ==
    Rows("WIN32_HEAP", "Acquire", "C",
      {"HeapAlloc", "HeapReAlloc", "LocalAlloc", "LocalReAlloc", "GlobalAlloc",
       "GlobalReAlloc"}) \cup
    Rows("WIN32_HEAP", "Release", "C",
      {"HeapFree", "LocalFree", "GlobalFree"}) \cup
    Rows("WIN32_HEAP", "Retain", "C",
      {"GetProcessHeap"})

Win32VirtualSymbols ==
    Rows("WIN32_VIRTUAL", "Acquire", "C",
      {"VirtualAlloc", "VirtualAllocEx"}) \cup
    Rows("WIN32_VIRTUAL", "Release", "C",
      {"VirtualFree", "VirtualFreeEx"})

BuiltinSymbols ==
    UNION {CHeapSymbols, CppSymbols, RustSymbols, RustRawOwnershipSymbols,
           PythonSymbols, JniSymbols, CsharpSymbols, GoSymbols, ZlibSymbols,
           OpensslSymbols, SqliteSymbols, MimallocSymbols, SwiftSymbols,
           FileDescriptorSymbols, Win32HeapSymbols, Win32VirtualSymbols}

Registered == {r.symbol : r \in BuiltinSymbols}

Entry == [s \in Registered |-> CHOOSE r \in BuiltinSymbols : r.symbol = s]

\* lookup(s) is Some(Entry[s])
IsRegistered(s) == s \in Registered

HasEffect(s, effects) == IsRegistered(s) /\ Entry[s].effect \in effects

-----------------------------------------------------------------------------
\* The contracts of known foreign functions: ffi_contract/. A contract says what
\* a function does with a resource, of which family, who owns the result, and
\* what releases it.

Contracts(type, family, ownership, releases, functions) ==
    {[function |-> f, type |-> type, family |-> family, ownership |-> ownership,
      releases |-> releases] : f \in functions}

OpensslConnections ==
    Contracts("Allocator", "OPENSSL_RESOURCE", "CallerOwns", {"SSL_CTX_free"},
      {"SSL_CTX_new"}) \cup
    Contracts("Deallocator", "OPENSSL_RESOURCE", "CallerOwns", {},
      {"SSL_CTX_free", "SSL_free", "BIO_free", "BIO_free_all"}) \cup
    Contracts("Allocator", "OPENSSL_RESOURCE", "CallerOwns", {"SSL_free"},
      {"SSL_new"}) \cup
    Contracts("Allocator", "OPENSSL_RESOURCE", "CallerOwns", {"BIO_free", "BIO_free_all"},
      {"BIO_new", "BIO_new_connect", "BIO_new_ssl"}) \cup
    Contracts("Allocator", "OPENSSL_RESOURCE", "CallerOwns", {"EVP_CIPHER_CTX_free"},
      {"EVP_CIPHER_CTX_new"})

OpensslKeys ==
    Contracts("Deallocator", "OPENSSL_RESOURCE", "CallerOwns", {},
      {"EVP_CIPHER_CTX_free", "EVP_MD_CTX_free", "RSA_free", "BN_free",
       "BN_clear_free"}) \cup
    Contracts("Allocator", "OPENSSL_RESOURCE", "CallerOwns", {"EVP_MD_CTX_free"},
      {"EVP_MD_CTX_new"}) \cup
    Contracts("Allocator", "OPENSSL_RESOURCE", "CallerOwns", {"RSA_free"},
      {"RSA_new"}) \cup
    Contracts("Allocator", "OPENSSL_RESOURCE", "CallerOwns", {"BN_free", "BN_clear_free"},
      {"BN_new"}) \cup
    Contracts("Borrower", "OPENSSL_RESOURCE", "Borrowed", {},
      {"SSL_get_peer_certificate"})

OpensslMemory ==
    Contracts("Allocator", "OPENSSL_RESOURCE", "CallerOwns", {"OPENSSL_free"},
      {"OPENSSL_malloc", "OPENSSL_strdup"}) \cup
    Contracts("Deallocator", "OPENSSL_RESOURCE", "CallerOwns", {},
      {"OPENSSL_free", "OPENSSL_clear_free", "CRYPTO_secure_free", "X509_free"}) \cup
    Contracts("Allocator", "OPENSSL_RESOURCE", "CallerOwns", {"CRYPTO_secure_free"},
      {"CRYPTO_secure_malloc"})

SqliteHandles ==
    Contracts("Allocator", "SQLITE_RESOURCE", "CallerOwns", {"sqlite3_close", "sqlite3_close_v2"},
      {"sqlite3_open", "sqlite3_open_v2"}) \cup
    Contracts("Deallocator", "SQLITE_RESOURCE", "CallerOwns", {},
      {"sqlite3_close", "sqlite3_close_v2", "sqlite3_finalize", "sqlite3_free"}) \cup
    Contracts("Allocator", "SQLITE_RESOURCE", "CallerOwns", {"sqlite3_finalize"},
      {"sqlite3_prepare_v2", "sqlite3_prepare_v3"}) \cup
    Contracts("Allocator", "SQLITE_RESOURCE", "CallerOwns", {"sqlite3_free"},
      {"sqlite3_malloc"})

SqliteBorrowed ==
    Contracts("Borrower", "SQLITE_RESOURCE", "Borrowed", {},
      {"sqlite3_column_text", "sqlite3_column_blob", "sqlite3_exec"})

PythonObjects ==
    Contracts("Allocator", "PYTHON_OBJECT", "ReferenceCounted", {"Py_DECREF", "Py_XDECREF"},
      {"PyObject_New"}) \cup
    Contracts("Allocator", "PYTHON_OBJECT", "CallerOwns", {"Py_DECREF", "Py_XDECREF"},
      {"PyObject_NewVar", "PyType_GenericAlloc", "PyBytes_FromStringAndSize",
       "PyBytes_FromString", "PyUnicode_FromString", "PyUnicode_FromStringAndSize",
       "PyList_New", "PyTuple_New", "PyDict_New", "PySet_New"})

PythonReferences ==
    Contracts("Releaser", "PYTHON_OBJECT", "ReferenceCounted", {},
      {"Py_DECREF", "Py_XDECREF"}) \cup
    Contracts("Retainer", "PYTHON_OBJECT", "ReferenceCounted", {"Py_DECREF"},
      {"Py_INCREF"}) \cup
    Contracts("Retainer", "PYTHON_OBJECT", "ReferenceCounted", {},
      {"Py_XINCREF"}) \cup
    Contracts("Borrower", "PYTHON_OBJECT", "Borrowed", {},
      {"PyList_GetItem", "PyTuple_GetItem", "PyDict_GetItem"}) \cup
    Contracts("Allocator", "PYTHON_OBJECT", "CallerOwns", {"Py_DECREF", "Py_XDECREF"},
      {"PyList_GetItemRef", "PyDict_GetItemRef"}) \cup
    Contracts("Transfer", "PYTHON_OBJECT", "Transferred", {},
      {"PyTuple_SetItem", "PyList_SetItem"})

PythonOther ==
    Contracts("Deallocator", "PYTHON_OBJECT", "CallerOwns", {},
      {"PyObject_Del", "PyObject_Free", "PyGILState_Release"}) \cup
    Contracts("Allocator", "PYTHON_OBJECT", "ReferenceCounted", {"Py_DECREF"},
      {"Py_BuildValue"}) \cup
    Contracts("Allocator", "PYTHON_OBJECT", "CallerOwns", {"PyGILState_Release"},
      {"PyGILState_Ensure"})

JniReferences ==
    Contracts("Allocator", "JAVA_LOCAL_REF", "CallerOwns", {"DeleteLocalRef"},
      {"NewLocalRef"}) \cup
    Contracts("Deallocator", "JAVA_LOCAL_REF", "CallerOwns", {},
      {"DeleteLocalRef", "ReleaseStringUTFChars", "ReleaseByteArrayElements",
       "ReleasePrimitiveArrayCritical"}) \cup
    Contracts("Allocator", "JAVA_GLOBAL_REF", "CallerOwns", {"DeleteGlobalRef"},
      {"NewGlobalRef"}) \cup
    Contracts("Deallocator", "JAVA_GLOBAL_REF", "CallerOwns", {},
      {"DeleteGlobalRef"}) \cup
    Contracts("Allocator", "JAVA_LOCAL_REF", "CallerOwns", {"ReleaseStringUTFChars"},
      {"GetStringUTFChars"}) \cup
    Contracts("Allocator", "JAVA_LOCAL_REF", "CallerOwns", {"ReleaseByteArrayElements"},
      {"GetByteArrayElements"}) \cup
    Contracts("Allocator", "JAVA_LOCAL_REF", "CallerOwns", {"ReleasePrimitiveArrayCritical"},
      {"GetPrimitiveArrayCritical"})

JniObjects ==
    Contracts("Allocator", "JAVA_LOCAL_REF", "CallerOwns", {"DeleteLocalRef"},
      {"NewStringUTF", "NewByteArray", "FindClass", "NewObject"}) \cup
    Contracts("Borrower", "JAVA_LOCAL_REF", "Borrowed", {},
      {"GetObjectArrayElement"})

PosixHeap ==
    Contracts("Allocator", "C_HEAP", "CallerOwns", {"free"},
      {"malloc", "calloc", "realloc", "strdup", "strndup", "aligned_alloc"}) \cup
    Contracts("Deallocator", "C_HEAP", "CallerOwns", {},
      {"free"})

PosixFiles ==
    Contracts("Allocator", "FILE_DESCRIPTOR", "CallerOwns", {"close"},
      {"open", "openat", "creat", "dup", "dup2"}) \cup
    Contracts("Deallocator", "FILE_DESCRIPTOR", "CallerOwns", {},
      {"close", "fclose"}) \cup
    Contracts("Allocator", "FILE_DESCRIPTOR", "CallerOwns", {"fclose"},
      {"fdopen", "fopen"})

PosixSockets ==
    Contracts("Allocator", "FILE_DESCRIPTOR", "CallerOwns", {"close"},
      {"socket", "accept", "accept4", "pipe", "pipe2"}) \cup
    Contracts("Allocator", "C_HEAP", "CallerOwns", {"munmap"},
      {"mmap"}) \cup
    Contracts("Deallocator", "C_HEAP", "CallerOwns", {},
      {"munmap"}) \cup
    Contracts("Allocator", "C_HEAP", "CallerOwns", {},
      {"fork"})

PosixOther ==
    Contracts("Allocator", "FILE_DESCRIPTOR", "CallerOwns", {"closedir"},
      {"opendir"}) \cup
    Contracts("Deallocator", "FILE_DESCRIPTOR", "CallerOwns", {},
      {"closedir"}) \cup
    Contracts("Allocator", "C_HEAP", "CallerOwns", {"pthread_key_delete"},
      {"pthread_key_create"}) \cup
    Contracts("Deallocator", "C_HEAP", "CallerOwns", {},
      {"pthread_key_delete"})

GlibContracts ==
    Contracts("Allocator", "C_HEAP", "CallerOwns", {"g_free"},
      {"g_malloc", "g_malloc0", "g_realloc", "g_strdup", "g_new", "g_strndup"}) \cup
    Contracts("Deallocator", "C_HEAP", "CallerOwns", {},
      {"g_free"}) \cup
    Contracts("Retainer", "C_HEAP", "ReferenceCounted", {"g_object_unref"},
      {"g_object_ref"}) \cup
    Contracts("Releaser", "C_HEAP", "ReferenceCounted", {},
      {"g_object_unref"}) \cup
    Contracts("Borrower", "C_HEAP", "Borrowed", {},
      {"g_object_get_data"})

ZlibContracts ==
    Contracts("Allocator", "ZLIB_STREAM", "CallerOwns", {"inflateEnd"},
      {"inflateInit_", "inflateInit2_"}) \cup
    Contracts("Deallocator", "ZLIB_STREAM", "CallerOwns", {},
      {"inflateEnd", "deflateEnd"}) \cup
    Contracts("Allocator", "ZLIB_STREAM", "CallerOwns", {"deflateEnd"},
      {"deflateInit_", "deflateInit2_"})

LibuvContracts ==
    Contracts("Allocator", "C_HEAP", "CallerOwns", {"uv_loop_close"},
      {"uv_loop_init"}) \cup
    Contracts("Deallocator", "C_HEAP", "CallerOwns", {},
      {"uv_loop_close", "uv_close"}) \cup
    Contracts("Allocator", "C_HEAP", "CallerOwns", {"uv_close"},
      {"uv_handle_init", "uv_timer_init", "uv_tcp_init"}) \cup
    Contracts("Allocator", "C_HEAP", "CallerOwns", {},
      {"uv_req_init"}) \cup
    Contracts("Borrower", "C_HEAP", "Borrowed", {},
      {"uv_default_loop"})

BuiltinContracts ==
    UNION {OpensslConnections, OpensslKeys, OpensslMemory, SqliteHandles,
           SqliteBorrowed, PythonObjects, PythonReferences, PythonOther,
           JniReferences, JniObjects, PosixHeap, PosixFiles, PosixSockets,
           PosixOther, GlibContracts, ZlibContracts, LibuvContracts}

Contracted == {c.function : c \in BuiltinContracts}

Contract == [f \in Contracted |-> CHOOSE c \in BuiltinContracts : c.function = f]

-----------------------------------------------------------------------------


IsContracted(f, types) == ~IsRegistered(f) /\ f \in Contracted /\ Contract[f].type \in types

\* What the builder takes for an acquisition, and for a release
SeenAcquiring(f) ==
    HasEffect(f, {"Acquire", "Reclaim"}) \/ IsContracted(f, {"Allocator"})
SeenReleasing(f) ==
    HasEffect(f, {"Release", "ConditionalRelease"})
        \/ IsContracted(f, {"Deallocator", "Releaser"})

SeenFamily(f) == IF IsRegistered(f) THEN Entry[f].family ELSE Contract[f].family

\* What the contract of an allocator names as its release is seen as a release,
\* of a family that may release what is allocated, whichever table knows it; and
\* no contract calls an acquisition what the registry calls a release. Otherwise
\* a resource released as its contract says is reported as leaked, or as released
\* by the wrong family (contract_graph_builder.rs 700-770).
ASSUME ContractsPaired ==
    \A f \in Contracted :
        /\ Contract[f].type = "Allocator" => ~SeenReleasing(f)
        /\ Contract[f].type \in {"Deallocator", "Releaser"} => ~SeenAcquiring(f)
        /\ IsContracted(f, {"Allocator"}) =>
            \A r \in Contract[f].releases :
                SeenReleasing(r) /\ IsCompatibleRelease(Contract[f].family, SeenFamily(r))

====
