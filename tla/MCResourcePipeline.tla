------------------------- MODULE MCResourcePipeline -------------------------
(***************************************************************************)
(* Modules of one or two functions with up to four calls.  The symbols are *)
(* some of each kind the tables know: two heaps and their deallocators,    *)
(* mimalloc (which free may release), a Python object, into_raw and        *)
(* from_raw, symbols of the FFI database, functions with a summary.        *)
(***************************************************************************)
EXTENDS ResourcePipeline

MCFamily == {"C_HEAP", "CPP_NEW_SCALAR", "CPP_NEW_ARRAY", "MIMALLOC", "PYTHON_OBJECT",
             "RUST_RAW_OWNERSHIP", "RUST_GLOBAL", "UNKNOWN"}
MCCompatiblePair == {<<"MIMALLOC", "C_HEAP">>, <<"RUST_RAW_OWNERSHIP", "RUST_GLOBAL">>}
MCLanguage == [C_HEAP |-> "c", CPP_NEW_SCALAR |-> "c", CPP_NEW_ARRAY |-> "c", MIMALLOC |-> "c",
               PYTHON_OBJECT |-> "python", RUST_RAW_OWNERSHIP |-> "rust", RUST_GLOBAL |-> "rust"]

Entry2(e, f) == [effect |-> e, family |-> f]

MCRegistry ==
  [malloc |-> Entry2("Acquire", "C_HEAP"), free |-> Entry2("Release", "C_HEAP"),
   _Znam |-> Entry2("Acquire", "CPP_NEW_ARRAY"),
   _Znwm |-> Entry2("Acquire", "CPP_NEW_SCALAR"), _ZdlPv |-> Entry2("Release", "CPP_NEW_SCALAR"),
   mi_malloc |-> Entry2("Acquire", "MIMALLOC"),
   malloc_create_zone |-> Entry2("Acquire", "C_HEAP"),
   PyObject_New |-> Entry2("Acquire", "PYTHON_OBJECT"),
   Py_DECREF |-> Entry2("ConditionalRelease", "PYTHON_OBJECT"),
   obtain |-> Entry2("Acquire", "UNKNOWN"),
   into_raw |-> Entry2("Escape", "RUST_RAW_OWNERSHIP"),
   from_raw |-> Entry2("Reclaim", "RUST_RAW_OWNERSHIP")]

MCFfiDb ==
  [ffi_alloc |-> Entry2("Allocator", "C_HEAP"), ffi_give |-> Entry2("Transfer", "C_HEAP"),
   ffi_look |-> Entry2("Borrower", NoFamily)]

MCSummary ==
  [make_buffer |-> <<Entry2("Acquire", "C_HEAP"), Entry2("ReturnsOwned", "C_HEAP")>>,
   open_handle |-> <<Entry2("OutParamOwnedOnSuccess", "C_HEAP"), Entry2("OutParamNullOnError", "C_HEAP"),
                     Entry2("EscapesToCallback", "C_HEAP")>>,
   keep_ref |-> <<Entry2("OwnershipEscape", "RUST_RAW_OWNERSHIP"), Entry2("Release", "C_HEAP")>>,
   drop_ref |-> <<Entry2("NullGuardedRelease", "C_HEAP"), Entry2("NullStoreAfterRelease", "C_HEAP")>>,
   take_ref |-> <<Entry2("OwnershipReclaim", "RUST_RAW_OWNERSHIP")>>]

-----------------------------------------------------------------------------
Call(f, callee, arg) == [caller |-> f, callee |-> callee, arg |-> arg]

Defining == {"malloc", "_Znwm", "gep"}
Taking == {"free", "_ZdlPv", "gep", "use", "indirect"}

(* The registers a call may be given: of earlier calls, or a parameter.    *)
ArgsFor(w, i) ==
  IF w[i] \in Taking THEN {0} \cup {j \in 1 .. i - 1 : w[j] \in Defining} ELSE {0}

Bodies(f, w) ==
  {[i \in DOMAIN w |-> Call(f, w[i], args[i])] :
     args \in {a \in [DOMAIN w -> 0 .. Len(w)] : \A i \in DOMAIN w : a[i] \in ArgsFor(w, i)}}

Words(symbols, lengths) == UNION {[1 .. n -> symbols] : n \in lengths}

Frees == {w \in Words({"malloc", "free", "_Znwm", "_ZdlPv"}, 1 .. 4) : w[1] \in {"malloc", "free"}}

Uses == {w \in Words({"malloc", "free", "gep", "use", "indirect"}, 4 .. 4) :
           /\ w[1] = "malloc" /\ "free" \in {w[2], w[3]}
           /\ w[4] \in {"use", "indirect", "free"} /\ w[2] # "use"}

Mixed == Words({"malloc", "mi_malloc", "free", "malloc_create_zone", "PyObject_New", "Py_DECREF",
                "obtain", "into_raw", "from_raw"}, 2 .. 3)
         \cup Words({"malloc", "PyObject_New", "Py_DECREF", "into_raw", "from_raw"}, 4 .. 4)

Foreign == Words({"malloc", "from_raw", "free", "into_raw", "set_callback", "ffi_alloc", "ffi_give",
                  "make_buffer", "open_handle", "keep_ref", "take_ref", "drop_ref"}, 2 .. 2)
           \cup {<<"PyObject_New", "set_callback">>, <<"ffi_look", "PyObject_New", "set_callback">>}

OneFunction == UNION {Bodies("f", w) : w \in Frees \cup Uses \cup Mixed \cup Foreign}

(* f may call g, which releases more than it acquires.                     *)
TwoFunctions ==
  {b \o c : b \in UNION {Bodies("f", w) : w \in Words({"malloc", "_Znwm", "free", "g"}, 1 .. 2)},
            c \in UNION {Bodies("g", w) : w \in Words({"malloc", "free", "_ZdlPv"}, 1 .. 2)}}

(* Functions that leak detection treats in a way of their own.             *)
Special ==
  UNION {UNION {Bodies(f, w) : w \in Words({"malloc", "free", "_Znam"}, 1 .. 3)} :
           f \in {"fatal", "checked", "factory", "closer", "opener", "std"}}

MCModules ==
  {[calls |-> c, declared |-> {}] : c \in OneFunction \cup TwoFunctions \cup Special}
  \cup {[calls |-> c, declared |-> {"free", "malloc", "printf"}] :
          c \in UNION {Bodies("f", w) : w \in Words({"malloc", "free"}, 1 .. 2)}}

MCSummaryOf ==
  [closer |-> <<Entry2("Release", "C_HEAP")>>, opener |-> <<Entry2("OutParamOwnedOnSuccess", "C_HEAP")>>]

MCId == 0 .. 12
=============================================================================
