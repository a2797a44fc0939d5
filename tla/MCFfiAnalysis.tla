---------------------------- MODULE MCFfiAnalysis ----------------------------
(***************************************************************************)
(* Small sources: one call across the boundary in many surroundings, one   *)
(* call to a function with many bodies, call graphs with cycles, and a     *)
(* text cut short anywhere.                                                *)
(***************************************************************************)
EXTENDS ModuleChecks

T(lang, tags, effect, family, named, runtimeOf) ==
  [lang |-> lang, tags |-> tags, effect |-> effect, family |-> family,
   named |-> named, runtimeOf |-> runtimeOf]

Plain(lang, tags) == T(lang, tags, "none", None, "Unknown", {})

Traits ==
  [indirect |-> Plain("Unknown", {}), fp |-> Plain("Unknown", {"register"}),
   memset |-> Plain("Unknown", {"libc"}), abort |-> Plain("Unknown", {"libc"}),
   main |-> Plain("Unknown", {}), helper |-> Plain("Unknown", {}),
   mid |-> Plain("Unknown", {}), leaf |-> Plain("Unknown", {}),
   my_alloc |-> Plain("Unknown", {"allocator"}),
   lib_call |-> Plain("Unknown", {}), obj_destroy |-> Plain("Unknown", {"releasing"}),
   register_handler |-> Plain("Unknown", {"callback"}),
   system |-> Plain("Unknown", {"dangerous"}),
   strlen |-> T("Unknown", {"libc"}, "none", None, "SafeNoOwnership", {}),
   close |-> T("Unknown", {"libc", "descriptor"}, "Release", "FILE_DESCRIPTOR", "SafeNoOwnership", {}),
   malloc |-> T("Unknown", {"libc", "memory"}, "Acquire", "C_HEAP", "Unknown", {}),
   free |-> T("Unknown", {"libc", "memory", "release", "releasing"}, "Release", "C_HEAP", "Unknown", {}),
   sqlite3_finalize |-> T("Unknown", {"library"}, "Release", "SQLITE", "Unknown", {}),
   WTF_ref |-> T("Unknown", {"project"}, "none", None, "SafeInternalBridge", {}),
   R_entry |-> Plain("Rust", {"rust"}), rust_box_new |-> T("Rust", {}, "Acquire", "RUST", "Unknown", {}),
   rust_dealloc |-> T("Rust", {"memory", "release"}, "Release", "RUST", "SafeConditionalRelease", {"Rust"}),
   R_drop_glue |-> Plain("Rust", {"rust", "glue"}),
   Z_get |-> Plain("Cpp", {"_Z"}), Z_swap |-> Plain("Cpp", {"_Z"}), Z_leak |-> Plain("Cpp", {"_Z"}),
   Z_delete |-> T("Cpp", {"_Z", "memory", "release"}, "Release", "CPP", "ConcernOwnershipTransfer", {}),
   PyObject_Free |-> T("Python", {"py"}, "Release", "PYTHON", "Unknown", {}),
   Py_INCREF |-> T("Python", {"py"}, "Retain", "PYTHON", "Unknown", {}),
   FreeHGlobal |-> T("CSharp", {"marshal"}, "Release", "HGLOBAL", "Unknown", {}),
   memcpy |-> Plain("Unknown", {"intrinsic"})] @@ (TopLevel :> Plain("Unknown", {}))

MCSymbol == DOMAIN Traits

(* What more is said of a name. *)
Unspelled == {"indirect", TopLevel, "fp", "memcpy", "R_entry", "R_drop_glue"}

Told ==
  [cname |-> MCSymbol \ Unspelled, dotted |-> {"memcpy"}, nonnull |-> {"rust_dealloc"},
   sysalloc |-> {"malloc"}, null_sink |-> {"strlen", "free"}, memory_op |-> {"memset"},
   noreturn |-> {"abort"}, internal |-> {"leaf", "rust_dealloc", "R_drop_glue", "memcpy"}, runtime_caller |-> {"my_alloc"},
   interior |-> {"rust_box_new"},
   exported |-> {"register_handler"}, ffi_like |-> {"leaf", "my_alloc", "rust_box_new"},
   projection |-> {"rust_box_new"}, argument |-> {"my_alloc"}, cpp_internal |-> {"Z_get", "Z_swap"}, mut |-> {"R_drop_glue"}]

MCTrait ==
  [s \in MCSymbol |-> [Traits[s] EXCEPT !.tags = @ \cup {t \in DOMAIN Told : s \in Told[t]}]]

(* Of the mangled names the fragments: a method swap, which the whitelist   *)
(* takes for that of std::mem, and a function it lists, Box::leak.          *)
MCSpelling ==
  [s \in MCSymbol |->
     CASE s = "Z_get"  -> <<"_ZN", "5store", "7get_all", "Ev">>
       [] s = "Z_swap" -> <<"_ZN", "5store", "4swap", "Ev">>
       [] s = "Z_leak" -> <<"_ZN", "3box", "3Box", "6leak">>
       [] OTHER        -> <<s>>]

MCGlobals  == {"g"}
MCLiterals == {"null", "0", "1", "8"}
MCPointerTypes  == {"ptr", "i8*"}
MCArgumentNames == {"arg"}

-----------------------------------------------------------------------------
Fun(op, name, ptr) == [op |-> op, name |-> name, ret |-> ptr, params |-> FALSE]
Declare(name) == [Fun("declare", name, name = "malloc") EXCEPT !.params = TRUE]
Define(name)  == Fun("define", name, FALSE)
End == [op |-> "end"]

I(op, callee, dest, ops, pred) ==
  [op |-> op, callee |-> callee, dest |-> dest, ops |-> ops, pred |-> pred, type |-> None]

Call(f)        == I("call", f, None, <<"p">>, None)
CallTo(d, f)   == I("call", f, d, <<>>, None)
Op(op)         == I(op, None, None, <<>>, None)
Store(v, slot) == I("store", None, None, <<v, slot>>, None)
IsNull         == I("icmp", None, "c", <<"p", "null">>, "eq")
OnTest         == I("br", None, None, <<"c">>, None)
Guard          == <<IsNull, OnTest>>

Body(name, insts) == <<Define(name)>> \o insts \o <<Op("ret"), End>>

(* The surroundings of a call to f. *)
Around(f) ==
  {<<Call(f)>>,
   <<I("alloca", None, "a", <<>>, None), CallTo("r", f), Store("r", "a")>>,
   <<CallTo("r", f), Store("r", "g")>>,
   Guard \o <<Call(f)>>,
   Guard \o <<Call("free"), Call(f)>>,
   <<CallTo("p", "malloc"), Call(f)>>,
   <<I("atomicrmw", None, "o", <<"p", "1">>, "sub"), I("icmp", None, "c", <<"o", "1">>, "eq"),
     Op("br"), Call(f)>>,
   <<Op("load"), Call("mid"), Call("mid"), CallTo("r", f)>>,
   <<I("invoke", f, None, <<>>, None)>>, <<Call(f), Call("Z_get")>>,
   <<I("icall", "fp", None, <<"p">>, None), Call(f), Call("memcpy"), Call(f)>>}

(* What a function called across the boundary may do. *)
Inside ==
  {<<Call("free")>>, Guard \o <<Call("free")>>, <<Op("gep")>>, <<Op("gep"), Store("x", "f"), Store("y", "g")>>,
   <<Op("binop")>>, <<Call("WTF_ref")>>, <<CallTo("r", "WTF_ref"), Store("r", "g")>>,
   <<Store("null", "s"), I("call", "mid", None, <<"s">>, None), IsNull, Op("br"), Store("null", "s")>>,
   <<Call("free"), Store("null", "s")>>, <<>>}

Called == MCSymbol \ {"indirect", "fp", TopLevel, "main", "mid", "R_entry", "my_alloc"}
Callers == {"main", "R_entry", "rust_box_new", "my_alloc"}

AllReaders == {"text", "model", "llvm"}

(* Only the walk over LLVM's module can tell what is declared before. *)
Crossings ==
  UNION {{[lines |-> IF first THEN <<Declare(f)>> \o Body(c, b) ELSE Body(c, b) \o <<Declare(f)>>,
           readers |-> IF first THEN {"llvm"} ELSE AllReaders] : first \in BOOLEAN, c \in Callers \ {f}, b \in Around(f)} : f \in Called}

Bodies ==
  {[lines |-> Body("main", <<Call(g)>>) \o Body(g, b), readers |-> AllReaders] :
     g \in {"Z_get", "Z_swap", "helper", "R_entry"}, b \in Inside}
    \cup {[lines |-> Body(f, <<Call(g)>>) \o Body(g, b), readers |-> AllReaders] :
             f \in {"main", "my_alloc", "leaf"}, g \in {"R_drop_glue", "Z_delete"}, b \in Inside}

(* Four functions that call each other and the world outside. *)
Graph(m, h, i, l) ==
  LET calls(fs) == [k \in DOMAIN fs |-> Call(fs[k])]
  IN Body("main", calls(m)) \o Body("helper", calls(h)) \o Body("mid", calls(i)) \o Body("leaf", calls(l))
       \o <<Declare("Z_delete"), Declare("malloc"), Declare("free")>>

CallGraphs ==
  {[lines |-> Graph(m, h, i, l), readers |-> {"text", "model"}] :
     m \in {<<"helper">>, <<"helper", "Z_delete">>, <<"malloc", "helper", "free">>},
     h \in {<<"mid">>, <<"mid", "free">>, <<"leaf", "main">>},
     i \in {<<"leaf">>, <<"leaf", "main">>, <<"Z_delete">>},
     l \in {<<>>, <<"free">>, <<"Z_get", "malloc">>, <<"helper", "malloc", "free">>}}

(* A text that stops, loses the end of a function or calls outside of any. *)
Whole == Body("main", <<Call("free"), Call("Z_get")>>) \o Body("helper", <<Op("load"), Call("malloc")>>)
           \o <<Declare("free")>> \o Body("leaf", <<Call("system")>>)

Broken ==
  {[lines |-> SubSeq(Whole, 1, n), readers |-> {"text"}] : n \in 0 .. Len(Whole)}
    \cup {[lines |-> RemoveAt(Whole, n), readers |-> {"text"}] : n \in {k \in DOMAIN Whole : Whole[k].op = "end"}}
    \cup {[lines |-> InsertAt(Whole, n, Call("Z_delete")), readers |-> {"text"}] : n \in DOMAIN Whole}

(* What is done with a pointer that another language gave, in any order. *)
Given(d, type) == [CallTo(d, "Z_get") EXCEPT !.type = type]

Uses ==
  {I("icmp", None, "c", <<"r", "null">>, "eq"), I("icmp", None, None, <<"r", "null">>, "ne"),
   OnTest, I("br", None, None, <<"other">>, None), I("load", None, None, <<"r">>, None),
   I("call", "strlen", None, <<"r">>, None), Store("r", "g"), Call("abort")}

Orders ==
  {s \in UNION {[1 .. n -> Uses] : n \in 0 .. 3} :
     \A i, j \in DOMAIN s : i # j /\ s[i] = s[j] => s[i].dest = None}

Returned ==
  {[lines |-> Body("main", <<Given("r", type)>> \o s), readers |-> AllReaders] :
     type \in {"ptr", "noundef"}, s \in Orders}
    \cup {[lines |-> Body("main", <<Given("r", t), Given("s", "ptr"), I("icmp", None, "c", <<"s", "null">>, "eq"),
                                    I("load", None, None, <<"r">>, None), OnTest, I("gep", None, None, <<"s">>, None)>>),
            readers |-> AllReaders] : t \in {"ptr", "other"}}

(* Conversions near and far from a call, and pointers that leave. *)
Conv(op, from, to) == [I("conv", None, "v", <<"p">>, op) EXCEPT !.type = <<from, to>>]
Far(n) == [i \in 1 .. n |-> Op("load")]

Conversions ==
  {Conv("sext", "i32", "i64"), Conv("trunc", "i64", "i32"), Conv("trunc", "i16", "i8"),
   Conv("inttoptr", "i32", "ptr"), Conv("fptosi", "double", "i32"), Conv("bitcast", "ptr", "i8*")}

Converting ==
  {[lines |-> Body("main", <<c>> \o Far(n) \o calls), readers |-> AllReaders] :
     c \in Conversions, n \in {0, 4, 5}, calls \in {<<>>, <<Call("Z_get")>>}}

Slot == I("alloca", None, "a", <<>>, None)

Escaping ==
  {<<Slot, Store("a", "g")>>, <<Slot, I("gep", None, "b", <<"a">>, None), Store("b", "g")>>,
   <<Store("p", "g")>>, <<Store("arg", "x")>>, <<I("gep", None, "b", <<"p">>, None), I("ret", None, None, <<"b">>, None)>>,
   <<Call("free"), I("icall", "fp", None, <<"p">>, None)>>,
   <<I("binop", None, "n", <<"len", "8">>, "add"), I("call", "memset", None, <<"p", "n">>, None)>>,
   <<Call("memcpy"), I("binop", None, "n", <<"len", "8">>, "add"), I("call", "memset", None, <<"p", "n">>, None)>>}

Leaving ==
  {[lines |-> Body(f, b), readers |-> AllReaders] :
     f \in {"main", "leaf", "my_alloc", "rust_box_new", "Z_get", "R_entry", "R_drop_glue"}, b \in Escaping}

(* Structs of up to five fields in any order, of fewer types the longer    *)
(* they are; those of three at most with a function that is exported after *)
(* them, or not.                                                           *)
Field(base, shape, times) == [base |-> base, shape |-> shape, times |-> times]

FieldTypes ==
  {Field(b, "scalar", 1) : b \in {"i8", "i32", "ptr", "double"}}
    \cup {Field("i16", "array", 3), Field("nested", "scalar", 1), Field("i32", "vector", 3)}

FieldLists ==
  {<<>>, <<Field("i8", "scalar", 1), Field("half", "vector", 4)>>,
   <<Field("i8", "scalar", 1), Field("i64", "scalar", 1), Field("half", "vector", 4)>>}
    \cup UNION {[1 .. n -> FieldTypes] : n \in 1 .. 3}

Scalars(bases) == {Field(b, "scalar", 1) : b \in bases}

LongFieldLists ==
  [1 .. 4 -> Scalars({"i8", "i32", "double", "nested"}) \cup {Field("i16", "array", 3)}]
    \cup [1 .. 5 -> Scalars({"i8", "i32", "double"})]
    \cup [1 .. 5 -> Scalars({"i8", "nested", "double"})]

Struct(name, packed, fields) == [op |-> "type", name |-> name, packed |-> packed, fields |-> fields]

Structs ==
  {[lines |-> <<Struct("T", FALSE, fs)>> \o Body(f, <<>>), readers |-> {"text"}] :
     fs \in FieldLists, f \in {"main", "register_handler"}}
    \cup {[lines |-> <<Struct("T", FALSE, fs)>>, readers |-> {"text"}] : fs \in LongFieldLists}
    \cup {[lines |-> <<Struct("T", p, <<Field("i8", "scalar", 1), Field("i64", "scalar", 1)>>),
                       Struct("T", q, <<Field("i64", "scalar", 1), Field("i8", "scalar", 1)>>),
                       Struct("U", FALSE, <<Field("i1", "scalar", 1)>>)>> \o Body("register_handler", <<>>),
            readers |-> AllReaders] : p, q \in BOOLEAN}

MCSources == Crossings \cup Bodies \cup CallGraphs \cup Broken \cup Returned \cup Converting \cup Leaving \cup Structs
=============================================================================
