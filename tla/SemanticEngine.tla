--------------------------- MODULE SemanticEngine ---------------------------
(***************************************************************************)
(* What a call may do to ownership: extract_behavior, what the             *)
(* instructions of a body show; the whitelist of Rust functions; and       *)
(* assess_ffi_safety, which asks them in turn.  The patterns of bodies look*)
(* at the whole body, in the order of its text, not at the paths through   *)
(* it.  An operand is a register unless it is a global or a literal.       *)
(***************************************************************************)
EXTENDS IrReaders, FiniteSetsExt

CONSTANTS Globals,   \* operands that begin with @
          Literals   \* numbers and null

Insts(body) == {body[i] : i \in DOMAIN body}
OfKind(body, kinds) == {x \in Insts(body) : x.kind \in kinds}
Count(body, kinds)  == Cardinality({i \in DOMAIN body : body[i].kind \in kinds})

Has(body, kind) == OfKind(body, {kind}) # {}
Calls(body)     == OfKind(body, {"call", "icall"})

Operands(x) == {x.ops[i] : i \in DOMAIN x.ops}
Words(x)    == ({x.text[i] : i \in DOMAIN x.text} \cup {x.dest, x.callee}) \ {None}
FirstOperand(x) == IF x.ops = <<>> THEN None ELSE x.ops[1]
SecondOperand(x)  == IF Len(x.ops) < 2 THEN None ELSE x.ops[2]

(* The literals that are compared and stored for a null pointer. *)
Nulls == {"null", "0", "zeroinitializer"}
StoresNull(x) == x.kind = "store" /\ FirstOperand(x) \in {"null", "0"}

(* A reference count goes down, and its old value is compared. *)
ConditionalRelease(body) ==
  \E a \in OfKind(body, {"atomicrmw"}), c \in OfKind(body, {"icmp"}) :
    /\ a.pred = "sub" /\ c.pred = "eq"
    /\ a.dest # None /\ a.dest \in Operands(c)

(* A pointer is compared with null, and a release names it. *)
NullGuardedRelease(body) ==
  \E c \in OfKind(body, {"icmp"}), x \in OfKind(body, {"call"}) :
    /\ c.pred = "eq" /\ Operands(c) \cap Nulls # {}
    /\ FirstOperand(c) \notin Nulls \cup {None}
    /\ Is(x.callee, "release") /\ FirstOperand(c) \in Words(x)

(* A null is stored after a release, before a call, a branch or a return. *)
NullStoreAfterRelease(body) ==
  \E i, j \in DOMAIN body :
    /\ i < j /\ body[i].kind = "call" /\ Is(body[i].callee, "release")
    /\ StoresNull(body[j])
    /\ \A k \in (i + 1) .. (j - 1) : body[k].kind \notin {"call", "br", "ret"}

(* A slot is set to null, passed to a call, and set to null after it.      *)
FallibleOutParamInit(body) ==
  LET slots(x) == SelectSeq(body, LAMBDA y : StoresNull(y) /\ SecondOperand(y) \in Words(x)) IN
  /\ Count(body, {"store"}) >= 2
  /\ \E i, j \in DOMAIN body :
       /\ body[i].kind = "call" /\ slots(body[i]) # <<>> /\ i < j
       /\ \E k \in (i + 1) .. Len(body) : body[k].kind = "icmp"
       /\ StoresNull(body[j])
       /\ SecondOperand(body[j]) = SecondOperand(slots(body[i])[1])

(* After a comparison and its branch, before a return or another one: a    *)
(* null is stored, or what a call or an alloca gave.                       *)
AfterBranch(body, stores) ==
  \E i, j \in DOMAIN body :
    /\ body[i].kind = "icmp"
    /\ \E k \in (i + 1) .. (i + 3) : k <= Len(body) /\ body[k].kind = "br"
    /\ i + 2 <= j /\ body[j] \in stores
    /\ \A k \in (i + 2) .. (j - 1) : body[k].kind \notin {"ret", "icmp"}

OutParamNull(body) == AfterBranch(body, {x \in Insts(body) : StoresNull(x)})

OutParamOwned(body) ==
  LET made == {y.dest : y \in OfKind(body, {"call", "alloca"})} \ {None}
  IN AfterBranch(body, {x \in OfKind(body, {"store"}) : FirstOperand(x) \in made})

(* Some call, whatever is done with its result, manages memory. *)
CallsMemoryManagement(body) == \E x \in Calls(body) : Is(x.callee, "memory")

OwnershipTransfer(body) == ~NullGuardedRelease(body) /\ CallsMemoryManagement(body)

(* No call manages memory, and none's result is stored outside of the      *)
(* frame; without a call, there is arithmetic and no store.                *)
StoredOutside(body) ==
  LET results == {x.dest : x \in Calls(body)} \ {None}
      frame == {x.dest : x \in OfKind(body, {"alloca"})} \ {None}
  IN \E x \in OfKind(body, {"store"}) :
       Operands(x) \cap results # {} /\ SecondOperand(x) \notin frame

PureComputation(body) ==
  /\ ~OwnershipTransfer(body) /\ ~ConditionalRelease(body)
  /\ IF Calls(body) = {}
       THEN Has(body, "binop") /\ ~Has(body, "store") /\ ~Has(body, "atomicrmw")
       ELSE ~CallsMemoryManagement(body) /\ ~StoredOutside(body)

(* What is found before pointer_projection and initialization are tried. *)
AnyPattern(body) ==
  \/ ConditionalRelease(body) \/ NullGuardedRelease(body) \/ NullStoreAfterRelease(body)
  \/ FallibleOutParamInit(body) \/ OutParamNull(body) \/ OutParamOwned(body)
  \/ OwnershipTransfer(body) \/ PureComputation(body)

(* Four instructions in five, and nothing written or called. *)
PointerProjection(body) ==
  /\ ~AnyPattern(body) /\ Has(body, "gep")
  /\ ~Has(body, "store") /\ ~Has(body, "call") /\ ~Has(body, "atomicrmw")
  /\ Count(body, {"gep", "conv", "ret", "phi", "load"}) * 10 >= Len(body) * 8

(* Two fields are written and nothing is returned.  The first return of    *)
(* the body decides.                                                       *)
Initialization(body) ==
  LET returns == {i \in DOMAIN body : body[i].kind = "ret"} IN
  /\ ~AnyPattern(body)      \* nor PointerProjection, which writes nothing
  /\ Count(body, {"store"}) >= 2
  /\ returns # {} => body[Min(returns)].ops = <<>>
  /\ ~CallsMemoryManagement(body)

InternalBridge(body) == Calls(body) # {} /\ \A x \in Calls(body) : Is(x.callee, "project")

-----------------------------------------------------------------------------
(***************************************************************************)
(* Where a pointer of the body goes.                                       *)
(***************************************************************************)
IsRegister(o) == o \notin Globals \cup Literals \cup {None}

Defined(body) == {x.dest : x \in Insts(body)} \ {None}

(* Registers that some instruction uses and none defines. *)
Parameters(body) ==
  {o \in UNION {Operands(x) : x \in Insts(body)} : IsRegister(o)} \ Defined(body)

(* What comes, over any number of instructions, from a register of a set.  *)
Derived(body, from) ==
  FoldLeft(LAMBDA known, i :
             known \cup ({x.dest : x \in {y \in Insts(body) : Operands(y) \cap known # {}}} \ {None}),
           from, body)

OfFrame(body) == Derived(body, {x.dest : x \in OfKind(body, {"alloca"})} \ {None})

StoredToGlobal(body) ==
  {FirstOperand(x) : x \in {y \in OfKind(body, {"store"}) : SecondOperand(y) \in Globals}}

StackToGlobalEscape(body) == StoredToGlobal(body) \cap OfFrame(body) # {}

HeapToGlobalEscape(body) == (StoredToGlobal(body) \cap Parameters(body)) \ OfFrame(body) # {}

(* The first return gives back a parameter, or what may come of one by     *)
(* instructions that can make a pointer, a call's arguments included.      *)
Propagating == {"gep", "conv", "load", "select", "phi", "call", "icall"}

Givers(body, known) ==
  UNION {Words(x) \ {x.dest} : x \in {y \in OfKind(body, Propagating) : y.dest \in known}}

ReturnAlias(body) ==
  LET returns == {i \in DOMAIN body : body[i].kind = "ret"} IN
  /\ returns # {} /\ IsRegister(FirstOperand(body[Min(returns)]))
  /\ LET origins == FoldLeft(LAMBDA known, i : known \cup Givers(body, known),
                             {FirstOperand(body[Min(returns)])}, body)
     IN origins \cap Parameters(body) # {}

(* The first pointer a call is given: from its operands, or its text.      *)
Registers(s) == SelectSeq(s, IsRegister)

FirstPointer(x) ==
  LET given == Registers(x.ops) \o Registers(x.text) IN
  IF given = <<>> THEN x.dest ELSE given[1]

(* What was released is named by a later call through a pointer. *)
FreeThenCallbackUse(body) ==
  \E i, j \in DOMAIN body :
    /\ i < j /\ body[i].kind = "call" /\ body[j].kind = "icall"
    /\ Is(body[i].callee, "release")
    /\ FirstPointer(body[i]) # None /\ FirstPointer(body[i]) \in Words(body[j])

(***************************************************************************)
(* detect_constant_overflow: the size given to a memory operation, its     *)
(* last register, is a parameter and a positive constant added, multiplied *)
(* or shifted.  The loop over the calls ends at the first that has no name *)
(* or whose size it cannot explain.                                        *)
(***************************************************************************)
SizeGiven(x) ==
  LET given == Registers(IF Registers(x.ops) # <<>> THEN x.ops ELSE x.text) IN
  IF given = <<>> THEN x.dest ELSE Last(given)

SizedBy(body, x) == {y \in OfKind(body, {"binop"}) : y.dest # None /\ y.dest = SizeGiven(x)}

HasPositive(x) == Words(x) \cap (Literals \ Nulls) # {}

Growing == {"add", "mul", "shl"}

EndsScan(body, x) ==
  \/ x.callee = None
  \/ /\ Is(x.callee, "memory_op")
     /\ \A y \in SizedBy(body, x) : y.pred = None \/ (y.pred \in Growing /\ ~HasPositive(y))

Overflows(body, x) ==
  /\ Is(x.callee, "memory_op")
  /\ \E y \in SizedBy(body, x) :
       /\ y.pred \in Growing /\ HasPositive(y)
       /\ Operands(y) \cap Parameters(body) # {}

BufferOverflow(body) ==
  \E i \in DOMAIN body :
    /\ body[i].kind = "call" /\ Overflows(body, body[i])
    /\ \A j \in 1 .. (i - 1) : ~(body[j].kind = "call" /\ EndsScan(body, body[j]))

-----------------------------------------------------------------------------
(* The patterns of a body, under the names of BehaviorPattern. *)

FirstMemoryCall(body) ==
  body[Min({i \in DOMAIN body :
              body[i].kind \in {"call", "icall"} /\ Is(body[i].callee, "memory")})].callee

Transfer(body) ==
  IF ~OwnershipTransfer(body) THEN {}
  ELSE IF Is(FirstMemoryCall(body), "release") THEN {"OwnershipReleased"} ELSE {"OwnershipAcquired"}

Shown(body) ==
  {<<"ConditionalRelease", ConditionalRelease(body)>>, <<"NullGuardedRelease", NullGuardedRelease(body)>>,
   <<"NullStoreAfterRelease", NullStoreAfterRelease(body)>>,
   <<"FallibleOutParamInit", FallibleOutParamInit(body)>>,
   <<"OutParamNullOnError", OutParamNull(body)>>, <<"OutParamOwnedOnSuccess", OutParamOwned(body)>>,
   <<"PureComputation", PureComputation(body)>>, <<"PointerProjection", PointerProjection(body)>>,
   <<"Initialization", Initialization(body)>>, <<"InternalBridge", InternalBridge(body)>>,
   <<"StackToGlobalEscape", StackToGlobalEscape(body)>>, <<"ReturnAlias", ReturnAlias(body)>>,
   <<"FreeThenCallbackUse", FreeThenCallbackUse(body)>>,
   <<"HeapToGlobalEscape", HeapToGlobalEscape(body)>>, <<"BufferOverflow", BufferOverflow(body)>>}

extract_behavior(body) == {p[1] : p \in {q \in Shown(body) : q[2]}} \cup Transfer(body)

-----------------------------------------------------------------------------
(***************************************************************************)
(* The whitelist of Rust functions.  A name is its fragments: no name of   *)
(* the list and no pattern begins or ends inside of one.  A node of a trie *)
(* is the path that leads to it; those that end a pattern are marked.      *)
(***************************************************************************)
CONSTANT Spelling   \* the fragments of each symbol

PrefixesOf(s) == {SubSeq(s, 1, n) : n \in 0 .. Len(s)}

Trie(patterns) == [nodes |-> UNION {PrefixesOf(p) : p \in patterns}, ends |-> patterns]

(* The walk from a position goes on as long as there are nodes. *)
Walked(t, name, from) == {SubSeq(name, from, n) : n \in from .. Len(name)} \cap t.nodes

matches_from_position(t, name, from) == Walked(t, name, from) \cap t.ends # {}

matches(t, name) == \E from \in DOMAIN name : matches_from_position(t, name, from)

(* Of names and patterns that begin alike. *)
Under(path, lasts) == {Append(path, last) : last \in lasts}

demangled_patterns ==
  Under(<<>>, {"Vec::new", "Vec::with_capacity", "Vec::push", "Vec::pop", "Vec::insert", "Vec::remove", "Vec::clear",
    "Vec::reserve", "Vec::shrink_to_fit", "Vec::as_ptr", "Vec::as_mut_ptr", "String::new", "String::with_capacity",
    "String::push"})
  \cup {<<"String::push", "_str">>}
  \cup Under(<<>>, {"String::from", "Box::new", "Box::into_raw", "Box::from_raw", "Arc::new", "Arc::clone", "Arc::drop",
    "Rc::new", "Rc::clone", "Rc::drop", "HashMap::new", "HashMap::with_capacity", "HashMap::insert", "HashMap::remove",
    "HashMap::get", "BTreeMap::new", "BTreeMap::insert", "BTreeMap::remove", "HashSet::new", "HashSet::insert",
    "Mutex::new", "Mutex::lock", "Mutex::unlock", "RwLock::new", "RwLock::write", "RwLock::read", "Option::unwrap"})
  \cup {<<"Option::unwrap", "_or">>}
  \cup Under(<<>>, {"Option::map", "Option::and_then", "Result::unwrap"})
  \cup {<<"Result::unwrap", "_or">>, <<"Result::map">>, <<"Result::map", "_err">>}
  \cup Under(<<>>, {"Result::and_then", "Iterator::map", "Iterator::filter", "Iterator::collect", "Iterator::fold",
    "Iterator::for_each", "std::mem::swap", "std::mem::replace", "std::mem::take", "std::mem::size_of",
    "std::mem::align_of", "slice::get", "slice::index", "serde::Serialize", "serde::Deserialize",
    "tokio::task::spawn"})
  \cup {<<"tokio::task::spawn", "_blocking">>} \cup Under(<<>>, {"anyhow::Error", "anyhow::Result"})

mangled_patterns ==
  Under(<<"3Vec">>, {"3new", "7with_capacity", "4push", "3pop", "6insert", "6remove", "5clear", "7reserve",
    "13shrink_to_fit", "6as_ptr", "9as_mut_ptr"})
  \cup Under(<<"6String">>, {"3new", "7with_capacity", "4push", "9push_str", "4from"})
  \cup Under(<<"3Box">>, {"3new", "8into_raw", "9from_raw"})
  \cup Under(<<"3Arc">>, {"3new", "5clone", "4drop", "9into_raw"})
  \cup Under(<<"2Rc">>, {"3new", "5clone", "4drop"})
  \cup Under(<<"7HashMap">>, {"3new", "7with_capacity", "6insert", "6remove", "3get"})
  \cup Under(<<"8BTreeMap">>, {"3new", "6insert", "6remove"}) \cup Under(<<"7HashSet">>, {"3new", "6insert"})
  \cup Under(<<"5Mutex">>, {"3new", "4lock", "6unlock"}) \cup Under(<<"6RwLock">>, {"3new", "5write", "4read"})
  \cup Under(<<"7Condvar">>, {"3new", "4wait"})
  \cup Under(<<"6Option">>, {"4unwrap", "9unwrap_or", "3map", "7and_then"})
  \cup Under(<<"6Result">>, {"4unwrap", "9unwrap_or", "3map", "7and_then", "9map_err"})
  \cup Under(<<"8Iterator">>, {"4map", "6filter", "7collect", "4fold", "8for_each"})
  \cup Under(<<>>, {"4swap", "7replace", "4take", "7size_of", "8align_of", "4drop", "3get", "5index", "5spawn",
    "14spawn_blocking"})

(* The names listed, each under its path. *)
Listed(path, lasts) == Under(<<"_ZN">> \o path, lasts)

Buffers ==
  Listed(<<"3vec", "3Vec">>, {"3new", "7with_capacity", "4push", "3pop", "6insert",
    "6remove", "5clear", "7reserve", "13shrink_to_fit", "6as_ptr", "9as_mut_ptr"})
  \cup Listed(<<"6string", "6String">>, {"3new", "7with_capacity", "4push", "9push_str",
    "4from", "10as_mut_ptr"})

SmartPointers ==
  Listed(<<"3box", "3Box">>, {"3new", "8into_raw", "9from_raw", "6leak"})
  \cup Listed(<<"3arc", "3Arc">>, {"3new", "5clone", "4drop", "9into_raw", "10strong_count"})
  \cup Listed(<<"2rc", "2Rc">>, {"3new", "5clone", "4drop"})

Collections ==
  Listed(<<"7hashmap", "7HashMap">>, {"3new", "7with_capacity", "6insert", "6remove", "3get"})
  \cup Listed(<<"8btreemap", "8BTreeMap">>, {"3new", "6insert", "6remove"})
  \cup Listed(<<"7hashset", "7HashSet">>, {"3new", "6insert"})

LocksAndIterators ==
  Listed(<<"3sys", "5mutex", "5Mutex">>, {"3new", "4lock", "6unlock"})
  \cup Listed(<<"3sys", "6rwlock", "6RwLock">>, {"3new", "5write", "4read"})
  \cup Listed(<<"3sys", "7condvar", "7Condvar">>, {"3new", "4wait"})
  \cup Listed(<<"4iter", "8iterator", "8Iterator">>, {"4map", "6filter", "7collect", "4fold", "8for_each"})

Outcomes ==
  Listed(<<"6option", "6Option">>, {"4unwrap", "9unwrap_or", "3map", "7and_then"})
  \cup Listed(<<"6result", "6Result">>, {"4unwrap", "9unwrap_or", "3map", "7and_then", "9map_err"})

Utilities ==
  Listed(<<"3mem">>, {"4swap", "7replace", "4take", "7size_of", "8align_of", "7drop"})
  \cup Listed(<<"3ptr">>, {"7invalid", "5write", "4read"})
  \cup Listed(<<"5slice", "29SliceIndex$LT$usize$GT$">>, {"3get", "5index"})
  \cup Listed(<<"3str">>, {"9from_utf8"})
  \cup Listed(<<"6string", "6String">>, {"10into_bytes"})

SerdeAndTokio ==
  Listed(<<"5serde", "10Serialize">>, {"9serialize"})
  \cup Listed(<<"5serde", "12Deserialize">>, {"11deserialize"})
  \cup Listed(<<"5serde", "3ser", "14Serializer">>, {"14serialize_bool", "14serialize_i32", "15serialize_str"})
  \cup Listed(<<"5tokio", "4task">>, {"5spawn", "6spawn_blocking", "5yield_now"})
  \cup Listed(<<"5tokio", "5timer">>, {"5sleep", "7timeout"})
  \cup Listed(<<"5tokio", "2io", "5AsyncRead">>, {"4read"})
  \cup Listed(<<"5tokio", "2io", "6AsyncWrite">>, {"5write"})

ErrorsAndTasks ==
  Listed(<<"6anyhow", "5Error">>, {"3new", "7context"})
  \cup Listed(<<"6anyhow", "6Result">>, {"6unwrap"})
  \cup Listed(<<"9thiserror", "5Error">>, {"9from_source"})
  \cup Listed(<<"5tracing", "5event">>, {"5event"})
  \cup Listed(<<"5tracing", "5span">>, {"5span"})
  \cup Listed(<<"5rayon", "4iter", "8Parallel">>, {"8for_each", "3map", "7collect"})

OtherCrates ==
  Listed(<<"8crossbeam", "7channel">>, {"5after", "5never", "4tick"})
  \cup Listed(<<"5bytes", "6Bytes">>, {"3new", "7with_capacity"})
  \cup Listed(<<"5regex", "5Regex">>, {"3new", "5is_match", "6find"})
  \cup Listed(<<"5chrono", "6Utc">>, {"3now"})
  \cup Listed(<<"5chrono", "9NaiveDate">>, {"14from_ymd_opt"})
  \cup Listed(<<"7reqwest", "7Client">>, {"3new", "3get", "4post"})

populate_stdlib == Buffers \cup SmartPointers \cup Collections \cup LocksAndIterators \cup Outcomes \cup Utilities

populate_common_crates == SerdeAndTokio \cup ErrorsAndTasks \cup OtherCrates

RustStdlibWhitelist ==
  [functions |-> populate_stdlib \cup populate_common_crates,
   pattern_trie |-> Trie(demangled_patterns), mangled_trie |-> Trie(mangled_patterns)]

(* _R and _ZN are fragments that names begin with. *)
matches_pattern(name) ==
  \/ Len(name) > 0 /\ name[1] \in {"_R", "_ZN"} /\ matches(RustStdlibWhitelist.mangled_trie, name)
  \/ matches(RustStdlibWhitelist.pattern_trie, name)

is_whitelisted(s) == Spelling[s] \in RustStdlibWhitelist.functions \/ matches_pattern(Spelling[s])

-----------------------------------------------------------------------------
(***************************************************************************)
(* assess_ffi_safety: what a call across the boundary may do to ownership, *)
(* from the whitelist, the registry, the body of the callee and, when      *)
(* these say nothing, the body and the words of the caller's call.  The    *)
(* first that says something decides.                                      *)
(***************************************************************************)
Safe == {"SafeNoOwnership", "SafeConditionalRelease", "SafeInternalBridge",
         "SafePointerProjection", "SafeInitialization"}
Concern == "ConcernOwnershipTransfer"

(* Step 0: descriptors are no memory, and a library releases its own. *)
OfRelease(s) ==
  IF Is(s, "descriptor") THEN "SafeNoOwnership"
  ELSE IF Is(s, "library") THEN "SafeConditionalRelease" ELSE Concern

FromRegistry(s) ==
  LET effect == Trait[s].effect IN
  CASE effect = "Acquire" ->
         IF Is(s, "descriptor") THEN "SafeNoOwnership" ELSE Concern
    [] effect \in {"Release", "ConditionalRelease"} -> OfRelease(s)
    [] effect = "Retain" -> "SafeNoOwnership"
    [] effect \in {"Escape", "Reclaim"} -> "SafeInternalBridge"
    [] OTHER -> "Unknown"

(* Step 1: what the body of the callee shows. *)
FromCallee(body) ==
  CASE OwnershipTransfer(body)  -> Concern
    [] ConditionalRelease(body) -> "SafeConditionalRelease"
    [] PureComputation(body)    -> "SafeNoOwnership"
    [] PointerProjection(body)  -> "SafePointerProjection"
    [] Initialization(body)     -> "SafeInitialization"
    [] InternalBridge(body)     -> "SafeInternalBridge"
    [] OTHER                    -> "Unknown"

(* derive_from_caller_context.  What the tables of names say comes before  *)
(* the shape of the caller: few calls and nothing stored, or loads alone,  *)
(* unless the name suggests a release.                                     *)
FromName(s) == Trait[s].named

callee_name_suggests_release(s) == Is(s, "releasing")

FromShape(s, body) ==
  CASE Is(s, "_Z") \/ callee_name_suggests_release(s) \/ Has(body, "store") -> "Unknown"
    [] Count(body, {"call", "icall"}) <= 2                     -> "SafeInternalBridge"
    [] Has(body, "load") /\ ~Has(body, "atomicrmw")            -> "SafeNoOwnership"
    [] OTHER                                                   -> "Unknown"

FromCaller(s, body) ==
  CASE ConditionalRelease(body)                -> "SafeConditionalRelease"
    [] PureComputation(body) /\ ~Is(s, "_Z")   -> "SafeNoOwnership"
    [] OwnershipTransfer(body)                 -> Concern
    [] FromName(s) # "Unknown"                 -> FromName(s)
    [] OTHER                                   -> FromShape(s, body)

FirstVerdict(verdicts) ==
  LET known == SelectSeq(verdicts, LAMBDA v : v # "Unknown")
  IN IF known = <<>> THEN "Unknown" ELSE known[1]

FromBodies(callee, caller, m) ==
  <<IF callee \in DOMAIN m.bodies THEN FromCallee(m.bodies[callee]) ELSE "Unknown",
    IF caller \in DOMAIN m.bodies THEN FromCaller(callee, m.bodies[caller]) ELSE "Unknown">>

Whitelisted(s) == IF is_whitelisted(s) THEN "SafeNoOwnership" ELSE "Unknown"

AssessBodiesFirst(callee, caller, m) ==   \* mutant: the bodies are asked before the registry
  FirstVerdict(<<Whitelisted(callee)>> \o FromBodies(callee, caller, m) \o <<FromRegistry(callee)>>)

assess_ffi_safety(callee, caller, m) ==
  FirstVerdict(<<Whitelisted(callee), FromRegistry(callee)>> \o FromBodies(callee, caller, m))
=============================================================================
