----------------------------- MODULE BodyChecks -----------------------------
(***************************************************************************)
(* The passes that look at one body at a time: IrBehaviorSummary with the  *)
(* type confusion detector, FfiReturnCheck, and WriteToImmutable.  They    *)
(* read the instructions in the order of the text.                         *)
(***************************************************************************)
EXTENDS FfiAnalysis, TLC

CONSTANTS PointerTypes,   \* ptr, and the types that end with a star
          ArgumentNames   \* operands with "param" or "arg" in their name

(***************************************************************************)
(* TypeConfusionDetector: what a conversion may confuse.  A call is to     *)
(* another language when its name is C's, C++'s or dotted, and near when   *)
(* it is five instructions away.                                           *)
(***************************************************************************)
External(s) == \E tag \in {"_Z", "cname", "dotted"} : Is(s, tag)

FfiCalls(body) == {i \in DOMAIN body : body[i] \in Calls(body) /\ External(body[i].callee)}

MAX_DISTANCE == 5

Near(body, i) == \E j \in FfiCalls(body) : i - j \in (-MAX_DISTANCE) .. MAX_DISTANCE

FloatTypes == {"float", "double"}
Width == [i1 |-> 1, i8 |-> 8, i16 |-> 16, i32 |-> 32, i64 |-> 64, float |-> 32, double |-> 64]
                      @@ [t \in PointerTypes |-> 64]

(* From 64 to 32 bits, from 32 to 16: what is lost is two bytes or more. *)
Narrows(from, to) ==
  {from, to} \subseteq DOMAIN Width
    /\ Width[from] - Width[to] \notin (-15) .. 15

From(x) == x.type[1]
To(x)   == x.type[2]

FloatInteger(x) ==
  /\ x.pred \in {"sitofp", "uitofp", "fptosi", "fptoui"}
  /\ Cardinality({From(x), To(x)} \cap FloatTypes) = 1

UnsafeBitcast(x) ==
  x.pred = "bitcast" /\ From(x) # To(x) /\ {From(x), To(x)} \cap PointerTypes # {}

(* The first test that finds something decides.  The width of structs is   *)
(* never compared: a cast between two pointers is unsafe already.          *)
Confuses(x, ffi) ==
  CASE x.pred \in {"sext", "zext"} /\ ffi                    -> "SignedUnsignedConfusion"
    [] x.pred \in {"inttoptr", "ptrtoint"}                   -> "PointerIntegerConfusion"
    [] FloatInteger(x)                                       -> "FloatIntegerConfusion"
    [] x.pred = "trunc" /\ ffi /\ Narrows(From(x), To(x))    -> "TypeWidthMismatch"
    [] UnsafeBitcast(x)                                      -> "UnsafeBitcast"
    [] OTHER                                                 -> None

Confusion(body, i) ==
  [at |-> i, kind |-> Confuses(body[i], FfiCalls(body) # {}),
   confidence |-> IF Near(body, i) THEN "High" ELSE IF FfiCalls(body) # {} THEN "Medium" ELSE "Low"]

analyze_function(body) ==
  {c \in {Confusion(body, i) : i \in {j \in DOMAIN body : body[j].kind = "conv"}} : c.kind # None}

-----------------------------------------------------------------------------
(***************************************************************************)
(* FfiReturnCheck: the registers that hold a pointer another language gave *)
(* back, which of them are known not to be null, and the comparisons with  *)
(* null no branch has used yet.                                            *)
(***************************************************************************)
NothingSeen ==
  [tracked |-> <<>>, noundef |-> {}, checked |-> {}, pending |-> <<>>, aware |-> FALSE, found |-> <<>>]

IsFfi(m, s) == s \in DOMAIN m.declarations \/ Is(s, "cname")

returns_pointer(x) == x.type \in {"ptr", "noundef"}

Nullable(x) ==
  /\ returns_pointer(x) /\ x.dest # None
  /\ ~Is(x.callee, "nonnull") /\ ~Is(x.callee, "sysalloc")

(* The function ends the program somewhere: what is found may not matter. *)
Terminates(body) ==
  \E x \in Insts(body) : x.kind = "unreachable" \/ (x.kind = "call" /\ Is(x.callee, "noreturn"))

(* A register is reported once. *)
Report(r, regs, kind) ==
  FoldLeft(LAMBDA s, reg :
             IF reg \notin DOMAIN s.tracked \ s.checked THEN s
             ELSE [s EXCEPT !.found = Append(@, [reg |-> reg, callee |-> s.tracked[reg], kind |-> kind]),
                            !.checked = @ \cup {reg}],
           r, regs)

Track(r, x) ==
  [r EXCEPT !.tracked = Put(@, x.dest, x.callee),
            !.noundef = IF x.type = "noundef" THEN @ \cup {x.dest} ELSE @]

AfterCall(m, r, x) ==
  IF ~IsFfi(m, x.callee) THEN r
  ELSE LET known == IF Nullable(x) THEN Track(r, x) ELSE r
       IN IF Is(x.callee, "null_sink") THEN Report(known, <<x.dest>> \o x.text, "NullDereference")
          ELSE known

NullCompare(x) == x.kind = "icmp" /\ x.pred \in {"eq", "ne"} /\ "null" \in Words(x)

AfterCompareChecked(r, x) ==   \* mutant: a comparison counts before a branch uses it
  [r EXCEPT !.aware = TRUE, !.checked = @ \cup (Words(x) \cap DOMAIN r.tracked)]

AfterCompare(r, x) ==
  LET compared == SelectSeq(x.ops \o x.text, LAMBDA o : o \in DOMAIN r.tracked)
      aware == [r EXCEPT !.aware = TRUE]
  IN CASE compared = <<>> -> aware
       [] x.dest = None   -> [aware EXCEPT !.checked = @ \cup {compared[1]}]
       [] OTHER           -> [aware EXCEPT !.pending = Put(@, x.dest, compared[1])]

AfterInst(m, r, x) ==
  CASE x.kind \in {"call", "icall"} -> AfterCall(m, r, x)
    [] NullCompare(x)               -> AfterCompare(r, x)
    [] x.kind = "br" ->
         [r EXCEPT !.checked = @ \cup {r.pending[c] : c \in DOMAIN r.pending \cap Words(x)}]
    [] x.kind \in {"load", "store", "gep"} ->
         Report(r, SelectSeq(x.ops, LAMBDA o : o \notin r.noundef), "UncheckedFfiReturn")
    [] OTHER -> r

scan_function_body(m, body) ==
  LET end == FoldLeft(LAMBDA r, x : AfterInst(m, r, x), NothingSeen, body)
  IN [aware |-> end.aware, found |-> end.found,
      verdict |-> IF Terminates(body) THEN "Diagnostic" ELSE None]

(* With an index, the functions with a call across a boundary. *)
ffi_functions(m) ==
  LET metas == CallMetas(m)
  IN {f \in DOMAIN m.functions \ DOMAIN m.declarations :
        \E i \in DOMAIN metas : metas[i].caller = f /\ metas[i].boundary}

Scanned(m) == IF indexed THEN DOMAIN m.bodies \cap ffi_functions(m) ELSE DOMAIN m.bodies

-----------------------------------------------------------------------------
(***************************************************************************)
(* WriteToImmutable: the rule that clears a store, or "issue".  Only names *)
(* are looked at; R-10, on the register stored to, looks for a word that   *)
(* operands never have.                                                    *)
(***************************************************************************)
RuntimeInternal(m, f) ==
  /\ indexed /\ f \in DOMAIN m.functions \cup DOMAIN m.declarations
  /\ \E tag \in {"internal", "c_runtime"} : Is(f, tag)

RustMangled(f) == Is(f, "rust") \/ Is(f, "_ZN")

RustInternal(f) ==
  CASE Is(f, "arena") -> "R-14" [] Is(f, "raw_vec") -> "R-15" [] OTHER -> "issue"

Rule(m, f, x) ==
  CASE RuntimeInternal(m, f)                                  -> "R-12"
    [] Is(f, "cpp_internal")                                  -> "R-12b"
    [] Is(f, "mut")                                           -> "R-0"
    [] Is(f, "interior")                                      -> "R-2"
    [] Is(f, "argument") \/ Operands(x) \cap ArgumentNames # {} -> "R-8"
    [] RustMangled(f)                                         -> "R-16"
    [] ~RustMangled(f)                                        -> "R-13"
    [] OTHER                                                  -> RustInternal(f)

(* With an index a function that is declared as well is passed over. *)
Stores(m) ==
  UNION {{<<f, i>> : i \in {j \in DOMAIN m.bodies[f] : m.bodies[f][j].kind = "store"}} :
           f \in IF indexed THEN DOMAIN m.bodies \ DOMAIN m.declarations ELSE DOMAIN m.bodies}

-----------------------------------------------------------------------------
VARIABLES check,        \* the pass that is next: "behavior", "returns", "stores" or "end"
          behaviors,    \* of each body, the patterns found
          confusions,   \* of each body, what its conversions may confuse
          returns,      \* of each body scanned, the returns found unchecked
          cleared       \* of each store, the rule that cleared it

bodyVars == <<check, behaviors, confusions, returns, cleared>>

BodyInit ==
  /\ FfiInit
  /\ check = "behavior" /\ behaviors = <<>> /\ confusions = <<>> /\ returns = <<>> /\ cleared = <<>>

IrBehaviorSummary ==
  /\ pc = "done" /\ pc' = "checks" /\ check = "behavior" /\ check' = "returns"
  /\ behaviors' = [f \in DOMAIN module.bodies |-> extract_behavior(module.bodies[f])]
  /\ confusions' = [f \in DOMAIN module.bodies |-> analyze_function(module.bodies[f])]
  /\ UNCHANGED <<source, reader, indexed, at, reading, module, slice, edges, left, seen, reports,
                 returns, cleared>>

FfiReturnCheck ==
  /\ check = "returns" /\ check' = "stores"
  /\ returns' = [f \in Scanned(module) |-> scan_function_body(module, module.bodies[f])]
  /\ UNCHANGED <<ffiVars, behaviors, confusions, cleared>>

WriteToImmutable ==
  /\ check = "stores" /\ check' = "end"
  /\ cleared' = [s \in Stores(module) |-> Rule(module, s[1], module.bodies[s[1]][s[2]])]
  /\ UNCHANGED <<ffiVars, behaviors, confusions, returns>>

BodyNext ==
  \/ FfiNext /\ UNCHANGED bodyVars
  \/ IrBehaviorSummary \/ FfiReturnCheck \/ WriteToImmutable

BodySpec == BodyInit /\ [][BodyNext]_<<ffiVars, bodyVars>>

-----------------------------------------------------------------------------
(***************************************************************************)
(* A pointer from another language is reported exactly when some use that  *)
(* needs it not to be null comes before every branch on a comparison of it *)
(* with null, once, and for the first such use: whatever the order of the  *)
(* other calls, comparisons and branches, and whichever reader made the    *)
(* body.  A comparison that no branch uses guards nothing.                 *)
(***************************************************************************)
GivenAt(m, body, reg, i) ==
  body[i].kind \in {"call", "icall"} /\ IsFfi(m, body[i].callee) /\ Nullable(body[i])
    /\ body[i].dest = reg

Needs(m, body, given, j) ==
  LET x == body[j]
      reg == body[given].dest
  IN \/ /\ j >= given /\ x.kind \in {"call", "icall"} /\ IsFfi(m, x.callee)
        /\ Is(x.callee, "null_sink") /\ reg \in {x.dest} \cup Range(x.text)
     \/ /\ j > given /\ x.kind \in {"load", "store", "gep"}
        /\ body[given].type # "noundef" /\ reg \in Operands(x)

GuardedBefore(body, given, j) ==
  \E c \in (given + 1) .. (j - 1) :
    /\ NullCompare(body[c]) /\ body[given].dest \in Words(body[c])
    /\ body[c].dest # None =>
         \E k \in (c + 1) .. (j - 1) : body[k].kind = "br" /\ body[c].dest \in Words(body[k])

UncheckedReturnsExact ==
  check = "stores" =>
    \A f \in DOMAIN returns :
      LET body == module.bodies[f]
          given == {i \in DOMAIN body : GivenAt(module, body, body[i].dest, i)}
          uses(i) == {j \in DOMAIN body : Needs(module, body, i, j) /\ ~GuardedBefore(body, i, j)}
          found == returns[f].found
      IN /\ Len(found) = Cardinality({found[k].reg : k \in DOMAIN found})
         /\ Range(found) =
              {[reg |-> body[i].dest, callee |-> body[i].callee,
                kind |-> IF body[Min(uses(i))].kind \in {"call", "icall"}
                           THEN "NullDereference" ELSE "UncheckedFfiReturn"] :
                 i \in {k \in given : uses(k) # {}}}
=============================================================================
