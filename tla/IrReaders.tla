----------------------------- MODULE IrReaders -----------------------------
(***************************************************************************)
(* The three readers that make an IRModule: the line parser, the           *)
(* conversion of the exported model, and the walk over LLVM's own module.  *)
(* A source is a sequence of lines; of a line's text there is what the     *)
(* analyses look at:                                                       *)
(*   [op |-> "declare" or "define", name, ret, params]  whether a pointer  *)
(*       is returned, or taken                                             *)
(*   [op |-> "end"]                                                        *)
(*   [op |-> "type", name, packed, fields]  the definition of a struct     *)
(*   an instruction: op, callee, dest, ops (operands), pred (of a          *)
(*       comparison, an atomic or binary operation or a conversion), type  *)
(*       (of a call's result; of a conversion, from and to)                *)
(* The walkers are given the same lines, function by function.             *)
(***************************************************************************)
EXTENDS Integers, Sequences, FiniteSets, SequencesExt

CONSTANTS Symbol,   \* names of functions and of registers that are called
          Trait     \* what the tests on names say of each

None     == "none"         \* no name, no register
Indirect == "indirect"     \* the callee of a call no name is known for
TopLevel == "<top-level>"  \* the caller of a call outside of any function

ASSUME TraitAssumption ==
  /\ {Indirect, TopLevel} \subseteq Symbol /\ None \notin Symbol
  /\ \A s \in Symbol : Trait[s].tags \subseteq STRING

Is(s, tag) == s # None /\ tag \in Trait[s].tags

IsInst(l) == l.op \notin {"declare", "define", "end", "type"}

NoModule == [functions |-> <<>>, declarations |-> <<>>, bodies |-> <<>>, calls |-> <<>>]

Put(f, k, v) == [x \in DOMAIN f \cup {k} |-> IF x = k THEN v ELSE f[x]]

(* What function_returns_pointer and has_pointer_in_signature find: only    *)
(* the exported model has the types of the parameters.                     *)
Signature(reader, l) == [ret |-> l.ret, pointer |-> l.ret \/ (reader = "model" /\ l.params)]

(***************************************************************************)
(* Instructions.  The line parser knows no invoke, drops the name of an    *)
(* intrinsic and the operands of a named call; the walk keeps no operands  *)
(* at all, nor the opcode of a conversion, and takes a callee from a call  *)
(* only.  Each keeps the text, with the operands it names.                 *)
(***************************************************************************)
Inst(l, kind, callee, ops) ==
  [kind |-> kind, callee |-> callee, dest |-> l.dest, ops |-> ops, text |-> l.ops,
   pred |-> l.pred, type |-> l.type]

Named(s) == IF Is(s, "intrinsic") THEN None ELSE s

PlainInst(l) == Inst(l, l.op, None, l.ops)

TextOperands(l) ==
  IF l.op = "invoke" \/ (l.op = "call" /\ ~Is(l.callee, "intrinsic")) THEN <<>> ELSE l.ops

TextInst(l) ==
  CASE l.op = "call"   -> Inst(l, "call", Named(l.callee), TextOperands(l))
    [] l.op = "icall"  -> Inst(l, "icall", l.callee, TextOperands(l))
    [] l.op = "invoke" -> Inst(l, "other", None, TextOperands(l))
    [] OTHER           -> PlainInst(l)

ModelInst(l) ==
  CASE l.op \in {"call", "invoke"} -> Inst(l, "call", l.callee, l.ops)
    [] l.op = "icall"              -> Inst(l, "call", None, l.ops)
    [] OTHER                       -> PlainInst(l)

LlvmCall(l) == Inst(l, "call", Named(l.callee), <<>>)

LlvmInst(l) ==
  CASE l.op \in {"call", "icall"} -> LlvmCall(l)
    [] l.op = "invoke"            -> Inst(l, "call", None, <<>>)
    [] l.op \in {"conv", "binop"} -> [Inst(l, l.op, None, <<>>) EXCEPT !.pred = None]
    [] OTHER                      -> Inst(l, l.op, None, <<>>)

(***************************************************************************)
(* The line parser: the module so far, the function it is in and the       *)
(* instructions it has of it.  A body without instructions is not kept.    *)
(***************************************************************************)
Flushed(r) ==
  IF r.current = None \/ r.body = <<>> THEN r.module
  ELSE [r.module EXCEPT !.bodies = Put(@, r.current, r.body)]

CallOf(caller, callee, external) == [caller |-> caller, callee |-> callee, external |-> external]

TextDeclare(r, l) ==
  [r EXCEPT !.module.declarations = Put(@, l.name, Signature("text", l))]

TextDefine(r, l) ==
  [module  |-> [Flushed(r) EXCEPT !.functions = Put(@, l.name, Signature("text", l))],
   current |-> l.name, body |-> <<>>]

TextCall(r, caller, l) ==
  [r EXCEPT !.module.calls = Append(@, CallOf(caller, l.callee, FALSE))]

TextBody(r, l) ==
  LET kept == [r EXCEPT !.body = Append(@, TextInst(l))]
  IN IF l.op \in {"call", "icall"} THEN TextCall(kept, r.current, l) ELSE kept

TextLine(r, l) ==
  CASE l.op = "declare"                    -> TextDeclare(r, l)
    [] l.op = "define"                     -> TextDefine(r, l)
    [] l.op = "end"                        -> [module |-> Flushed(r), current |-> None, body |-> <<>>]
    [] IsInst(l) /\ r.current # None       -> TextBody(r, l)
    [] l.op = "call" /\ r.current = None   -> TextCall(r, TopLevel, l)
    [] OTHER                               -> r

TextDoneUnflushed(r) ==   \* mutant: the body open at the end of the text is lost
  [r.module EXCEPT !.calls =
     [i \in DOMAIN @ |-> [@[i] EXCEPT !.external = r.module.calls[i].callee \in DOMAIN r.module.declarations]]]

(* At the end of the text: the body that is open, and which calls are external. *)
TextDone(r) ==
  LET m == Flushed(r)
  IN [m EXCEPT !.calls =
        [i \in DOMAIN @ |-> [@[i] EXCEPT !.external = m.calls[i].callee \in DOMAIN m.declarations]]]

(***************************************************************************)
(* The two walks.  A body is kept whatever is in it.  The model has its    *)
(* declarations from the start; the walk over LLVM's module meets them in  *)
(* the order of its list, and decides at each call what is external.       *)
(***************************************************************************)
WalkInst(reader, l) == IF reader = "model" THEN ModelInst(l) ELSE LlvmInst(l)

WalkCall(r, inst) ==
  LET callee == IF inst.callee = None THEN Indirect ELSE inst.callee
  IN CallOf(r.current, callee, callee \in DOMAIN r.module.declarations)

WalkLine(reader, r, l) ==
  CASE l.op = "declare" ->
         [r EXCEPT !.module.declarations = Put(@, l.name, Signature(reader, l))]
    [] l.op = "define" ->
         [r EXCEPT !.module.functions = Put(@, l.name, Signature(reader, l)),
                   !.module.bodies = Put(@, l.name, <<>>), !.current = l.name]
    [] l.op = "end" -> [r EXCEPT !.current = None]
    [] l.op = "type" -> r
    [] OTHER ->
         LET inst == WalkInst(reader, l) IN
         [r EXCEPT !.module.bodies = Put(@, r.current, Append(@[r.current], inst)),
                   !.module.calls = IF inst.kind = "call" THEN Append(@, WalkCall(r, inst)) ELSE @]

-----------------------------------------------------------------------------
(* Which lines a reader has at the start, one line on, and at the end. *)

ReaderStart(reader, source) ==
  LET declared == IF reader = "model" THEN SelectSeq(source, LAMBDA l : l.op = "declare") ELSE <<>>
  IN FoldLeft(LAMBDA r, l : WalkLine(reader, r, l),
              [module |-> NoModule, current |-> None, body |-> <<>>], declared)

ReadLine(reader, r, l) == IF reader = "text" THEN TextLine(r, l) ELSE WalkLine(reader, r, l)

ReaderDone(reader, r) == IF reader = "text" THEN TextDone(r) ELSE r.module
=============================================================================
