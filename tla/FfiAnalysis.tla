---------------------------- MODULE FfiAnalysis ----------------------------
(***************************************************************************)
(* From the text of a module to its FFI issues: a reader takes the source  *)
(* in, ModuleIndex classifies the calls and expands the FFI slice, the     *)
(* pass CallGraph finds the edges between languages, and FFIBoundary       *)
(* assesses the boundaries one by one.  Without an index the two passes    *)
(* work on the names alone.                                                *)
(***************************************************************************)
EXTENDS ModuleIndex, SemanticEngine

-----------------------------------------------------------------------------
CONSTANT Sources   \* the sources, each with the readers that take it: [lines, readers]

VARIABLES source, reader, indexed,
          pc,       \* "read", "seeds", "expand", "graph", "boundary", "emit", "done" or "checks"
          at,       \* lines read
          reading,  \* the reader's state
          module, slice, edges,
          left,     \* strong seeds to expand, boundaries to assess
          seen, reports

ffiVars ==
  <<source, reader, indexed, pc, at, reading, module, slice, edges, left, seen, reports>>

FfiInit ==
  /\ \E s \in Sources : source = s.lines /\ reader \in s.readers
  /\ indexed \in BOOLEAN
  /\ pc = "read" /\ at = 0 /\ reading = ReaderStart(reader, source)
  /\ module = NoModule /\ slice = EmptySlice
  /\ edges = <<>> /\ left = <<>> /\ seen = {} /\ reports = <<>>

-----------------------------------------------------------------------------
ReadNext ==
  /\ pc = "read" /\ at < Len(source)
  /\ reading' = ReadLine(reader, reading, source[at + 1]) /\ at' = at + 1
  /\ UNCHANGED <<source, reader, indexed, pc, module, slice, edges, left, seen, reports>>

FinishReading ==
  /\ pc = "read" /\ at = Len(source)
  /\ module' = ReaderDone(reader, reading)
  /\ pc' = IF indexed THEN "seeds" ELSE "graph"
  /\ UNCHANGED <<source, reader, indexed, at, reading, slice, edges, left, seen, reports>>

-----------------------------------------------------------------------------
(* ModuleIndex::build, phase 2. *)

Classes(m) == LET metas == CallMetas(m) IN [i \in DOMAIN metas |-> classify_seed(m, metas[i])]

StrongSeeds(m) ==
  SelectSeq([i \in DOMAIN m.calls |-> i], LAMBDA i : Classes(m)[i] = "Strong")

ClassifySeeds ==
  /\ pc = "seeds"
  /\ IF EarlySingleLanguage(module)
       THEN pc' = "graph" /\ UNCHANGED <<slice, left>>
       ELSE /\ slice' = SeedSlice(CallMetas(module), Classes(module))
            /\ left' = StrongSeeds(module) /\ pc' = "expand"
  /\ UNCHANGED <<source, reader, indexed, at, reading, module, edges, seen, reports>>

ExpandSeed ==
  /\ pc = "expand" /\ left # <<>>
  /\ slice' = Expand(slice, CallMetas(module), Head(left)) /\ left' = Tail(left)
  /\ UNCHANGED <<source, reader, indexed, pc, at, reading, module, edges, seen, reports>>

ClosePairs ==
  /\ pc = "expand" /\ left = <<>>
  /\ LET metas == CallMetas(module) IN
       slice' = FoldLeft(LAMBDA s, pair : ClosePair(s, metas, pair), slice,
                         SetToSeq(ResourcePairs(metas)))
  /\ pc' = "graph"
  /\ UNCHANGED <<source, reader, indexed, at, reading, module, edges, left, seen, reports>>

-----------------------------------------------------------------------------
(* CallGraphPass: the calls from one known language into another.  Without *)
(* an index a function whose name says nothing is in no language.          *)

GraphBoundary(callee, to) ==
  ~Is(callee, "libc") /\ ~Runtime(callee, to) /\ ~Is(callee, "glue")

Edge(c, from) ==
  [caller |-> c.caller, callee |-> c.callee, from |-> from, to |-> Lang(c.callee),
   boundary |-> GraphBoundary(c.callee, Lang(c.callee))]

CrossLangEdges(m) ==
  LET from(c) == IF indexed THEN CallerLang(m, c.caller) ELSE Lang(c.caller)
      crossing == SelectSeq(m.calls, LAMBDA c : Crosses(from(c), Lang(c.callee)))
  IN [i \in DOMAIN crossing |-> Edge(crossing[i], from(crossing[i]))]

CallGraph ==
  /\ pc = "graph"
  /\ edges' = CrossLangEdges(module) /\ pc' = "boundary"
  /\ UNCHANGED <<source, reader, indexed, at, reading, module, slice, left, seen, reports>>

-----------------------------------------------------------------------------
(* FFIBoundaryPass: where it takes its boundaries from. *)

Boundary(c, from, to) == [caller |-> c.caller, callee |-> c.callee, from |-> from, to |-> to]

(* The scan of a module without an index: a call that crosses, or one to a *)
(* function of the module that makes a call which would.                   *)
Nested(m, from, callee) ==
  SelectSeq(m.calls, LAMBDA n :
    /\ n.caller = callee
    /\ \/ CppMangled(n.callee)
       \/ Lang(n.callee) \notin {"Unknown", from}
       \/ Lang(n.callee) = "Unknown" /\ ~Is(n.callee, "intrinsic"))

Target(s) ==
  IF CppMangled(s) THEN "Cpp" ELSE IF Lang(s) = "Unknown" THEN "C" ELSE Lang(s)

ScanCall(m, c) ==
  LET from == CallerLang(m, c.caller)
      to == Lang(c.callee)
      nested == Nested(m, from, c.callee)
  IN CASE Is(c.callee, "intrinsic") -> <<>>
       [] Crosses(from, to) \/ (CppMangled(c.callee) /\ from = "C")
          \/ ToUnknown(from, to, c.external) ->
            <<Boundary(c, from, Target(c.callee))>>
       [] OTHER ->
            IF c.callee \in DOMAIN m.functions /\ nested # <<>>
              THEN <<Boundary(c, from, Target(nested[1].callee))>> ELSE <<>>

Scan(m) == FoldLeft(LAMBDA found, c : found \o ScanCall(m, c), <<>>, m.calls)

IndexBoundaries(m) == SelectSeq(CallMetas(m), LAMBDA meta : meta.boundary)

(* The edges of the call graph, if it has any at all; or the index; or the *)
(* scan.                                                                   *)
Candidates(m, es) ==
  IF es # <<>> THEN SelectSeq(es, LAMBDA e : e.boundary)
  ELSE IF indexed THEN IndexBoundaries(m)
  ELSE Scan(m)

Skipped(m) == indexed /\ IsSingleLanguage(m)

StartBoundaries ==
  /\ pc = "boundary"
  /\ IF Skipped(module) THEN pc' = "done" /\ left' = <<>>
     ELSE pc' = "emit" /\ left' = Candidates(module, edges)
  /\ UNCHANGED <<source, reader, indexed, at, reading, module, slice, edges, seen, reports>>

-----------------------------------------------------------------------------
(* emit_ffi_issue: the kind of the issue, or "none". *)

KindOfEffect(s) ==
  IF Effect(s) \in {"Release", "ConditionalRelease", "Retain"}
    THEN "CrossLanguageFree" ELSE "OwnershipViolation"

KindOf(b, verdict) ==
  CASE verdict \in Safe -> "none"
    [] verdict = Concern /\ Effect(b.callee) # "none"   -> KindOfEffect(b.callee)
    [] verdict = Concern /\ Effect(b.callee) = "none"   -> "FfiUnsafeCall"
    [] verdict = "Unknown" /\ Effect(b.callee) # "none" -> "FfiUnsafeCall"
    [] OTHER -> IF CppMangled(b.callee) /\ b.from = "C" THEN "FfiUnsafeCall" ELSE "none"

(* The caller counts Python references; a P/Invoke marshals. *)
Expected(m, b, kind) ==
  \/ /\ kind = "OwnershipViolation" /\ b.caller \in DOMAIN m.bodies
     /\ \E x \in Calls(m.bodies[b.caller]) : Is(x.callee, "py")
  \/ kind \in {"OwnershipViolation", "CrossLanguageFree"} /\ Is(b.callee, "marshal")

Severity(m, kind) ==
  IF kind = "FfiUnsafeCall" \/ (indexed /\ IsAllocatorCrate(m)) THEN "Note" ELSE "Warning"

(***************************************************************************)
(* PassContext::emit_issue: what it suppresses is not among the pass's     *)
(* issues.  The passes that store resolutions come after this one, so that *)
(* its rules on names decide, of which only the first knows these kinds:   *)
(* one part of a runtime may do to another what it likes.                  *)
(***************************************************************************)
IsRuntimeInternal(s) == Is(s, "internal")

CallerIsUserCode(issue) ==
  ~IsRuntimeInternal(issue.caller) /\ ~Is(issue.caller, "runtime_caller")

RuntimeToRuntime(issue) ==
  /\ IsRuntimeInternal(issue.callee) /\ ~CallerIsUserCode(issue)
  /\ issue.kind \in {"FfiUnsafeCall", "CrossLanguageFree", "OwnershipViolation"}

emit_issue(issue) == IF RuntimeToRuntime(issue) THEN <<>> ELSE <<issue>>

Issues(m, b, kind) ==
  IF kind = "none" \/ Expected(m, b, kind) THEN <<>>
  ELSE emit_issue([caller |-> b.caller, callee |-> b.callee, kind |-> kind,
                   severity |-> Severity(m, kind)])

(* A pair of functions is assessed once. *)
EmitNext ==
  /\ pc = "emit" /\ left # <<>>
  /\ LET b == Head(left)
         key == <<b.caller, b.callee>>
     IN \E verdict \in {assess_ffi_safety(b.callee, b.caller, module)} :
          \E kind \in {KindOf(b, verdict)} :
            /\ reports' = IF key \in seen THEN reports ELSE reports \o Issues(module, b, kind)
            /\ seen' = seen \cup {key}
  /\ left' = Tail(left)
  /\ UNCHANGED <<source, reader, indexed, pc, at, reading, module, slice, edges>>

Finish ==
  /\ pc = "emit" /\ left = <<>>
  /\ pc' = "done"
  /\ UNCHANGED <<source, reader, indexed, at, reading, module, slice, edges, left, seen, reports>>

FfiNext ==
  \/ ReadNext \/ FinishReading
  \/ ClassifySeeds \/ ExpandSeed \/ ClosePairs
  \/ CallGraph \/ StartBoundaries \/ EmitNext \/ Finish

FfiSpec == FfiInit /\ [][FfiNext]_ffiVars

-----------------------------------------------------------------------------
FfiTypeOK ==
  /\ pc \in {"read", "seeds", "expand", "graph", "boundary", "emit", "done", "checks"}
  /\ at \in 0 .. Len(source)
  /\ DOMAIN slice.calls \subseteq DOMAIN module.calls
  /\ DOMAIN slice.functions \subseteq Symbol
  /\ seen \subseteq Symbol \X Symbol /\ Len(reports) <= Cardinality(seen)

(***************************************************************************)
(* A reader loses nothing, wherever the source is cut: every named call is *)
(* in the module's list, in the order of the source and with the function  *)
(* it is in; every function has its instructions, though its end never     *)
(* came; and a call is external when its callee is declared anywhere, or,  *)
(* for the walk over LLVM's module, before it.                             *)
(***************************************************************************)
(* Of each line, the function it is in. *)
Owners ==
  LET after(owners, l) ==
        Append(owners, CASE l.op = "define" -> l.name [] l.op = "end" -> TopLevel
                         [] OTHER -> IF owners = <<>> THEN TopLevel ELSE Last(owners))
  IN FoldLeft(after, <<>>, source)

DeclaredFor(j) ==
  \E i \in DOMAIN source :
    /\ source[i].op = "declare" /\ source[i].name = source[j].callee
    /\ reader = "llvm" => i < j

NamedCalls(owners) ==
  LET lines == SelectSeq([j \in DOMAIN source |-> j],
                 LAMBDA j : /\ \/ source[j].op = "call"
                               \/ source[j].op = "invoke" /\ reader = "model"
                            /\ ~Is(source[j].callee, "intrinsic"))
  IN [k \in DOMAIN lines |->
        CallOf(owners[lines[k]], source[lines[k]].callee, DeclaredFor(lines[k]))]

LinesOf(owners, f) == {j \in DOMAIN source : owners[j] = f /\ IsInst(source[j])}

BodyLength(f) == IF f \in DOMAIN module.bodies THEN Len(module.bodies[f]) ELSE 0

ReadersAgree ==
  pc = "done" => \A owners \in {Owners} :
    /\ SelectSeq(module.calls, LAMBDA c : c.callee # Indirect /\ ~Is(c.callee, "intrinsic")
                                           /\ ~Is(c.callee, "register")) = NamedCalls(owners)
    /\ DOMAIN module.functions =
         {source[j].name : j \in {i \in DOMAIN source : source[i].op = "define"}}
    /\ \A f \in DOMAIN module.functions : BodyLength(f) = Cardinality(LinesOf(owners, f))

(***************************************************************************)
(* The slice holds the seeds, the calls within two of a strong seed, on    *)
(* the way down from its callee and on the way up from its caller, and the *)
(* other halves of their pairs; and no others, in whatever order the seeds *)
(* were expanded and though the call graph has cycles.  The depth noted is *)
(* never less than the distance, and the functions of the slice are those  *)
(* its calls lead from and to.                                             *)
(***************************************************************************)
CloseCalls(metas, i, d) ==
  LET down == {j \in DOMAIN metas : metas[j].caller = metas[i].callee}
      up == {j \in DOMAIN metas : metas[j].callee = metas[i].caller}
  IN IF d = 0 THEN {i} ELSE IF d = 1 THEN down \cup up
     ELSE {j \in DOMAIN metas : \/ \E k \in down : metas[j].caller = metas[k].callee
                                \/ \E k \in up : metas[j].callee = metas[k].caller}

Reached(metas, seeds, strong, n) == seeds \cup UNION {CloseCalls(metas, i, d) : i \in strong, d \in 0 .. n}

OtherHalves(metas, reached) ==
  UNION {{p[1], p[2]} : p \in {q \in ResourcePairs(metas) : {q[1], q[2]} \cap reached # {}}}

SliceIsTwoHops ==
  pc = "done" /\ indexed /\ ~EarlySingleLanguage(module) =>
    \A metas \in {CallMetas(module)}, class \in {Classes(module)} :
      LET seeds == {i \in DOMAIN class : class[i] # "Suppression"}
          strong == {i \in DOMAIN class : class[i] = "Strong"}
      IN \A near \in {Reached(metas, seeds, strong, 1)}, reached \in {Reached(metas, seeds, strong, 2)} :
           /\ DOMAIN slice.calls = reached \cup OtherHalves(metas, reached)
           /\ \A i \in reached \ seeds : slice.calls[i].depth = 1 => i \in near
           /\ \A i \in seeds : slice.calls[i] = Info(0, class[i])
           /\ \A i \in DOMAIN slice.calls : metas[i].caller \in DOMAIN slice.functions
           /\ \A f \in DOMAIN slice.functions :
                \E i \in DOMAIN slice.calls : f \in {metas[i].caller, metas[i].callee}

(***************************************************************************)
(* Three tests say what a boundary is, each in its own words: what the     *)
(* call graph calls one, the index calls one too, and what the index calls *)
(* one is in the slice, except a call to libc that passes no pointer.      *)
(***************************************************************************)
BoundariesNested ==
  pc = "done" /\ indexed =>
    LET metas == CallMetas(module) IN
    /\ \A k \in DOMAIN edges : edges[k].boundary =>
         \E i \in DOMAIN metas :
           /\ metas[i].boundary
           /\ metas[i].caller = edges[k].caller /\ metas[i].callee = edges[k].callee
    /\ ~EarlySingleLanguage(module) =>
         \A i \in DOMAIN metas : metas[i].boundary =>
           \/ i \in DOMAIN slice.calls
           \/ Is(metas[i].callee, "libc") /\ ~PointerOf(module, metas[i])

(***************************************************************************)
(* Of the boundaries FFIBoundary considers, a release of the registry that *)
(* is neither a descriptor's nor a library's nor a marshaller's is         *)
(* reported as CrossLanguageFree, whatever the bodies around it look like; *)
(* so is, as an unsafe call, an unknown callee whose body manages memory   *)
(* unguarded.  Of both only this is excused: what the whitelist names or   *)
(* has a pattern for within the name, and what one part of a runtime does  *)
(* to another, of which nothing is reported; user code's calls into a      *)
(* runtime are.  Each pair of functions is reported once at most, and only *)
(* for a call the source makes.                                            *)
(***************************************************************************)
KindsReported(b) ==
  LET of == SelectSeq(reports, LAMBDA r : r.caller = b.caller /\ r.callee = b.callee)
  IN [i \in DOMAIN of |-> of[i].kind]

Within(part, name) ==
  \E i \in 1 .. Len(name) - Len(part) + 1 : part = SubSeq(name, i, i + Len(part) - 1)

(* The name is listed, or a pattern is part of it. *)
Excused(name) ==
  \/ name \in populate_stdlib \cup populate_common_crates
  \/ \E part \in demangled_patterns : Within(part, name)
  \/ name[1] \in {"_R", "_ZN"} /\ \E part \in mangled_patterns : Within(part, name)

MustReport(b) ==
  /\ Effect(b.callee) \in Releasing /\ ~Excused(Spelling[b.callee])
  /\ \A tag \in {"descriptor", "library", "marshal"} : ~Is(b.callee, tag)

FreesUnguarded(b) ==
  /\ Effect(b.callee) = "none" /\ ~Excused(Spelling[b.callee])
  /\ b.callee \in DOMAIN module.bodies /\ OwnershipTransfer(module.bodies[b.callee])

WithinRuntime(b) ==
  /\ Is(b.callee, "internal")
  /\ \E tag \in {"internal", "runtime_caller"} : Is(b.caller, tag)

ReleasesReported ==
  pc = "done" => \A owners \in {Owners} :
    /\ \A b \in IF Skipped(module) THEN {} ELSE Range(Candidates(module, edges)) :
         \A kinds \in {KindsReported(b)} :
           /\ Len(kinds) <= 1
           /\ WithinRuntime(b) => kinds = <<>>
           /\ MustReport(b) /\ ~WithinRuntime(b) => kinds = <<"CrossLanguageFree">>
           /\ FreesUnguarded(b) /\ ~WithinRuntime(b) => kinds = <<"FfiUnsafeCall">>
    /\ \A i \in DOMAIN reports :
         \E j \in DOMAIN source :
           /\ source[j].op \in {"call", "icall", "invoke"}
           /\ source[j].callee = reports[i].callee /\ owners[j] = reports[i].caller

=============================================================================
