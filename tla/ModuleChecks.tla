---------------------------- MODULE ModuleChecks ----------------------------
(***************************************************************************)
(* The passes over a whole module that follow: AbiLayout looks at the      *)
(* structs of the text, CrossFunctionLifetime follows what is allocated    *)
(* through the calls, and IssueCandidateBuilder files the patterns and the *)
(* structs found as candidates.                                            *)
(***************************************************************************)
EXTENDS BodyChecks

-----------------------------------------------------------------------------
(***************************************************************************)
(* AbiLayoutDetector.  A field is [base, shape, times]: a scalar, an array *)
(* or a vector.  What has no entry here, a nested struct too, takes no     *)
(* room.                                                                   *)
(***************************************************************************)
Integer == [i1 |-> 1, i8 |-> 1, i16 |-> 2, i32 |-> 4, i64 |-> 8, i128 |-> 16]

ScalarSize == Integer @@ [float |-> 4, double |-> 8, fp128 |-> 16, ptr |-> 8]

StructField(t, size, align) == [type |-> t, size |-> size, align |-> align]

get_type_info(t) ==
  LET known == t.base \in DOMAIN ScalarSize
      size == IF known THEN t.times * ScalarSize[t.base] ELSE 0
      align == IF t.shape = "vector" THEN IF size < 16 THEN size ELSE 16
               ELSE IF known THEN ScalarSize[t.base] ELSE 1
  IN StructField(t, size, align)

AbiIssue(kind, field, bytes) == [kind |-> kind, at |-> field, bytes |-> bytes]

Padding(offset, align) == (align - (offset % align)) % align

Aligned(offset, align) == IF align > 0 THEN offset + Padding(offset, align) ELSE offset

calculate_struct_alignment(fields) == IF fields = <<>> THEN 1 ELSE Max({f.align : f \in Range(fields)})

calculate_struct_size(fields, align) ==
  Aligned(FoldLeft(LAMBDA offset, f : Aligned(offset, f.align) + f.size, 0, fields), align)

StructLayout(l, fields) ==
  [name |-> l.name, packed |-> l.packed, fields |-> fields,
   alignment |-> calculate_struct_alignment(fields),
   total_size |-> calculate_struct_size(fields, calculate_struct_alignment(fields))]

(* With readers that keep no text there are no structs.  Of two with one   *)
(* name the later counts.                                                  *)
Text == IF reader = "text" THEN source ELSE <<>>

parse_struct_definitions(text) ==
  FoldLeft(LAMBDA found, l : IF l.op = "type"
                               THEN Put(found, l.name, StructLayout(l, [i \in DOMAIN l.fields |-> get_type_info(l.fields[i])]))
                               ELSE found,
           <<>>, text)

(* A field of no alignment: the padding before it is a division by zero.   *)
Panics(layout) == \E f \in Range(layout.fields) : f.align = 0

(* The offset so far, and what was found before it. *)
AfterField(r, f) ==
  LET gap == Padding(r.offset, f.align)
  IN [offset |-> r.offset + gap + f.size, at |-> r.at + 1,
      found |-> IF gap = 0 THEN r.found
                ELSE Append(r.found, AbiIssue("StructPadding", r.at, gap))]

detect_padding_issues(layout) ==
  FoldLeft(AfterField, [offset |-> 0, at |-> 1, found |-> <<>>], layout.fields).found

BeforeBySize(fields, i, j) ==   \* mutant: the largest field comes first
  fields[i].size > fields[j].size \/ (fields[i].size = fields[j].size /\ i < j)

(* The largest alignment first, then the largest size, then as they are.   *)
Before(fields, i, j) ==
  LET a == fields[i]
      b == fields[j]
  IN \/ a.align > b.align
     \/ a.align = b.align /\ a.size > b.size
     \/ a.align = b.align /\ a.size = b.size /\ i < j

detect_field_ordering_issues(layout) ==
  LET order == SortSeq([i \in DOMAIN layout.fields |-> i], LAMBDA i, j : Before(layout.fields, i, j))
      sorted == [i \in DOMAIN order |-> layout.fields[order[i]]]
      saved == layout.total_size - calculate_struct_size(sorted, layout.alignment)
  IN IF saved > 0 THEN <<AbiIssue("FieldOrdering", 0, saved)>> ELSE <<>>

(* More than a half of the struct is padding. *)
detect_excessive_padding(layout) ==
  LET padding == FoldLeft(LAMBDA rest, f : rest - f.size, layout.total_size, layout.fields)
  IN IF 2 * padding > layout.total_size
       THEN <<AbiIssue("ExcessivePadding", 0, padding)>> ELSE <<>>

(* Of a struct that is not packed; nor has such a one issues of bit fields. *)
detect_endianness_issues(layout) ==
  LET wide(i) == /\ layout.fields[i].size > 1 /\ layout.fields[i].type.shape = "scalar"
                 /\ layout.fields[i].type.base \in DOMAIN Integer \cup FloatTypes
      found == SelectSeq([i \in DOMAIN layout.fields |-> i], wide)
  IN [k \in DOMAIN found |-> AbiIssue("EndiannessIssue", found[k], 0)]

analyze_struct_layout(layout) ==
  detect_padding_issues(layout) \o detect_field_ordering_issues(layout)
    \o detect_excessive_padding(layout) \o detect_endianness_issues(layout)

(* C keeps the order of the fields, Go and Rust may not. *)
Reorders == [c |-> FALSE, rust |-> TRUE, go |-> TRUE]

analyze_cross_language_abi(a, b) ==
  IF Reorders[a] # Reorders[b] THEN <<AbiIssue("CrossLanguageMismatch", 0, 0)>> ELSE <<>>

has_potential_padding_risk(layout) ==
  \E i \in DOMAIN layout.fields \ {Len(layout.fields)} :
    LET this == layout.fields[i]
        next == layout.fields[i + 1]
    IN this.align < next.align /\ this.size % next.align # 0

(* Any function whose name looks exported will do: which structs the       *)
(* functions use is not looked at.                                         *)
identify_ffi_boundary_functions(text) ==
  {l.name : l \in {k \in Range(text) : k.op = "define" /\ Is(k.name, "exported")}}

VARIABLE structs   \* the layouts of the text's structs, by name

Unpacked == {n \in DOMAIN structs : ~structs[n].packed}

Risky == {n \in Unpacked : has_potential_padding_risk(structs[n])}

Mismatches(text) ==
  IF identify_ffi_boundary_functions(text) = {} THEN <<>>
  ELSE analyze_cross_language_abi("c", "go") \o analyze_cross_language_abi("c", "rust")

IssuesOf(n, mismatches) ==
  IF has_potential_padding_risk(structs[n]) THEN analyze_struct_layout(structs[n]) \o mismatches ELSE mismatches

-----------------------------------------------------------------------------
(***************************************************************************)
(* CrossFunctionLifetime.  In a body the i-th call that acquires goes with *)
(* the i-th that releases, whatever their families, and the resource is    *)
(* named by the one that acquires.  A release without its call that        *)
(* acquires is of no resource.                                             *)
(***************************************************************************)
OpsOf(m, f, effects) ==
  SelectSeq(m.bodies[f], LAMBDA x :
    /\ x.kind = "call" /\ x.callee # None
    /\ Effect(x.callee) \in effects
    /\ \E i \in DOMAIN m.calls : m.calls[i].caller = f /\ m.calls[i].callee = x.callee)

make_resource_id(f, x, i) == [function |-> f, callee |-> x.callee, number |-> i]

PairedByCallee(acquired, freed, i) ==   \* mutant: a release names the resource after itself
  i <= Len(freed) /\ freed[i].callee = acquired[i].callee

Paired(acquired, freed, i) == i <= Len(freed)

LifetimeConstraint(id, f, released) ==
  [id |-> id, created_in |-> f, accessible_in |-> {f}, is_released |-> released]

(* Of each resource of a body, where it is created and may be accessed,    *)
(* and whether it is released.  It is accessed by its creator alone, which *)
(* releases it too: nothing is used after its release.                     *)
Constraints(m, f) ==
  LET acquired == OpsOf(m, f, Acquiring)
      freed == OpsOf(m, f, Releasing)
  IN {LifetimeConstraint(make_resource_id(f, acquired[i], i), f, Paired(acquired, freed, i)) : i \in DOMAIN acquired}

extract_resource_ops_from_ir(m) == UNION {Constraints(m, f) : f \in DOMAIN m.bodies}

Callees(m, f) ==
  LET calls == SelectSeq(m.calls, LAMBDA c : c.caller = f) IN [i \in DOMAIN calls |-> calls[i].callee]

propagate_constraints_for_function(m, cs, f) ==
  {IF f \in c.accessible_in THEN [c EXCEPT !.accessible_in = @ \cup Range(Callees(m, f))] ELSE c : c \in cs}

LifetimeViolation(c, type) == [id |-> c.id, type |-> type, location |-> c.created_in]

detect_lifetime_violations(cs) ==
  {LifetimeViolation(c, "ResourceLeak") : c \in {d \in cs : ~d.is_released}}

(* Nothing is stored in the global state, or lives as long as the program. *)
ResourceFate(c, fate, functions) == [id |-> c.id, fate |-> fate, functions |-> functions]

determine_resource_fates(cs) ==
  {CASE c.is_released        -> ResourceFate(c, "Released", {c.created_in})
     [] c.accessible_in # {} -> ResourceFate(c, "Escaped", c.accessible_in)
     [] OTHER                -> ResourceFate(c, "Unknown", {}) : c \in cs}

-----------------------------------------------------------------------------
(***************************************************************************)
(* generate_pattern_candidates: of each fact stated of a pattern, of a     *)
(* narrowing or of a struct, the candidate it is filed as, the verdict     *)
(* given in advance, and whether it has evidence of crossing a boundary.   *)
(***************************************************************************)
Filed(kind, verdict, ffi) == [kind |-> kind, verdict |-> verdict, ffi |-> ffi]

OfPattern ==
  [StackToGlobalEscape |-> Filed("BorrowEscape", "ProbableIssue", TRUE),
   HeapToGlobalEscape  |-> Filed("BorrowEscape", "ProbableIssue", TRUE),
   ReturnAlias         |-> Filed("BorrowEscape", "Diagnostic", TRUE),
   FreeThenCallbackUse |-> Filed("UseAfterFree", "ProbableIssue", TRUE),
   BufferOverflow      |-> Filed("DefiniteLeak", "ConfirmedIssue", FALSE)]

OfStruct    == Filed("AbiLayoutMismatch", "ProbableIssue", TRUE)
OfConfusion == Filed("BoundaryMisuse", "ProbableIssue", TRUE)

(* A function no reader has seen may return a pointer. *)
function_returns_pointer(m, f) ==
  CASE f \in DOMAIN m.functions    -> m.functions[f].ret
    [] f \in DOMAIN m.declarations -> m.declarations[f].ret
    [] OTHER                       -> TRUE

(* An alias is looked at where a caller of another language may take it. *)
AliasMatters(m, f) ==
  ~Is(f, "projection") /\ Is(f, "ffi_like") /\ function_returns_pointer(m, f)

PatternFiled(m, f, p) == p \in DOMAIN OfPattern /\ (p = "ReturnAlias" => AliasMatters(m, f))

FunctionCandidates(m, found, confused, f) ==
  {[subject |-> f, at |-> 0, says |-> p, as |-> OfPattern[p]] : p \in {q \in found[f] : PatternFiled(m, f, q)}}
    \cup {[subject |-> f, at |-> c.at, says |-> c.kind, as |-> OfConfusion] :
            c \in {d \in confused[f] : d.kind = "TypeWidthMismatch"}}

StructCandidates(issues) ==
  UNION {{[subject |-> n, at |-> i, says |-> issues[n][i].kind, as |-> OfStruct] : i \in DOMAIN issues[n]} :
           n \in DOMAIN issues}

-----------------------------------------------------------------------------
VARIABLES stage,          \* "structs", "layout", "resources", "propagate", "candidates", "done" or "panic"
          structIssues,   \* of each struct looked at, its issues in the order they are found
          constraints,    \* the resources of the module, and where each may be accessed
          worklist, analyzed,
          fates, violations,
          candidates

moduleVars == <<stage, structs, structIssues, constraints, worklist, analyzed, fates, violations, candidates>>

ModuleInit ==
  /\ BodyInit
  /\ stage = "structs" /\ structs = <<>> /\ structIssues = <<>> /\ constraints = {} /\ worklist = <<>>
  /\ analyzed = {} /\ fates = {} /\ violations = {} /\ candidates = {}

ParseStructs ==
  /\ stage = "structs" /\ check = "end" /\ stage' = "layout"
  /\ structs' = parse_struct_definitions(Text)
  /\ UNCHANGED <<ffiVars, bodyVars, structIssues, constraints, worklist, analyzed, fates, violations, candidates>>

(* A panic ends the program: no pass comes after it. *)
AbiLayout ==
  /\ stage = "layout"
  /\ IF \E n \in Risky : Panics(structs[n])
       THEN stage' = "panic" /\ UNCHANGED structIssues
       ELSE /\ stage' = "resources"
            /\ \E mismatches \in {Mismatches(Text)} :
                 structIssues' = [n \in Unpacked |-> IssuesOf(n, mismatches)]
  /\ UNCHANGED <<ffiVars, bodyVars, structs, constraints, worklist, analyzed, fates, violations, candidates>>

(* Without an index there is nothing to follow.  The functions to begin    *)
(* with come in the order of a hash map, which is any.                     *)
FindResources ==
  /\ stage = "resources" /\ stage' = IF indexed THEN "propagate" ELSE "candidates"
  /\ IF indexed
       THEN /\ constraints' = extract_resource_ops_from_ir(module)
            /\ worklist' \in SetToSeqs({c.created_in : c \in constraints'})
       ELSE UNCHANGED <<constraints, worklist>>
  /\ UNCHANGED <<ffiVars, bodyVars, structs, structIssues, analyzed, fates, violations, candidates>>

PropagateNext ==
  /\ stage = "propagate" /\ worklist # <<>>
  /\ LET f == Head(worklist)
         held == {c \in constraints : f \in c.accessible_in}
     IN IF f \in analyzed
          THEN worklist' = Tail(worklist) /\ UNCHANGED <<constraints, analyzed>>
          ELSE /\ analyzed' = analyzed \cup {f}
               /\ constraints' = propagate_constraints_for_function(module, constraints, f)
               /\ worklist' = Tail(worklist) \o (IF held = {} THEN <<>> ELSE Callees(module, f))
  /\ UNCHANGED <<ffiVars, bodyVars, stage, structs, structIssues, fates, violations, candidates>>

FinishLifetimes ==
  /\ stage = "propagate" /\ worklist = <<>> /\ stage' = "candidates"
  /\ violations' = detect_lifetime_violations(constraints)
  /\ fates' = determine_resource_fates(constraints)
  /\ UNCHANGED <<ffiVars, bodyVars, structs, structIssues, constraints, worklist, analyzed, candidates>>

FilePatterns ==
  /\ stage = "candidates" /\ stage' = "done"
  /\ candidates' = UNION {FunctionCandidates(module, behaviors, confusions, f) : f \in DOMAIN behaviors}
                     \cup StructCandidates(structIssues)
  /\ UNCHANGED <<ffiVars, bodyVars, structs, structIssues, constraints, worklist, analyzed, fates, violations>>

ModuleNext ==
  \/ BodyNext /\ UNCHANGED moduleVars
  \/ ParseStructs \/ AbiLayout \/ FindResources \/ PropagateNext \/ FinishLifetimes \/ FilePatterns

ModuleSpec == ModuleInit /\ [][ModuleNext]_<<ffiVars, bodyVars, moduleVars>>

-----------------------------------------------------------------------------
(***************************************************************************)
(* Of a struct without vectors that is looked at, the bytes said to be     *)
(* wasted are those the best order of its fields saves, and it is said to  *)
(* be ordered badly exactly when there are some: ordering by alignment and *)
(* size cannot be beaten.  A struct that is passed over wastes nothing if  *)
(* all its fields are scalars of known size.  Behind a field of unknown    *)
(* size (a nested struct) or an array a loss may hide: an i8, a nested     *)
(* struct, an i64 and an i8 take 24 bytes where 16 would do.               *)
(***************************************************************************)
Size(fields) == calculate_struct_size(fields, calculate_struct_alignment(fields))

Smallest(fields) == Min({Size(fs) : fs \in {[i \in DOMAIN fields |-> fields[p[i]]] :
                                              p \in Permutations(DOMAIN fields)}})

Wasted(n) ==
  LET said == SelectSeq(structIssues[n], LAMBDA i : i.kind = "FieldOrdering")
  IN IF said = <<>> THEN 0 ELSE said[1].bytes

KnownScalar(f) == f.type.shape = "scalar" /\ f.size > 0

OrderingsAreBest ==
  stage = "resources" =>
    \A n \in DOMAIN structIssues :
      LET fields == structs[n].fields
      IN /\ \A f \in Range(fields) : f.type.shape # "vector"
         /\ n \in Risky \/ \A f \in Range(fields) : KnownScalar(f)
         => Wasted(n) = Size(fields) - Smallest(fields)

(***************************************************************************)
(* In each function as many calls that acquire are called leaks as there   *)
(* are more of them than of calls that release, the last of them; and      *)
(* whatever order the functions are taken in, a resource may be accessed   *)
(* in its creator, in all that calls, and in nothing it does not lead to.  *)
(***************************************************************************)
Reachable(m, f) ==
  FoldLeft(LAMBDA known, c : known \cup UNION {Range(Callees(m, g)) : g \in known}, {f}, m.calls)

CallsOf(m, f, effects) ==
  Cardinality({i \in DOMAIN m.calls : m.calls[i].caller = f /\ Effect(m.calls[i].callee) \in effects})

LeaksExact ==
  stage = "candidates" /\ indexed =>
    /\ \A f \in DOMAIN module.bodies :
         LET acquired == CallsOf(module, f, Acquiring)
             freed == CallsOf(module, f, Releasing)
         IN {v.id.number : v \in {w \in violations : w.location = f}} = (freed + 1) .. acquired
    /\ \A c \in constraints :
         /\ {c.created_in} \cup Range(Callees(module, c.created_in)) \subseteq c.accessible_in
         /\ c.accessible_in \subseteq Reachable(module, c.created_in)
=============================================================================
