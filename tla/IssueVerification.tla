-------------------------- MODULE IssueVerification --------------------------
(***************************************************************************)
(* IssueVerifierPass::run: the candidates of three passes are collected,   *)
(* the duplicate leaks among them dropped, each candidate given a verdict, *)
(* the reportable ones of one resource reconciled, and what is kept handed *)
(* to the issue gate of the pass context.                                  *)
(*                                                                         *)
(* A candidate has its kind, instance (rid, 0 for none), function, callers *)
(* of the allocation and the release, families, the kinds of its evidence, *)
(* the confidence of the semantic facts that would excuse it, and marks:   *)
(* the answers the tests on names and on the module give for it.           *)
(***************************************************************************)
EXTENDS Integers, FiniteSets, Sequences

-----------------------------------------------------------------------------
(***************************************************************************)
(* reconcile_candidates: the arbitration among the verified candidates of  *)
(* one resource.  cs is the sequence of verified candidates, R the indices *)
(* of the reportable ones.  A candidate keeps its place; it is told what   *)
(* becomes of it.  A source location is part of the caller here.           *)
(***************************************************************************)


NoCaller == "no caller"

(* Pillar 1: the identity of the resource a candidate is about.            *)
ResourceKey(c) ==
  IF c.rid # 0 THEN <<"Instance", c.rid>>
  ELSE <<"AllocSite", IF c.caller = NoCaller THEN c.func ELSE c.caller, c.func>>

(* Pillar 2: the fault class of a kind.                                    *)
FaultClasses == {"WrongRelease", "DoubleRelease", "UseAfterRelease", "Leak", "BoundaryMisuse", "Unmodeled"}

FaultClass(kind) ==
  CASE kind \in {"CrossFamilyFree", "CrossLanguageFree", "InvalidBorrowedFree"} -> "WrongRelease"
    [] kind \in {"DoubleRelease", "DoubleReclaim"} -> "DoubleRelease"
    [] kind \in {"UseAfterFree", "UseAfterRelease", "CallbackEscape"} -> "UseAfterRelease"
    [] kind \in {"ConditionalLeak", "DefiniteLeak", "OwnershipEscapeLeak"} -> "Leak"
    [] kind = "NeedsModel" -> "Unmodeled"
    [] OTHER -> "BoundaryMisuse"

(* Pillar 3: the fault classes one fault class explains.                   *)
subsumes(cause, symptom) ==
  \/ cause \in {"WrongRelease", "DoubleRelease", "BoundaryMisuse"} /\ symptom = "Leak"
  \/ cause = "UseAfterRelease" /\ symptom = "DoubleRelease"

Confidence ==
  [ConfirmedIssue |-> 4, ProbableIssue |-> 3, Diagnostic |-> 2, ExplainedSafe |-> 1]

verdict_confidence(c) == Confidence[c.verdict]

-----------------------------------------------------------------------------
Group(cs, i) == {j \in DOMAIN cs : ResourceKey(cs[j]) = ResourceKey(cs[i])}

Class(cs, i) == FaultClass(cs[i].kind)

First(S) == CHOOSE i \in S : \A j \in S : i <= j

CausesUnfiltered(cs, R, i) ==   \* mutant: a candidate nobody will see may silence another
  {j \in Group(cs, i) : subsumes(Class(cs, j), Class(cs, i))}

(* Rule 1: only a reportable candidate may silence another.                *)
Causes(cs, R, i) ==
  {j \in Group(cs, i) : subsumes(Class(cs, j), Class(cs, i)) /\ j \in R}

(* Those of one class that no cause silences.                              *)
Rivals(cs, R, i) ==
  {j \in Group(cs, i) : Class(cs, j) = Class(cs, i) /\ Causes(cs, R, j) = {}}

Outranks(cs, i, j) ==
  \/ verdict_confidence(cs[i]) > verdict_confidence(cs[j])
  \/ verdict_confidence(cs[i]) = verdict_confidence(cs[j]) /\ i <= j

KeptOnTie(cs, R, i) ==          \* mutant: equally confident candidates are all kept
  CHOOSE j \in Rivals(cs, R, i) :
    /\ \A k \in Rivals(cs, R, i) : verdict_confidence(cs[j]) >= verdict_confidence(cs[k])
    /\ verdict_confidence(cs[j]) = verdict_confidence(cs[i]) => j = i

(* Rule 2: of one class, the candidate with the most confident verdict.    *)
Kept(cs, R, i) ==
  CHOOSE j \in Rivals(cs, R, i) : \A k \in Rivals(cs, R, i) : Outranks(cs, j, k)

Keep == [tag |-> "Keep", by |-> 0]

(* Rule 2b of the code looks for two leaks that rule 2 left, and never     *)
(* finds them.                                                             *)
ActionFor(cs, R, i) ==
  IF Causes(cs, R, i) # {} THEN [tag |-> "SubsumedBy", by |-> First(Causes(cs, R, i))]
  ELSE IF Kept(cs, R, i) = i THEN Keep
  ELSE [tag |-> "DuplicateOf", by |-> Kept(cs, R, i)]

reconcile_candidates(cs, R) == [i \in DOMAIN cs |-> ActionFor(cs, R, i)]

(* Subsumption in one step or two.                                         *)
Explains(cause, symptom) ==
  \/ cause = symptom
  \/ subsumes(cause, symptom)
  \/ \E c \in FaultClasses : subsumes(cause, c) /\ subsumes(c, symptom)

-----------------------------------------------------------------------------


CONSTANTS Lists,            \* sequences of candidates, in the order they are collected
          CompatibleRelease,\* pairs of families FamilyRegistry::is_compatible_release accepts
          Leakable          \* families of the memory and leakable resource classes

ASSUME ListsAssumption == \A cs \in Lists : Len(cs) \in Nat /\ DOMAIN cs = 1 .. Len(cs)

NoFamily == "no family"

VARIABLES phase, is_single_language,
          collected,        \* what the three passes stored
          pending,          \* candidates not verified yet
          verified, reportable, actions,
          issues, suppressed  \* candidates whose issue the gate let pass, and not

vars == <<phase, is_single_language, collected, pending, verified, reportable, actions,
          issues, suppressed>>

Leaks == {"DefiniteLeak", "ConditionalLeak", "OwnershipEscapeLeak"}

Marked(c, m) == m \in c.marks

-----------------------------------------------------------------------------
(* deduplicate_leak_candidates                                             *)

leak_priority(c) ==
  CASE c.kind = "DefiniteLeak" -> 3 [] c.kind = "ConditionalLeak" -> 2
    [] c.kind = "OwnershipEscapeLeak" -> 1 [] OTHER -> 0

is_runtime_alloc_candidate(c) == c.caller # NoCaller /\ c.caller # c.func

StrongestLast(cs, S) ==         \* mutant: the last leak is taken, whatever its kind
  CHOOSE i \in S : \A j \in S : j <= i

(* The first of the strongest leaks of S.                                  *)
Strongest(cs, S) ==
  CHOOSE i \in S : \A j \in S : \/ leak_priority(cs[j]) < leak_priority(cs[i])
                                \/ leak_priority(cs[j]) = leak_priority(cs[i]) /\ i <= j

LeaksOf(cs) == {i \in DOMAIN cs : cs[i].kind \in Leaks}

(* Strategy 1: one leak per instance.                                      *)
SameInstance(cs) ==
  {i \in LeaksOf(cs) :
     /\ cs[i].rid # 0
     /\ Strongest(cs, {j \in LeaksOf(cs) : cs[j].rid = cs[i].rid}) # i}

(* Strategy 2: a leak of a runtime allocator called in a function with a   *)
(* leak of its own of the same family.                                     *)
SameCaller(cs) ==
  LET left == LeaksOf(cs) \ SameInstance(cs)
      users == {i \in left : ~is_runtime_alloc_candidate(cs[i])}
      same(i) == {j \in users : cs[j].func = cs[i].caller /\ cs[j].family = cs[i].family} IN
  {i \in left \ users :
     /\ same(i) # {}
     /\ leak_priority(cs[i]) <= leak_priority(cs[Strongest(cs, same(i))])}

(* The k-th of a set of indices in ascending order.                        *)
Nth(S, k) == CHOOSE i \in S : Cardinality({j \in S : j <= i}) = k

deduplicate_leak_candidates(cs) ==
  LET kept == DOMAIN cs \ (SameInstance(cs) \cup SameCaller(cs)) IN
  [k \in 1 .. Cardinality(kept) |-> cs[Nth(kept, k)]]

-----------------------------------------------------------------------------
(* EvidenceBundle                                                          *)

has_same_resource_evidence(c) == c.rid # 0 \/ "MultipleRelease" \in c.evidence

has_reachable_release(c) ==
  \/ Marked(c, "release function")
  \/ c.evidence \cap {"SameFamilyRelease", "CrossFamilyMismatch", "MultipleRelease",
                      "PathStateRefinement"} # {}

Escapes == {"ReturnToCaller", "OutParamInit", "OutParamOwnedOnSuccess", "OutParamNullOnError",
            "FieldStoreToOwner", "StaticLifetimeSink"}

(* The facts seen in the code excuse a leak with the highest confidence.   *)
SuppressionHigh(c) ==
  \/ c.semantics = "high"
  \/ c.kind \in Leaks /\ c.evidence \cap Escapes # {}

SuppressionMedium(c) == c.semantics \in {"medium", "high"}

(* With resolutions that carry no confidence as well.                      *)
Suppression(c) == c.semantics # "none" \/ SuppressionHigh(c)

-----------------------------------------------------------------------------
(* verify_candidate_inner                                                  *)

Incompatible(c) == c.release # NoFamily /\ <<c.family, c.release>> \notin CompatibleRelease

KnownPattern(c) == {c.family, c.release} = {"C_HEAP", "CSHARP_HGLOBAL"}

CrossFamilyVerdict(c) ==
  IF c.release = NoFamily THEN "ProbableIssue"
  ELSE IF ~Incompatible(c) \/ KnownPattern(c) THEN "ExplainedSafe"
  ELSE IF ~has_reachable_release(c) /\ ~has_same_resource_evidence(c) THEN "ProbableIssue"
  ELSE IF "DestructorRelease" \in c.evidence THEN "ExplainedSafe"
  ELSE IF \/ c.evidence \cap {"ReturnToCaller", "OutParamInit", "FieldStoreToOwner"} # {}
          \/ Suppression(c)
  THEN "ProbableIssue" ELSE "ConfirmedIssue"

SameCallers(c) == c.caller # NoCaller /\ c.caller = c.rcaller

NullGuarded(c) ==
  /\ "NullGuardedRelease" \in c.evidence
  /\ \/ {"NullStoreAfterRelease", "PathStateRefinement"} \subseteq c.evidence
     \/ NoCaller \notin {c.caller, c.rcaller} /\ c.caller # c.rcaller

(* Two releases by a deallocator in one function: other registers, other   *)
(* branches, or pointers known to differ.                                  *)
MutuallyExclusive(c) ==
  /\ Marked(c, "deallocator") /\ SameCallers(c) /\ "UseAfterFree" \notin c.evidence
  /\ \/ Marked(c, "registers differ") \/ Marked(c, "mutual_exclusive")
     \/ c.rid = 0 /\ Marked(c, "NotAlias")

DoubleReleaseVerdict(c) ==
  IF NullGuarded(c) \/ MutuallyExclusive(c) THEN "ExplainedSafe"
  ELSE IF Marked(c, "NotAlias") \/ ~has_same_resource_evidence(c) THEN "ProbableIssue"
  ELSE IF "UseAfterFree" \in c.evidence THEN "Diagnostic"
  ELSE "ConfirmedIssue"

(* PathStateRefinement stands for two paths that both leak.                *)
DefiniteLeakVerdict(c) ==
  IF c.evidence \cap {"OwnershipEscapeLeak", "PathStateRefinement"} # {} THEN "ConfirmedIssue"
  ELSE IF SuppressionHigh(c) THEN "ExplainedSafe"
  ELSE IF SuppressionMedium(c) THEN "ProbableIssue" ELSE "ConfirmedIssue"

(* PathStateRefinement stands for one path that leaks and one that does    *)
(* not, which leaves the verdict as it is.                                 *)
ConditionalLeakVerdict(c) ==
  IF "OwnershipEscapeLeak" \in c.evidence THEN "ProbableIssue"
  ELSE IF SuppressionHigh(c) \/ (Suppression(c) /\ ~SuppressionMedium(c)) THEN "ExplainedSafe"
  ELSE "ProbableIssue"

ConcreteEscape(c) == "GlobalStore" \in c.evidence \/ Marked(c, "escape pattern")

BorrowEscapeVerdict(c) ==
  IF \/ c.evidence \cap {"BridgeHelper", "OwnershipTransfer"} # {}
     \/ "IrPattern" \in c.evidence /\ ~ConcreteEscape(c)
  THEN "ExplainedSafe" ELSE "ProbableIssue"

verify_candidate_inner(c) ==
  CASE c.kind \in {"DefiniteLeak", "ConditionalLeak"} /\ c.family \notin Leakable -> "ExplainedSafe"
    [] c.kind \in {"CrossFamilyFree", "CrossLanguageFree"} -> CrossFamilyVerdict(c)
    [] c.kind = "UseAfterRelease" /\ "ReturnToCaller" \in c.evidence -> "ProbableIssue"
    [] c.kind = "DoubleRelease" -> DoubleReleaseVerdict(c)
    [] c.kind = "ConditionalLeak" -> ConditionalLeakVerdict(c)
    [] c.kind = "DefiniteLeak" -> DefiniteLeakVerdict(c)
    [] c.kind = "BorrowEscape" -> BorrowEscapeVerdict(c)
    [] c.kind \in {"CallbackEscape", "NeedsModel", "AbiLayoutMismatch"} -> "Diagnostic"
    [] c.kind \in {"OwnershipEscapeLeak", "UncheckedFfiReturn", "BoundaryMisuse"} -> "ProbableIssue"
    [] OTHER -> "ConfirmedIssue"

-----------------------------------------------------------------------------
(* The tests of the loop, in its order.                                    *)

FfiSpecific == {"CrossLanguageFree", "UncheckedFfiReturn", "NullDereference", "CallbackEscape",
                "BorrowEscape"}

Freed == {"DoubleRelease", "UseAfterRelease", "UseAfterFree"}

BridgeLayer(c) ==
  \/ c.kind \in {"CrossLanguageFree", "CrossFamilyFree"} /\ Marked(c, "thunk")
  \/ c.kind \in {"UseAfterFree", "DoubleRelease"} /\ Marked(c, "vtable thunk")
  \/ c.kind = "DoubleRelease" /\ Marked(c, "thin wrapper")

WrapperNoise(c) ==
  /\ Marked(c, "wrapper") /\ ~Marked(c, "ffi")
  /\ c.kind \in {"CrossFamilyFree", "CrossLanguageFree", "OwnershipEscapeLeak", "DoubleRelease",
                 "UseAfterFree"}

(* Explained before any evidence is weighed.                               *)
Screened(c) ==
  \/ c.kind = "DoubleRelease" /\ Marked(c, "declaration only")
  \/ Marked(c, "stdlib")
  \/ WrapperNoise(c)
  \/ BridgeLayer(c)
  \/ is_single_language /\ c.kind \in FfiSpecific /\ ~Marked(c, "ffi")

RuntimeLeak(c) == c.kind \in Leaks /\ Marked(c, "runtime internal") /\ ~Marked(c, "ffi")

StrongResourceEvidence(c) == has_same_resource_evidence(c) /\ has_reachable_release(c)

(* Semantic facts excuse a candidate, or make a confirmed one probable.    *)
WeighedVerdict(c) ==
  IF /\ SuppressionHigh(c) /\ ~StrongResourceEvidence(c)
     /\ ~(c.kind = "BorrowEscape" /\ ConcreteEscape(c))
  THEN "ExplainedSafe"
  ELSE IF /\ verify_candidate_inner(c) = "ConfirmedIssue" /\ ~StrongResourceEvidence(c)
          /\ SuppressionMedium(c) /\ ~SuppressionHigh(c)
  THEN "ProbableIssue"
  ELSE verify_candidate_inner(c)

(* Names that are noise, and releases inside the runtime.                  *)
Noise(c) ==
  \/ Marked(c, "noise")
  \/ c.kind \in Freed /\ Marked(c, "runtime caller")
  \/ /\ c.kind \in Freed /\ ~Marked(c, "ffi")
     /\ \/ Marked(c, "allocator")
        \/ {"deallocator", "deallocator caller"} \subseteq c.marks

Verdict(c) ==
  IF Screened(c) THEN "ExplainedSafe"
  ELSE IF RuntimeLeak(c) THEN "Diagnostic"
  ELSE IF Noise(c) THEN "ExplainedSafe" ELSE WeighedVerdict(c)

is_reportable(verdict) == verdict \in {"ConfirmedIssue", "ProbableIssue"}

(* A reportable cross-language free of the wrong family is a cross-family  *)
(* free.  What the verdict rested on is not needed any more.               *)
VerifiedKind(c) ==
  IF c.kind = "CrossLanguageFree" /\ is_reportable(Verdict(c)) /\ Incompatible(c)
  THEN "CrossFamilyFree" ELSE c.kind

Stored(c, kind, verdict) ==
  [kind |-> kind, rid |-> c.rid, func |-> c.func, caller |-> c.caller, verdict |-> verdict]

Verified(c) == Stored(c, VerifiedKind(c), Verdict(c))

-----------------------------------------------------------------------------
Init ==
  /\ phase = "Collect"
  /\ is_single_language \in BOOLEAN
  /\ collected \in Lists
  /\ pending = <<>> /\ verified = <<>> /\ actions = <<>>
  /\ reportable = {} /\ issues = {} /\ suppressed = {}

(* The three lists, one after the other, without their duplicate leaks.    *)
Collect ==
  /\ phase = "Collect"
  /\ phase' = "Verify"
  /\ pending' = deduplicate_leak_candidates(collected)
  /\ UNCHANGED <<is_single_language, collected, verified, reportable, actions, issues, suppressed>>

(* One turn of the loop.                                                   *)
Verify ==
  /\ phase = "Verify" /\ pending # <<>>
  /\ LET c == Verified(Head(pending)) IN
       /\ verified' = Append(verified, c)
       /\ reportable' = IF is_reportable(c.verdict) THEN reportable \cup {Len(verified) + 1}
                        ELSE reportable
  /\ pending' = Tail(pending)
  /\ UNCHANGED <<phase, is_single_language, collected, actions, issues, suppressed>>

(* Pass B: what is not kept is explained.                                  *)
Reconcile ==
  /\ phase = "Verify" /\ pending = <<>>
  /\ phase' = "Emit"
  /\ actions' = reconcile_candidates(verified, reportable)
  /\ verified' = [i \in DOMAIN verified |->
                    IF actions'[i] = Keep THEN verified[i]
                    ELSE Stored(verified[i], verified[i].kind, "ExplainedSafe")]
  /\ UNCHANGED <<is_single_language, collected, pending, reportable, issues, suppressed>>

Emitted == {i \in reportable : actions[i] = Keep}

(* The next kept candidate, in order, is handed to the issue gate.         *)
Emit ==
  /\ phase = "Emit"
  /\ \E i \in Emitted \ (issues \cup suppressed) :
       /\ \A j \in Emitted : j < i => j \in issues \cup suppressed
       /\ \/ issues' = issues \cup {i} /\ UNCHANGED suppressed
          \/ suppressed' = suppressed \cup {i} /\ UNCHANGED issues
  /\ UNCHANGED <<phase, is_single_language, collected, pending, verified, reportable, actions>>

Finish ==
  /\ phase = "Emit" /\ Emitted = issues \cup suppressed
  /\ phase' = "Done"
  /\ UNCHANGED <<is_single_language, collected, pending, verified, reportable, actions, issues,
                 suppressed>>

Next == Collect \/ Verify \/ Reconcile \/ Emit \/ Finish

Spec == Init /\ [][Next]_vars

-----------------------------------------------------------------------------
TypeOK ==
  /\ phase \in {"Collect", "Verify", "Emit", "Done"}
  /\ is_single_language \in BOOLEAN
  /\ collected \in Lists
  /\ reportable \subseteq DOMAIN verified
  /\ issues \cup suppressed \subseteq DOMAIN verified

(***************************************************************************)
(* When the pass ends, each candidate found reportable has been put before *)
(* the issue gate, or one of the same resource has whose fault is the same *)
(* or explains it, in one step or two: of a resource with a reportable     *)
(* fault the pass is never silent.                                         *)
(***************************************************************************)
FaultReachesGate ==
  phase = "Done" =>
    \A i \in reportable : \E j \in issues \cup suppressed :
      /\ j \in Group(verified, i)
      /\ Explains(Class(verified, j), Class(verified, i))

(***************************************************************************)
(* The gate is asked about one candidate of a resource for each kind of    *)
(* fault, and never about a fault beside one that explains it; and the     *)
(* candidates stored for the later readers are reportable exactly when the *)
(* gate was asked about them.                                              *)
(***************************************************************************)
ReportsNotRedundant ==
  phase = "Done" =>
    /\ \A i, j \in issues \cup suppressed :
         j \in Group(verified, i) /\ i # j =>
           /\ Class(verified, j) # Class(verified, i)
           /\ ~subsumes(Class(verified, j), Class(verified, i))
    /\ \A i \in DOMAIN verified :
         is_reportable(verified[i].verdict) = (i \in issues \cup suppressed)

(***************************************************************************)
(* A leak dropped as a duplicate leaves a leak at least as strong: of its  *)
(* instance, or of the function that the leak of its instance was called   *)
(* in, with the same family.  Two strategies run one after the other, and  *)
(* neither may drop what the other dropped a leak for.                     *)
(***************************************************************************)
SameLeak(c, d) == c = d \/ (c.rid # 0 /\ c.rid = d.rid)

LeakSurvivesDedup ==
  phase = "Verify" /\ verified = <<>> =>
    \A i \in LeaksOf(collected) : \E k \in LeaksOf(pending) :
      /\ leak_priority(pending[k]) >= leak_priority(collected[i])
      /\ \/ SameLeak(collected[i], pending[k])
         \/ \E j \in LeaksOf(collected) :
              /\ SameLeak(collected[i], collected[j])
              /\ pending[k].func = collected[j].caller /\ pending[k].family = collected[j].family

=============================================================================
