------------------------- MODULE MCIssueVerification -------------------------
(***************************************************************************)
(* One or two candidates of any kind with each evidence and mark the tests *)
(* look for, and three or four of a few kinds about the same resources.    *)
(***************************************************************************)
EXTENDS IssueVerification

MCCompatibleRelease ==
  {<<f, f>> : f \in {"C_HEAP", "CPP_NEW", "CSHARP_HGLOBAL", "SOCKET"}}
MCLeakable == {"C_HEAP", "CPP_NEW", "CSHARP_HGLOBAL"}

Base(kind, rid, func, caller) ==
  [kind |-> kind, rid |-> rid, func |-> func, caller |-> caller, rcaller |-> NoCaller,
   family |-> "C_HEAP", release |-> NoFamily, evidence |-> {}, semantics |-> "none",
   marks |-> {}, verdict |-> "None"]

OfUser(kind, rid) == Base(kind, rid, "work", NoCaller)
OfRuntime(kind, rid) == Base(kind, rid, "malloc", "work")

With(c, evidence) == [c EXCEPT !.evidence = evidence]
Marking(c, marks) == [c EXCEPT !.marks = marks]
Excused(c, level) == [c EXCEPT !.semantics = level]
Released(c, family) == [c EXCEPT !.release = family, !.marks = {"release function"}]

Levels == {"low", "medium", "high"}

LeakCandidates ==
  LET base == {OfUser(k, r) : k \in Leaks, r \in {0, 1}} \cup {OfRuntime(k, r) : k \in Leaks, r \in 1 .. 2} IN
  base
  \cup {Excused(c, l) : c \in {OfUser("DefiniteLeak", 1), OfRuntime("ConditionalLeak", 2)}, l \in Levels}
  \cup {With(OfRuntime(k, 1), {e}) : k \in Leaks,
          e \in {"ReturnToCaller", "PathStateRefinement", "OwnershipEscapeLeak"}}
  \cup {With(OfRuntime(k, 1), {"OutParamInit", "PathStateRefinement"}) : k \in Leaks}
  \cup {[OfUser(k, 1) EXCEPT !.family = "SOCKET"] : k \in Leaks}
  \cup {Marking(OfRuntime("DefiniteLeak", 1), m) : m \in {{"runtime internal"}, {"runtime internal", "ffi"}}}

FreeCandidates ==
  LET double == {OfUser("DoubleRelease", r) : r \in {0, 1}}
      sameCaller == {[Base("DoubleRelease", r, "free", "work") EXCEPT !.rcaller = "work"] : r \in {0, 1}}
      cross == {Released(OfUser(k, r), f) : k \in {"CrossFamilyFree", "CrossLanguageFree"}, r \in {0, 1},
                                            f \in {"C_HEAP", "CPP_NEW", "CSHARP_HGLOBAL"}} IN
  double \cup cross
  \cup {OfUser(k, 1) : k \in {"CrossFamilyFree", "CrossLanguageFree"}}
  \cup {[Released(OfUser("CrossFamilyFree", 0), "CPP_NEW") EXCEPT !.marks = {}]}
  \cup {With(Released(OfUser("CrossFamilyFree", 1), "CPP_NEW"), {e}) : e \in {"DestructorRelease", "ReturnToCaller"}}
  \cup {Excused(Released(OfUser("CrossFamilyFree", 1), "CPP_NEW"), l) : l \in Levels}
  \cup {With(c, {"MultipleRelease"}) : c \in double \cup sameCaller}
  \cup {With(OfUser("DoubleRelease", 1), {"MultipleRelease", "UseAfterFree"})}
  \cup {With(c, {"NullGuardedRelease"}) : c \in sameCaller
           \cup {[OfRuntime("DoubleRelease", 1) EXCEPT !.rcaller = "other"]}}
  \cup {With(OfUser("DoubleRelease", 1), {"NullGuardedRelease", "NullStoreAfterRelease", "PathStateRefinement"})}
  \cup {Marking(c, m) : c \in sameCaller,
          m \in {{"deallocator"}, {"deallocator", "registers differ"}, {"deallocator", "mutual_exclusive"},
                 {"deallocator", "NotAlias"}, {"NotAlias"}, {"deallocator", "deallocator caller"}}}

MarkedCandidates ==
  {Marking(OfUser(k, 1), {m}) : k \in {"DoubleRelease", "UseAfterFree", "CrossFamilyFree", "DefiniteLeak"},
     m \in {"declaration only", "stdlib", "wrapper", "thunk", "vtable thunk", "thin wrapper", "noise",
            "runtime caller", "allocator"}}
  \cup {Marking(OfUser("UseAfterFree", 1), {m, "ffi"}) : m \in {"wrapper", "allocator"}}

OtherCandidates ==
  {OfUser(k, r) : k \in {"UseAfterRelease", "UseAfterFree", "CallbackEscape", "BorrowEscape", "NeedsModel",
                         "InvalidBorrowedFree", "DoubleReclaim", "UncheckedFfiReturn", "NullDereference",
                         "AbiLayoutMismatch", "BoundaryMisuse"}, r \in {0, 1}}
  \cup {Marking(OfUser("NullDereference", 1), {"ffi"}), With(OfUser("UseAfterRelease", 1), {"ReturnToCaller"})}
  \cup {With(OfUser("BorrowEscape", 0), {e}) : e \in {"GlobalStore", "IrPattern", "BridgeHelper"}}
  \cup {Excused(With(OfUser("BorrowEscape", 0), {"GlobalStore"}), "high"), Excused(OfUser("UseAfterFree", 1), "medium"),
        Marking(With(OfUser("BorrowEscape", 0), {"IrPattern"}), {"escape pattern"})}

MCCandidates == LeakCandidates \cup FreeCandidates \cup MarkedCandidates \cup OtherCandidates

(* About instance 1 or the allocations of work.                            *)
Core ==
  {OfUser("DefiniteLeak", 0), OfUser("ConditionalLeak", 1), OfRuntime("DefiniteLeak", 1), OfRuntime("ConditionalLeak", 1),
   OfRuntime("OwnershipEscapeLeak", 2), With(OfUser("DoubleRelease", 1), {"MultipleRelease"}),
   OfUser("UseAfterFree", 1), OfUser("CallbackEscape", 1), Released(OfUser("CrossFamilyFree", 1), "C_HEAP"),
   Released(OfUser("CrossLanguageFree", 1), "CPP_NEW")}

MCLists ==
  UNION {[1 .. n -> MCCandidates] : n \in 0 .. 2} \cup UNION {[1 .. n -> Core] : n \in 3 .. 4}

=============================================================================
