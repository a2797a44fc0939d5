----------------------- MODULE IssueVerificationProofs -----------------------
(***************************************************************************)
(* The verifier never leaves a resource with a reportable fault without    *)
(* one before the issue gate, whatever the candidates are and however many *)
(* (their lists, families and pairs of families are any).  The argument is *)
(* that of the reconciliation: nothing explains a use after release, which *)
(* alone explains a double release, so a chain of silenced candidates ends *)
(* after two steps at one that no cause silences; the most confident of    *)
(* its class is kept, and is reportable since it is at least as confident. *)
(***************************************************************************)
EXTENDS IssueVerification, WellFoundedInduction, FiniteSetTheorems, TLAPS

Verdicts == {"ConfirmedIssue", "ProbableIssue", "Diagnostic", "ExplainedSafe"}

-----------------------------------------------------------------------------
(* Facts about the choices of the reconciliation.                          *)

(* A set of indices that is not empty has a first one.                     *)
LEMMA LeastIndex ==
  ASSUME NEW S \in SUBSET Nat, S # {}
  PROVE  \E i \in S : \A j \in S : i <= j
<1>1. \E i \in S : \A j \in S : <<j, i>> \notin OpToRel(<, Nat)
  BY NatLessThanWellFounded, WFMin
<1>2. PICK i \in S : \A j \in S : <<j, i>> \notin OpToRel(<, Nat)
  BY <1>1
<1>3. \A j \in S : ~(j < i)
  BY <1>2 DEF OpToRel
<1>4. \A j \in S : i <= j
  BY <1>3
<1> QED BY <1>4

(* Verified candidates, by their places.                                   *)
IsVerified(cs) ==
  /\ DOMAIN cs \subseteq Nat
  /\ \A i \in DOMAIN cs : cs[i].verdict \in Verdicts

LEMMA ConfidenceRange ==
  ASSUME NEW cs, IsVerified(cs), NEW i \in DOMAIN cs
  PROVE  verdict_confidence(cs[i]) \in 1 .. 4
BY DEF IsVerified, Verdicts, verdict_confidence, Confidence

(* There is one that outranks the others: the first with the verdict of    *)
(* the highest confidence.                                                 *)
LEMMA SomeOneOutranks ==
  ASSUME NEW cs, IsVerified(cs), NEW S \in SUBSET DOMAIN cs, S # {}
  PROVE  \E i \in S : \A j \in S : Outranks(cs, i, j)
<1> DEFINE Level(n) == {i \in S : verdict_confidence(cs[i]) = n}
<1>1. \A i \in S : verdict_confidence(cs[i]) \in 1 .. 4
  BY ConfidenceRange
<1>2. PICK n \in 1 .. 4 : Level(n) # {} /\ \A m \in 1 .. 4 : m > n => Level(m) = {}
  <2>1. CASE Level(4) # {}
    BY <2>1
  <2>2. CASE Level(4) = {} /\ Level(3) # {}
    BY <2>2
  <2>3. CASE Level(4) = {} /\ Level(3) = {} /\ Level(2) # {}
    BY <2>3
  <2>4. CASE Level(4) = {} /\ Level(3) = {} /\ Level(2) = {}
    BY <2>4, <1>1
  <2> QED BY <2>1, <2>2, <2>3, <2>4
<1>3. Level(n) \in SUBSET Nat
  BY DEF IsVerified
<1>4. PICK i \in Level(n) : \A j \in Level(n) : i <= j
  BY <1>2, <1>3, LeastIndex
<1>5. ASSUME NEW j \in S
      PROVE  Outranks(cs, i, j)
  <2>1. verdict_confidence(cs[j]) \in 1 .. 4 /\ verdict_confidence(cs[j]) <= n
    BY <1>1, <1>2, <1>5
  <2>2. CASE verdict_confidence(cs[j]) = n
    BY <2>2, <1>4 DEF Outranks
  <2>3. CASE verdict_confidence(cs[j]) < n
    BY <2>3, <1>4 DEF Outranks
  <2> QED BY <2>1, <2>2, <2>3
<1> QED BY <1>4, <1>5

(* The class of every candidate is one of the six.                         *)
LEMMA ClassRange ==
  ASSUME NEW cs, NEW i
  PROVE  Class(cs, i) \in FaultClasses
BY Zenon DEF Class, FaultClass, FaultClasses

(* The one kept of a class is of the class, is not silenced, and outranks  *)
(* the others.                                                             *)
LEMMA KeptIsRival ==
  ASSUME NEW cs, IsVerified(cs), NEW R, NEW i \in DOMAIN cs, Causes(cs, R, i) = {}
  PROVE  /\ Kept(cs, R, i) \in Rivals(cs, R, i)
         /\ Outranks(cs, Kept(cs, R, i), i)
<1>1. i \in Rivals(cs, R, i)
  BY DEF Rivals, Group
<1>2. Rivals(cs, R, i) \in SUBSET DOMAIN cs
  BY DEF Rivals, Group
<1>3. \E j \in Rivals(cs, R, i) : \A k \in Rivals(cs, R, i) : Outranks(cs, j, k)
  BY <1>1, <1>2, SomeOneOutranks
<1>4. /\ Kept(cs, R, i) \in Rivals(cs, R, i)
      /\ \A k \in Rivals(cs, R, i) : Outranks(cs, Kept(cs, R, i), k)
  BY <1>3 DEF Kept
<1> QED BY <1>1, <1>4

(* The reportable candidates are those with a reportable verdict.          *)
IsReportable(cs, R) == R = {i \in DOMAIN cs : is_reportable(cs[i].verdict)}

(* What the reconciliation keeps of R.                                     *)
KeptOf(cs, R) == {i \in R : reconcile_candidates(cs, R)[i] = Keep}

(* A reportable candidate without a cause has one of its class that is     *)
(* reportable and kept.                                                    *)
LEMMA UncausedReaches ==
  ASSUME NEW cs, IsVerified(cs), NEW R, IsReportable(cs, R), NEW i \in R, Causes(cs, R, i) = {}
  PROVE  \E j \in KeptOf(cs, R) : j \in Group(cs, i) /\ Class(cs, j) = Class(cs, i)
<1> DEFINE j == Kept(cs, R, i)
<1>1. i \in DOMAIN cs /\ is_reportable(cs[i].verdict)
  BY DEF IsReportable
<1>2. j \in Rivals(cs, R, i) /\ Outranks(cs, j, i)
  BY <1>1, KeptIsRival
<1>3. j \in DOMAIN cs /\ j \in Group(cs, i) /\ Class(cs, j) = Class(cs, i) /\ Causes(cs, R, j) = {}
  BY <1>2 DEF Rivals, Group
<1>4. Rivals(cs, R, j) = Rivals(cs, R, i)
  BY <1>3 DEF Rivals, Group
<1>5. Kept(cs, R, j) = j
  BY <1>4 DEF Kept
<1>6. j \in R
  <2>1. verdict_confidence(cs[i]) >= 3
    BY <1>1 DEF is_reportable, verdict_confidence, Confidence
  <2>2. verdict_confidence(cs[i]) \in 1 .. 4 /\ verdict_confidence(cs[j]) \in 1 .. 4
    BY <1>1, <1>3, ConfidenceRange
  <2>3. verdict_confidence(cs[j]) >= 3
    BY <2>1, <2>2, <1>2 DEF Outranks
  <2>4. cs[j].verdict \in Verdicts
    BY <1>3 DEF IsVerified
  <2>5. is_reportable(cs[j].verdict)
    BY <2>3, <2>4 DEF Verdicts, is_reportable, verdict_confidence, Confidence
  <2> QED BY <2>5, <1>3 DEF IsReportable
<1>7. reconcile_candidates(cs, R)[j] = Keep
  BY <1>3, <1>5 DEF reconcile_candidates, ActionFor
<1> QED BY <1>3, <1>6, <1>7 DEF KeptOf

(* A chain of subsumptions has two steps at most, and begins with a use    *)
(* after release.                                                          *)
LEMMA ChainEnds ==
  ASSUME NEW cs, NEW R, NEW a, NEW b \in Causes(cs, R, a), NEW c \in Causes(cs, R, b)
  PROVE  Causes(cs, R, c) = {}
<1>1. subsumes(Class(cs, b), Class(cs, a)) /\ subsumes(Class(cs, c), Class(cs, b))
  BY DEF Causes
<1>2. Class(cs, c) = "UseAfterRelease"
  BY <1>1 DEF subsumes
<1> QED BY <1>2 DEF Causes, subsumes

(* A reportable candidate has one of its resource that is kept and whose   *)
(* fault explains it.                                                      *)
LEMMA FaultsAreExplained ==
  ASSUME NEW cs, IsVerified(cs), NEW R, IsReportable(cs, R), NEW i \in R
  PROVE  \E j \in KeptOf(cs, R) : j \in Group(cs, i) /\ Explains(Class(cs, j), Class(cs, i))
<1>1. CASE Causes(cs, R, i) = {}
  BY <1>1, UncausedReaches DEF Explains
<1>2. ASSUME NEW c \in Causes(cs, R, i)
      PROVE  \E j \in KeptOf(cs, R) : j \in Group(cs, i) /\ Explains(Class(cs, j), Class(cs, i))
  <2>1. c \in R /\ c \in Group(cs, i) /\ subsumes(Class(cs, c), Class(cs, i))
    BY <1>2 DEF Causes
  <2>2. Class(cs, c) \in FaultClasses
    BY ClassRange
  <2>3. CASE Causes(cs, R, c) = {}
    <3>1. PICK j \in KeptOf(cs, R) : j \in Group(cs, c) /\ Class(cs, j) = Class(cs, c)
      BY <2>1, <2>3, UncausedReaches
    <3>2. j \in Group(cs, i)
      BY <2>1, <3>1 DEF Group
    <3> QED BY <2>1, <3>1, <3>2 DEF Explains
  <2>4. ASSUME NEW d \in Causes(cs, R, c)
        PROVE  \E j \in KeptOf(cs, R) : j \in Group(cs, i) /\ Explains(Class(cs, j), Class(cs, i))
    <3>1. d \in R /\ d \in Group(cs, c) /\ subsumes(Class(cs, d), Class(cs, c))
      BY <2>4 DEF Causes
    <3>2. Causes(cs, R, d) = {}
      BY <1>2, <2>4, ChainEnds
    <3>3. PICK j \in KeptOf(cs, R) : j \in Group(cs, d) /\ Class(cs, j) = Class(cs, d)
      BY <3>1, <3>2, UncausedReaches
    <3>4. j \in Group(cs, i)
      BY <2>1, <3>1, <3>3 DEF Group
    <3> QED BY <2>1, <2>2, <3>1, <3>3, <3>4 DEF Explains
  <2> QED BY <2>3, <2>4
<1> QED BY <1>1, <1>2

-----------------------------------------------------------------------------
(* The inductive invariant.                                                *)

PassAInv ==
  phase \in {"Collect", "Verify"} =>
    /\ verified \in Seq({verified[i] : i \in DOMAIN verified})
    /\ IsVerified(verified)
    /\ IsReportable(verified, reportable)

PassBInv ==
  phase \in {"Emit", "Done"} =>
    \A i \in reportable : \E j \in Emitted :
      j \in Group(verified, i) /\ Explains(Class(verified, j), Class(verified, i))

DoneInv == phase = "Done" => Emitted \subseteq issues \cup suppressed

IInv ==
  /\ phase \in {"Collect", "Verify", "Emit", "Done"}
  /\ PassAInv
  /\ PassBInv
  /\ DoneInv

(* Every candidate gets one of the four verdicts.                          *)
LEMMA VerdictRange == ASSUME NEW c PROVE Verdict(c) \in Verdicts
<1>1. verify_candidate_inner(c) \in Verdicts
  <2>1. CrossFamilyVerdict(c) \in Verdicts /\ DoubleReleaseVerdict(c) \in Verdicts
    BY DEF CrossFamilyVerdict, DoubleReleaseVerdict, Verdicts
  <2>2. ConditionalLeakVerdict(c) \in Verdicts /\ DefiniteLeakVerdict(c) \in Verdicts
    BY DEF ConditionalLeakVerdict, DefiniteLeakVerdict, Verdicts
  <2>3. BorrowEscapeVerdict(c) \in Verdicts
    BY DEF BorrowEscapeVerdict, Verdicts
  <2>4. {"ProbableIssue", "Diagnostic", "ConfirmedIssue", "ExplainedSafe"} \subseteq Verdicts
    BY DEF Verdicts
  <2> QED BY <2>1, <2>2, <2>3, <2>4, Zenon DEF verify_candidate_inner
<1> QED BY <1>1 DEF Verdict, WeighedVerdict, Verdicts

LEMMA InitInv == Init => IInv
<1> SUFFICES ASSUME Init PROVE IInv
  OBVIOUS
<1>1. PassAInv
  BY DEF Init, PassAInv, IsVerified, IsReportable
<1> QED BY <1>1 DEF Init, IInv, PassBInv, DoneInv

(* A turn of the loop adds one verified candidate, and its index if it is  *)
(* reportable.                                                             *)
LEMMA VerifyInv == ASSUME IInv, Verify PROVE IInv'
<1> DEFINE c == Verified(Head(pending))
           S == {verified[i] : i \in DOMAIN verified}
<1>1. verified \in Seq(S \cup {c})
  BY DEF Verify, IInv, PassAInv
<1>2. verified' = Append(verified, c)
  BY DEF Verify
<1>3. /\ Len(verified) \in Nat
      /\ DOMAIN verified = 1 .. Len(verified)
      /\ DOMAIN verified' = 1 .. Len(verified) + 1
      /\ \A i \in DOMAIN verified : verified'[i] = verified[i]
      /\ verified'[Len(verified) + 1] = c
  BY <1>1, <1>2
<1>4. verified' \in Seq({verified'[i] : i \in DOMAIN verified'})
  <2>1. verified' \in Seq(S \cup {c})
    BY <1>1, <1>2
  <2> QED BY <2>1, <1>3
<1>5. c.verdict \in Verdicts
  BY VerdictRange DEF Verified, Stored
<1>6. IsVerified(verified)'
  BY <1>3, <1>5 DEF Verify, IInv, PassAInv, IsVerified
<1>7. IsReportable(verified, reportable)'
  BY <1>3 DEF Verify, IInv, PassAInv, IsReportable
<1> QED BY <1>4, <1>6, <1>7 DEF Verify, IInv, PassAInv, PassBInv, DoneInv

(* The reconciliation changes verdicts only, not whose resource or fault.  *)
LEMMA ReconcileInv == ASSUME IInv, Reconcile PROVE IInv'
<1>1. IsVerified(verified) /\ IsReportable(verified, reportable)
  BY DEF Reconcile, IInv, PassAInv
<1>2. DOMAIN verified' = DOMAIN verified
  BY DEF Reconcile
<1>3. \A i \in DOMAIN verified : /\ verified'[i].kind = verified[i].kind
                                 /\ ResourceKey(verified'[i]) = ResourceKey(verified[i])
  BY DEF Reconcile, Stored, ResourceKey
<1>4. \A i \in DOMAIN verified : /\ Group(verified', i) = Group(verified, i)
                                 /\ Class(verified', i) = Class(verified, i)
  BY <1>2, <1>3 DEF Group, Class
<1>5. reportable \subseteq DOMAIN verified /\ reportable' = reportable
  BY <1>1 DEF Reconcile, IsReportable
<1>6. Emitted' = KeptOf(verified, reportable)
  BY <1>5 DEF Reconcile, Emitted, KeptOf
<1>7. ASSUME NEW i \in reportable
      PROVE  \E j \in Emitted' : /\ j \in Group(verified', i)
                                 /\ Explains(Class(verified', j), Class(verified', i))
  <2>1. PICK j \in KeptOf(verified, reportable) :
          j \in Group(verified, i) /\ Explains(Class(verified, j), Class(verified, i))
    BY <1>1, FaultsAreExplained
  <2>2. i \in DOMAIN verified /\ j \in DOMAIN verified
    BY <1>5, <2>1 DEF KeptOf
  <2> QED BY <2>1, <2>2, <1>4, <1>6
<1>8. PassBInv'
  BY <1>5, <1>7 DEF PassBInv
<1> QED BY <1>8 DEF Reconcile, IInv, PassAInv, DoneInv

(* The steps that leave the candidates and the actions alone.              *)
LEMMA OtherInv ==
  ASSUME IInv, Collect \/ Emit \/ Finish \/ UNCHANGED vars
  PROVE  IInv'
<1>1. verified' = verified /\ reportable' = reportable /\ actions' = actions /\ Emitted' = Emitted
  BY DEF Collect, Emit, Finish, vars, Emitted
<1>2. CASE Collect
  BY <1>1, <1>2 DEF Collect, IInv, PassAInv, PassBInv, DoneInv
<1>3. CASE Emit
  BY <1>1, <1>3 DEF Emit, IInv, PassAInv, PassBInv, DoneInv
<1>4. CASE Finish
  BY <1>1, <1>4 DEF Finish, IInv, PassAInv, PassBInv, DoneInv
<1>5. CASE UNCHANGED vars
  BY <1>1, <1>5 DEF vars, IInv, PassAInv, PassBInv, DoneInv
<1> QED BY <1>2, <1>3, <1>4, <1>5

LEMMA NextInv == IInv /\ [Next]_vars => IInv'
BY VerifyInv, ReconcileInv, OtherInv DEF Next

(***************************************************************************)
(* At the end of the pass each reportable candidate has reached the gate,  *)
(* or one of its resource whose fault is the same or explains it has:      *)
(* IssueVerifierPass::run with reconcile_candidates.                       *)
(***************************************************************************)
THEOREM FaultsReachGate == Spec => []FaultReachesGate
<1>1. IInv => FaultReachesGate
  BY DEF IInv, PassBInv, DoneInv, FaultReachesGate
<1> QED BY InitInv, NextInv, <1>1, PTL DEF Spec

-----------------------------------------------------------------------------
(* Each index of a finite set has a place in its ascending order, the      *)
(* number of those up to it.                                               *)
LEMMA NthReachesAll ==
  ASSUME NEW S, S \subseteq Nat, IsFiniteSet(S), NEW x \in S
  PROVE  \E k \in 1 .. Cardinality(S) : Nth(S, k) = x
<1> DEFINE upto == [t \in S |-> {u \in S : u <= t}]
           k == Cardinality(upto[x])
<1>a. \A t \in S : upto[t] = {u \in S : u <= t}
  OBVIOUS
<1> HIDE DEF upto
<1>1. ASSUME NEW t \in S
      PROVE  /\ IsFiniteSet(upto[t]) /\ Cardinality(upto[t]) \in Nat
             /\ Cardinality(upto[t]) <= Cardinality(S)
  <2>1. upto[t] \in SUBSET S
    BY <1>a
  <2>2. IsFiniteSet(upto[t]) /\ Cardinality(upto[t]) <= Cardinality(S)
    BY <2>1, FS_Subset
  <2> QED BY <2>2, FS_CardinalityType
<1>2. ASSUME NEW t \in S, NEW u \in S, t < u
      PROVE  Cardinality(upto[t]) # Cardinality(upto[u])
  <2>1. upto[t] \in SUBSET upto[u]
    <3>1. \A v \in S : v \in Nat /\ t \in Nat /\ u \in Nat
      OBVIOUS
    <3>2. \A v \in S : v <= t => v <= u
      BY <1>2, <3>1
    <3>3. upto[t] = {v \in S : v <= t} /\ upto[u] = {v \in S : v <= u}
      BY <1>a
    <3> QED BY <3>2, <3>3
  <2>2. u \in upto[u] /\ u \notin upto[t]
    BY <1>a, <1>2
  <2>3. IsFiniteSet(upto[u])
    BY <1>1
  <2>4. Cardinality(upto[u]) = Cardinality(upto[t]) => upto[u] = upto[t]
    BY <2>1, <2>3, FS_Subset
  <2> QED BY <2>2, <2>4
<1>3. k \in 1 .. Cardinality(S)
  <2>1. k \in Nat /\ k <= Cardinality(S)
    BY <1>1
  <2>2. Cardinality(S) \in Nat
    BY FS_CardinalityType
  <2>3. x \in upto[x]
    <3>1. x \in S /\ x <= x
      OBVIOUS
    <3>2. upto[x] = {u \in S : u <= x}
      BY <1>a
    <3> QED BY <3>1, <3>2
  <2>4. IsFiniteSet(upto[x]) /\ upto[x] # {}
    BY <1>1, <2>3
  <2>5. k # 0
    BY <2>4, FS_EmptySet
  <2> QED BY <2>1, <2>2, <2>5
<1>4. ASSUME NEW i \in S, Cardinality({j \in S : j <= i}) = k
      PROVE  i = x
  <2>1. Cardinality(upto[i]) = Cardinality(upto[x])
    BY <1>a, <1>4
  <2>2. ~(i < x) /\ ~(x < i)
    BY <1>2, <2>1
  <2> QED BY <2>2
<1>5. Cardinality({j \in S : j <= x}) = k
  BY <1>a
<1> HIDE DEF k
<1>6. Nth(S, k) = x
  BY <1>4, <1>5 DEF Nth
<1> QED BY <1>3, <1>6

-----------------------------------------------------------------------------
(* The duplicate leaks.                                                    *)

LEMMA PriorityRange ==
  ASSUME NEW c
  PROVE  leak_priority(c) \in 0 .. 3
<1>1. leak_priority(c) \in {0, 1, 2, 3}
  BY Zenon DEF leak_priority
<1> QED BY <1>1

(* Of some leaks there is a strongest, and it is the first of its kind.    *)
LEMMA StrongestLeads ==
  ASSUME NEW cs, DOMAIN cs \subseteq Nat, NEW S, S \subseteq DOMAIN cs, S # {}
  PROVE  /\ Strongest(cs, S) \in S
         /\ \A j \in S : leak_priority(cs[j]) <= leak_priority(cs[Strongest(cs, S)])
<1> DEFINE level == [n \in 0 .. 3 |-> {i \in S : leak_priority(cs[i]) = n}]
<1>a. \A n \in 0 .. 3 : level[n] = {i \in S : leak_priority(cs[i]) = n}
  OBVIOUS
<1> HIDE DEF level
<1>1. \A i \in S : leak_priority(cs[i]) \in 0 .. 3
  BY PriorityRange
<1>2. \E n \in 0 .. 3 : level[n] # {} /\ \A m \in 0 .. 3 : m > n => level[m] = {}
  <2>1. CASE level[3] # {}
    BY <2>1
  <2>2. CASE level[3] = {} /\ level[2] # {}
    BY <2>2
  <2>3. CASE level[3] = {} /\ level[2] = {} /\ level[1] # {}
    BY <2>3
  <2>4. CASE level[3] = {} /\ level[2] = {} /\ level[1] = {}
    <3>1. PICK i \in S : TRUE
      OBVIOUS
    <3>2. leak_priority(cs[i]) = 0
      BY <1>1, <1>a, <2>4
    <3>3. level[0] # {}
      BY <1>a, <3>2
    <3> QED BY <2>4, <3>3
  <2> QED BY <2>1, <2>2, <2>3, <2>4
<1>3. PICK n \in 0 .. 3 : level[n] # {} /\ \A m \in 0 .. 3 : m > n => level[m] = {}
  BY <1>2
<1>4. level[n] \in SUBSET Nat
  BY <1>a
<1>5. PICK i \in level[n] : \A j \in level[n] : i <= j
  BY <1>3, <1>4, LeastIndex
<1>6. i \in S /\ leak_priority(cs[i]) = n
  BY <1>5, <1>a
<1>7. ASSUME NEW j \in S
      PROVE  \/ leak_priority(cs[j]) < leak_priority(cs[i])
             \/ leak_priority(cs[j]) = leak_priority(cs[i]) /\ i <= j
  <2>1. leak_priority(cs[j]) \in 0 .. 3 /\ j \in level[leak_priority(cs[j])]
    BY <1>1, <1>a
  <2>2. leak_priority(cs[j]) <= n
    BY <1>3, <2>1
  <2> QED BY <1>5, <1>6, <2>1, <2>2
<1>8. /\ Strongest(cs, S) \in S
      /\ \A j \in S : \/ leak_priority(cs[j]) < leak_priority(cs[Strongest(cs, S)])
                      \/ /\ leak_priority(cs[j]) = leak_priority(cs[Strongest(cs, S)])
                         /\ Strongest(cs, S) <= j
  BY <1>6, <1>7 DEF Strongest
<1>9. leak_priority(cs[Strongest(cs, S)]) \in 0 .. 3
  BY <1>1, <1>8
<1> QED BY <1>1, <1>8, <1>9

(* The first strategy leaves each leak one at least as strong of the same  *)
(* instance.                                                               *)
LEMMA InstanceKeepsOne ==
  ASSUME NEW cs, DOMAIN cs \subseteq Nat, NEW i \in LeaksOf(cs)
  PROVE  \E s \in LeaksOf(cs) \ SameInstance(cs) :
           leak_priority(cs[s]) >= leak_priority(cs[i]) /\ SameLeak(cs[i], cs[s])
<1>1. leak_priority(cs[i]) \in 0 .. 3
  BY PriorityRange
<1>2. CASE i \notin SameInstance(cs)
  BY <1>1, <1>2 DEF SameLeak
<1>3. CASE i \in SameInstance(cs)
  <2> DEFINE inst == {j \in LeaksOf(cs) : cs[j].rid = cs[i].rid}
             s == Strongest(cs, inst)
  <2>1. inst \subseteq DOMAIN cs /\ i \in inst
    BY DEF LeaksOf
  <2>2. s \in inst /\ leak_priority(cs[i]) <= leak_priority(cs[s])
    BY <2>1, StrongestLeads
  <2>3. {j \in LeaksOf(cs) : cs[j].rid = cs[s].rid} = inst
    BY <2>2
  <2>4. s \notin SameInstance(cs)
    BY <2>3 DEF SameInstance
  <2>5. SameLeak(cs[i], cs[s])
    BY <1>3, <2>2 DEF SameInstance, SameLeak
  <2>6. leak_priority(cs[s]) \in 0 .. 3
    BY PriorityRange
  <2> QED BY <1>1, <2>2, <2>4, <2>5, <2>6
<1> QED BY <1>2, <1>3

(* The second drops a leak of a runtime allocator for one it drops no more.*)
LEMMA CallerKeepsOne ==
  ASSUME NEW cs, DOMAIN cs \subseteq Nat, NEW s \in LeaksOf(cs) \ SameInstance(cs)
  PROVE  \E t \in LeaksOf(cs) \ (SameInstance(cs) \cup SameCaller(cs)) :
           /\ leak_priority(cs[t]) >= leak_priority(cs[s])
           /\ t = s \/ (cs[t].func = cs[s].caller /\ cs[t].family = cs[s].family)
<1>1. leak_priority(cs[s]) \in 0 .. 3
  BY PriorityRange
<1>2. CASE s \notin SameCaller(cs)
  BY <1>1, <1>2
<1>3. CASE s \in SameCaller(cs)
  <2> DEFINE left == LeaksOf(cs) \ SameInstance(cs)
             users == {i \in left : ~is_runtime_alloc_candidate(cs[i])}
             same == {j \in users : cs[j].func = cs[s].caller /\ cs[j].family = cs[s].family}
             t == Strongest(cs, same)
  <2>1. same # {} /\ leak_priority(cs[s]) <= leak_priority(cs[t])
    BY <1>3 DEF SameCaller
  <2>2. same \subseteq DOMAIN cs
    BY DEF LeaksOf
  <2>3. t \in same
    BY <2>1, <2>2, StrongestLeads
  <2>4. t \notin SameCaller(cs)
    BY <2>3 DEF SameCaller
  <2>5. leak_priority(cs[t]) \in 0 .. 3
    BY PriorityRange
  <2> QED BY <1>1, <2>1, <2>3, <2>4, <2>5
<1> QED BY <1>2, <1>3

(* What neither strategy drops is in the list handed on.                   *)
LEMMA KeptIsHandedOn ==
  ASSUME NEW cs \in Lists, NEW t \in LeaksOf(cs) \ (SameInstance(cs) \cup SameCaller(cs))
  PROVE  \E k \in LeaksOf(deduplicate_leak_candidates(cs)) :
           deduplicate_leak_candidates(cs)[k] = cs[t]
<1> DEFINE kept == DOMAIN cs \ (SameInstance(cs) \cup SameCaller(cs))
<1>1. Len(cs) \in Nat /\ DOMAIN cs = 1 .. Len(cs)
  BY ListsAssumption
<1>2. IsFiniteSet(DOMAIN cs)
  BY <1>1, FS_Interval
<1>3. kept \in SUBSET DOMAIN cs
  OBVIOUS
<1>4. IsFiniteSet(kept)
  BY <1>2, <1>3, FS_Subset
<1>5. kept \subseteq Nat
  BY <1>1
<1>6. t \in kept
  BY DEF LeaksOf
<1>7. deduplicate_leak_candidates(cs) = [k \in 1 .. Cardinality(kept) |-> cs[Nth(kept, k)]]
  BY DEF deduplicate_leak_candidates
<1> HIDE DEF kept
<1>8. PICK k \in 1 .. Cardinality(kept) : Nth(kept, k) = t
  BY <1>4, <1>5, <1>6, NthReachesAll
<1>9. /\ k \in DOMAIN deduplicate_leak_candidates(cs)
      /\ deduplicate_leak_candidates(cs)[k] = cs[t]
  BY <1>7, <1>8
<1> QED BY <1>9 DEF LeaksOf

(* Each leak of a list, before and after.                                  *)
LEMMA DedupKeepsLeaks ==
  ASSUME NEW cs \in Lists, NEW i \in LeaksOf(cs)
  PROVE  \E k \in LeaksOf(deduplicate_leak_candidates(cs)), j \in LeaksOf(cs) :
           /\ leak_priority(deduplicate_leak_candidates(cs)[k]) >= leak_priority(cs[i])
           /\ SameLeak(cs[i], cs[j])
           /\ \/ deduplicate_leak_candidates(cs)[k] = cs[j]
              \/ /\ deduplicate_leak_candidates(cs)[k].func = cs[j].caller
                 /\ deduplicate_leak_candidates(cs)[k].family = cs[j].family
<1>1. DOMAIN cs \subseteq Nat
  BY ListsAssumption
<1>2. PICK s \in LeaksOf(cs) \ SameInstance(cs) :
        leak_priority(cs[s]) >= leak_priority(cs[i]) /\ SameLeak(cs[i], cs[s])
  BY <1>1, InstanceKeepsOne
<1>3. PICK t \in LeaksOf(cs) \ (SameInstance(cs) \cup SameCaller(cs)) :
        /\ leak_priority(cs[t]) >= leak_priority(cs[s])
        /\ t = s \/ (cs[t].func = cs[s].caller /\ cs[t].family = cs[s].family)
  BY <1>1, CallerKeepsOne
<1>4. PICK k \in LeaksOf(deduplicate_leak_candidates(cs)) :
        deduplicate_leak_candidates(cs)[k] = cs[t]
  BY KeptIsHandedOn
<1>5. /\ leak_priority(cs[i]) \in 0 .. 3 /\ leak_priority(cs[s]) \in 0 .. 3
      /\ leak_priority(cs[t]) \in 0 .. 3
  BY PriorityRange
<1> QED BY <1>2, <1>3, <1>4, <1>5

(* The list handed on is that of the candidates collected until the loop   *)
(* takes its first.                                                        *)
DedupInv ==
  /\ collected \in Lists
  /\ phase = "Verify" /\ verified = <<>> => pending = deduplicate_leak_candidates(collected)

LEMMA DedupNext == IInv /\ DedupInv /\ [Next]_vars => DedupInv'
<1> SUFFICES ASSUME IInv, DedupInv, [Next]_vars PROVE DedupInv'
  OBVIOUS
<1> USE DEF DedupInv
<1>1. CASE Collect
  BY <1>1 DEF Collect
<1>2. CASE Verify
  <2>1. verified \in Seq({verified[i] : i \in DOMAIN verified})
    BY <1>2 DEF Verify, IInv, PassAInv
  <2>2. verified' = Append(verified, Verified(Head(pending)))
    BY <1>2 DEF Verify
  <2>3. verified' # <<>>
    BY <2>1, <2>2
  <2> QED BY <1>2, <2>3 DEF Verify
<1>3. CASE Reconcile \/ Emit \/ Finish
  BY <1>3 DEF Reconcile, Emit, Finish
<1>4. CASE UNCHANGED vars
  BY <1>4 DEF vars
<1> QED BY <1>1, <1>2, <1>3, <1>4 DEF Next

(***************************************************************************)
(* A leak dropped as a duplicate leaves one at least as strong, of its     *)
(* instance or of the function its instance was allocated for:             *)
(* deduplicate_leak_candidates, for lists of any length.                   *)
(***************************************************************************)
THEOREM LeaksOutliveDedup == Spec => []LeakSurvivesDedup
<1>1. Init => DedupInv
  BY DEF Init, DedupInv
<1>2. DedupInv => LeakSurvivesDedup
  <2> SUFFICES ASSUME DedupInv, phase = "Verify", verified = <<>>,
                      NEW i \in LeaksOf(collected)
               PROVE  \E k \in LeaksOf(pending) :
                        /\ leak_priority(pending[k]) >= leak_priority(collected[i])
                        /\ \/ SameLeak(collected[i], pending[k])
                           \/ \E j \in LeaksOf(collected) :
                                /\ SameLeak(collected[i], collected[j])
                                /\ pending[k].func = collected[j].caller
                                /\ pending[k].family = collected[j].family
    BY DEF LeakSurvivesDedup
  <2>1. collected \in Lists /\ pending = deduplicate_leak_candidates(collected)
    BY DEF DedupInv
  <2>2. PICK k \in LeaksOf(pending), j \in LeaksOf(collected) :
          /\ leak_priority(pending[k]) >= leak_priority(collected[i])
          /\ SameLeak(collected[i], collected[j])
          /\ \/ pending[k] = collected[j]
             \/ pending[k].func = collected[j].caller /\ pending[k].family = collected[j].family
    BY <2>1, DedupKeepsLeaks
  <2>3. CASE pending[k] = collected[j]
    BY <2>2, <2>3
  <2>4. CASE pending[k].func = collected[j].caller /\ pending[k].family = collected[j].family
    BY <2>2, <2>4
  <2> QED BY <2>2, <2>3, <2>4
<1> QED BY InitInv, NextInv, <1>1, DedupNext, <1>2, PTL DEF Spec

-----------------------------------------------------------------------------
(* What is put before the gate.                                            *)

(* What is kept has no cause, and is the one kept of its class.            *)
LEMMA KeptAlone ==
  ASSUME NEW cs, NEW R, IsReportable(cs, R), NEW i \in KeptOf(cs, R)
  PROVE  i \in DOMAIN cs /\ Causes(cs, R, i) = {} /\ Kept(cs, R, i) = i
<1>1. i \in R /\ i \in DOMAIN cs
  BY DEF KeptOf, IsReportable
<1>2. ActionFor(cs, R, i) = Keep
  BY <1>1 DEF KeptOf, reconcile_candidates
<1>3. ActionFor(cs, R, i).tag = "Keep"
  BY <1>2 DEF Keep
<1>4. Causes(cs, R, i) = {}
  BY <1>3 DEF ActionFor
<1>5. Kept(cs, R, i) = i
  BY <1>3, <1>4 DEF ActionFor
<1> QED BY <1>1, <1>4, <1>5

(* Two kept of a resource have faults of two classes, neither of which     *)
(* explains the other.                                                     *)
LEMMA KeptDiffer ==
  ASSUME NEW cs, NEW R, IsReportable(cs, R), NEW i \in KeptOf(cs, R), NEW j \in KeptOf(cs, R),
         j \in Group(cs, i), i # j
  PROVE  Class(cs, j) # Class(cs, i) /\ ~subsumes(Class(cs, j), Class(cs, i))
<1>1. /\ i \in DOMAIN cs /\ Causes(cs, R, i) = {} /\ Kept(cs, R, i) = i
      /\ Kept(cs, R, j) = j /\ j \in R
  BY KeptAlone DEF KeptOf
<1>2. ~subsumes(Class(cs, j), Class(cs, i))
  BY <1>1 DEF Causes
<1>3. ASSUME Class(cs, j) = Class(cs, i)
      PROVE  FALSE
  <2>1. Group(cs, j) = Group(cs, i)
    BY DEF Group
  <2>2. Rivals(cs, R, j) = Rivals(cs, R, i)
    BY <1>3, <2>1 DEF Rivals
  <2>3. Kept(cs, R, j) = Kept(cs, R, i)
    BY <2>2 DEF Kept
  <2> QED BY <1>1, <2>3
<1> QED BY <1>2, <1>3

GateInv ==
  /\ phase \in {"Collect", "Verify"} => issues \cup suppressed = {}
  /\ phase \in {"Emit", "Done"} =>
       /\ issues \cup suppressed \subseteq Emitted
       /\ Emitted \subseteq DOMAIN verified
       /\ \A i, j \in Emitted :
            j \in Group(verified, i) /\ i # j =>
              /\ Class(verified, j) # Class(verified, i)
              /\ ~subsumes(Class(verified, j), Class(verified, i))
       /\ \A i \in DOMAIN verified : is_reportable(verified[i].verdict) = (i \in Emitted)

LEMMA GateReconcile == ASSUME IInv, GateInv, Reconcile PROVE GateInv'
<1>1. IsReportable(verified, reportable)
  BY DEF Reconcile, IInv, PassAInv
<1>2. DOMAIN verified' = DOMAIN verified
  BY DEF Reconcile
<1>3. \A i \in DOMAIN verified : /\ verified'[i].kind = verified[i].kind
                                 /\ ResourceKey(verified'[i]) = ResourceKey(verified[i])
  BY DEF Reconcile, Stored, ResourceKey
<1>4. \A i \in DOMAIN verified : /\ Group(verified', i) = Group(verified, i)
                                 /\ Class(verified', i) = Class(verified, i)
  BY <1>2, <1>3 DEF Group, Class
<1>5. reportable \subseteq DOMAIN verified /\ reportable' = reportable
  BY <1>1 DEF Reconcile, IsReportable
<1>6. Emitted' = KeptOf(verified, reportable)
  BY <1>5 DEF Reconcile, Emitted, KeptOf
<1>7. Emitted' \subseteq DOMAIN verified
  BY <1>5, <1>6 DEF KeptOf
<1>8. ASSUME NEW i \in Emitted', NEW j \in Emitted', j \in Group(verified', i), i # j
      PROVE  /\ Class(verified', j) # Class(verified', i)
             /\ ~subsumes(Class(verified', j), Class(verified', i))
  <2>1. j \in Group(verified, i)
    BY <1>4, <1>7, <1>8
  <2>2. Class(verified, j) # Class(verified, i) /\ ~subsumes(Class(verified, j), Class(verified, i))
    BY <1>1, <1>6, <1>8, <2>1, KeptDiffer
  <2> QED BY <1>4, <1>7, <2>2
<1>9. ASSUME NEW i \in DOMAIN verified'
      PROVE  is_reportable(verified'[i].verdict) = (i \in Emitted')
  <2>1. i \in DOMAIN verified /\ (i \in reportable <=> is_reportable(verified[i].verdict))
    BY <1>1, <1>2, <1>9 DEF IsReportable
  <2>2. actions'[i] = reconcile_candidates(verified, reportable)[i]
    BY DEF Reconcile
  <2>3. i \in Emitted' <=> i \in reportable /\ actions'[i] = Keep
    BY <1>6, <2>2 DEF KeptOf
  <2>4. CASE actions'[i] = Keep
    <3>1. verified'[i] = verified[i]
      BY <2>1, <2>4 DEF Reconcile
    <3> QED BY <2>1, <2>3, <2>4, <3>1 DEF is_reportable
  <2>5. CASE actions'[i] # Keep
    <3>1. verified'[i].verdict = "ExplainedSafe"
      BY <2>1, <2>5 DEF Reconcile, Stored
    <3> QED BY <2>3, <2>5, <3>1 DEF is_reportable
  <2> QED BY <2>4, <2>5
<1>10. phase' = "Emit" /\ issues' \cup suppressed' = {}
  BY DEF Reconcile, GateInv
<1>11. /\ issues' \cup suppressed' \subseteq Emitted'
       /\ Emitted' \subseteq DOMAIN verified'
  BY <1>2, <1>7, <1>10
<1> QED BY <1>8, <1>9, <1>10, <1>11 DEF GateInv

LEMMA GateNext == IInv /\ GateInv /\ [Next]_vars => GateInv'
<1> SUFFICES ASSUME IInv, GateInv, [Next]_vars PROVE GateInv'
  OBVIOUS
<1>1. CASE Collect \/ Verify
  BY <1>1 DEF Collect, Verify, GateInv
<1>2. CASE Reconcile
  BY <1>2, GateReconcile
<1>3. CASE Emit
  <2>1. /\ phase = "Emit" /\ phase' = "Emit" /\ verified' = verified /\ Emitted' = Emitted
        /\ issues' \cup suppressed' \subseteq issues \cup suppressed \cup Emitted
    BY <1>3 DEF Emit, Emitted
  <2> QED BY <2>1 DEF GateInv
<1>4. CASE Finish
  <2>1. /\ phase = "Emit" /\ phase' = "Done" /\ verified' = verified /\ Emitted' = Emitted
        /\ issues' = issues /\ suppressed' = suppressed
    BY <1>4 DEF Finish, Emitted
  <2> QED BY <2>1 DEF GateInv
<1>5. CASE UNCHANGED vars
  <2>1. /\ phase' = phase /\ verified' = verified /\ Emitted' = Emitted
        /\ issues' = issues /\ suppressed' = suppressed
    BY <1>5 DEF vars, Emitted
  <2> QED BY <2>1 DEF GateInv
<1> QED BY <1>1, <1>2, <1>3, <1>4, <1>5 DEF Next

(***************************************************************************)
(* At the end the gate was asked about one candidate of a resource for     *)
(* each kind of fault, about none beside one that explains it, and about   *)
(* those that are stored as reportable: reconcile_candidates and pass B.   *)
(***************************************************************************)
THEOREM GateAskedOnce == Spec => []ReportsNotRedundant
<1>1. Init => GateInv
  BY DEF Init, GateInv
<1>2. IInv /\ GateInv => ReportsNotRedundant
  <2> SUFFICES ASSUME IInv, GateInv, phase = "Done"
               PROVE  /\ \A i, j \in issues \cup suppressed :
                           j \in Group(verified, i) /\ i # j =>
                             /\ Class(verified, j) # Class(verified, i)
                             /\ ~subsumes(Class(verified, j), Class(verified, i))
                      /\ \A i \in DOMAIN verified :
                           is_reportable(verified[i].verdict) = (i \in issues \cup suppressed)
    BY DEF ReportsNotRedundant
  <2>1. issues \cup suppressed = Emitted
    BY DEF IInv, DoneInv, GateInv
  <2> QED BY <2>1 DEF GateInv
<1> QED BY InitInv, NextInv, <1>1, GateNext, <1>2, PTL DEF Spec
=============================================================================
