------------------------ MODULE ResourcePipelineProofs ------------------------
(***************************************************************************)
(* Proofs about the resource passes, for modules of any number of calls,   *)
(* whatever the tables know of the symbols: which edges of the contract    *)
(* graph consume which instances, and in which order; which leaks are      *)
(* definite; and what the solver, the memory graph and the candidates make *)
(* of the edges.                                                           *)
(***************************************************************************)
EXTENDS ResourcePipeline, WellFoundedInduction, FiniteSetTheorems, SequenceTheorems, TLAPS

-----------------------------------------------------------------------------
(* Lists, whatever is in them. *)

Listed(s) == s \in Seq({s[i] : i \in DOMAIN s})

LEMMA ListedShape ==
  ASSUME NEW s, Listed(s)
  PROVE  Len(s) \in Nat /\ DOMAIN s = 1 .. Len(s)
BY LenProperties DEF Listed

LEMMA ListedWhen ==
  ASSUME NEW T, NEW s \in Seq(T)
  PROVE  Listed(s)
<1>1. Len(s) \in Nat /\ DOMAIN s = 1 .. Len(s) /\ s = [i \in 1 .. Len(s) |-> s[i]]
  <2>1. s \in [1 .. Len(s) -> T]
    BY LenProperties
  <2> QED BY <2>1, LenProperties
<1> DEFINE E == {s[i] : i \in DOMAIN s}
<1>2. s \in [1 .. Len(s) -> E]
  BY <1>1
<1>3. Listed(s) <=> s \in Seq(E)
  BY DEF Listed
<1> HIDE DEF E
<1> QED BY <1>1, <1>2, <1>3

LEMMA ListedAppend ==
  ASSUME NEW s, NEW e, Listed(s)
  PROVE  /\ Listed(Append(s, e))
         /\ Len(Append(s, e)) = Len(s) + 1
         /\ \A i \in 1 .. Len(s) : Append(s, e)[i] = s[i]
         /\ Append(s, e)[Len(s) + 1] = e
<1> DEFINE T == {s[i] : i \in DOMAIN s} \cup {e}
<1>1. s \in Seq(T) /\ e \in T
  BY SeqMonotonic DEF Listed
<1> HIDE DEF T
<1>2. /\ Append(s, e) \in Seq(T)
      /\ Len(Append(s, e)) = Len(s) + 1
      /\ \A i \in 1 .. Len(s) : Append(s, e)[i] = s[i]
      /\ Append(s, e)[Len(s) + 1] = e
  BY <1>1, AppendProperties
<1> QED BY <1>2, ListedWhen

LEMMA ListedConcat ==
  ASSUME NEW s, NEW t, Listed(s), Listed(t)
  PROVE  /\ Listed(s \o t)
         /\ Len(s \o t) = Len(s) + Len(t)
         /\ \A i \in 1 .. Len(s) : (s \o t)[i] = s[i]
         /\ \A i \in 1 .. Len(t) : (s \o t)[Len(s) + i] = t[i]
<1> DEFINE T == {s[i] : i \in DOMAIN s} \cup {t[i] : i \in DOMAIN t}
<1>1. s \in Seq(T) /\ t \in Seq(T)
  BY SeqMonotonic DEF Listed
<1> HIDE DEF T
<1>2. /\ s \o t \in Seq(T)
      /\ Len(s \o t) = Len(s) + Len(t)
      /\ \A i \in 1 .. Len(s) + Len(t) :
           (s \o t)[i] = IF i <= Len(s) THEN s[i] ELSE t[i - Len(s)]
  BY <1>1, ConcatProperties
<1>3. Len(s) \in Nat /\ Len(t) \in Nat
  BY ListedShape
<1>4. \A i \in 1 .. Len(s) : (s \o t)[i] = s[i]
  BY <1>2, <1>3
<1>5. \A i \in 1 .. Len(t) : (s \o t)[Len(s) + i] = t[i]
  <2> SUFFICES ASSUME NEW i \in 1 .. Len(t) PROVE (s \o t)[Len(s) + i] = t[i]
    OBVIOUS
  <2>1. Len(s) + i \in 1 .. Len(s) + Len(t) /\ ~(Len(s) + i <= Len(s)) /\ (Len(s) + i) - Len(s) = i
    BY <1>3
  <2> QED BY <1>2, <2>1
<1> QED BY <1>2, <1>4, <1>5, ListedWhen

LEMMA ListedTail ==
  ASSUME NEW s, Listed(s), s # <<>>
  PROVE  /\ Listed(Tail(s))
         /\ Len(s) \in Nat \ {0}
         /\ Len(Tail(s)) = Len(s) - 1
         /\ \A i \in 1 .. Len(Tail(s)) : Tail(s)[i] = s[i + 1]
         /\ Head(s) = s[1]
<1> DEFINE T == {s[i] : i \in DOMAIN s}
<1>1. s \in Seq(T)
  BY DEF Listed
<1> HIDE DEF T
<1>2. Len(s) \in Nat \ {0}
  BY <1>1, EmptySeq
<1>3. /\ Tail(s) \in Seq(T)
      /\ Len(Tail(s)) = Len(s) - 1
      /\ \A i \in 1 .. Len(Tail(s)) : Tail(s)[i] = s[i + 1]
  BY <1>1, HeadTailProperties
<1>4. Head(s) = s[1]
  BY <1>1, <1>2
<1> QED BY <1>2, <1>3, <1>4, ListedWhen

LEMMA ListedRemove ==
  ASSUME NEW s, Listed(s), NEW n \in 1 .. Len(s)
  PROVE  /\ Listed(RemoveAt(s, n))
         /\ Len(RemoveAt(s, n)) = Len(s) - 1
         /\ \A i \in 1 .. n - 1 : RemoveAt(s, n)[i] = s[i]
         /\ \A i \in n .. Len(s) - 1 : RemoveAt(s, n)[i] = s[i + 1]
<1> DEFINE T == {s[i] : i \in DOMAIN s}
           front == SubSeq(s, 1, n - 1)
           back == SubSeq(s, n + 1, Len(s))
<1>1. Len(s) \in Nat /\ \A i \in 1 .. Len(s) : s[i] \in T
  BY ListedShape
<1> HIDE DEF T
<1>2. /\ front \in Seq(T) /\ Len(front) = n - 1
      /\ \A i \in 1 .. n - 1 : front[i] = s[i]
  <2>1. 1 \in Int /\ n - 1 \in Int /\ \A i \in 1 .. n - 1 : s[i] \in T
    BY <1>1
  <2>2. /\ front \in Seq(T)
        /\ Len(front) = IF 1 <= n - 1 THEN (n - 1) - 1 + 1 ELSE 0
        /\ \A i \in 1 .. (n - 1) - 1 + 1 : front[i] = s[1 + i - 1]
    BY <2>1, SubSeqProperties
  <2> HIDE DEF front
  <2> QED BY <1>1, <2>2
<1>3. /\ back \in Seq(T) /\ Len(back) = Len(s) - n
      /\ \A i \in 1 .. Len(s) - n : back[i] = s[n + i]
  <2>1. n + 1 \in Int /\ Len(s) \in Int /\ \A i \in n + 1 .. Len(s) : s[i] \in T
    BY <1>1
  <2>2. /\ back \in Seq(T)
        /\ Len(back) = IF n + 1 <= Len(s) THEN Len(s) - (n + 1) + 1 ELSE 0
        /\ \A i \in 1 .. Len(s) - (n + 1) + 1 : back[i] = s[(n + 1) + i - 1]
    BY <2>1, SubSeqProperties
  <2> HIDE DEF back
  <2> QED BY <1>1, <2>2
<1>4. RemoveAt(s, n) = front \o back
  BY DEF RemoveAt
<1> HIDE DEF front, back
<1>5. Listed(front) /\ Listed(back)
  BY <1>2, <1>3, ListedWhen
<1>6. /\ Listed(front \o back) /\ Len(front \o back) = Len(front) + Len(back)
      /\ \A i \in 1 .. Len(front) : (front \o back)[i] = front[i]
      /\ \A i \in 1 .. Len(back) : (front \o back)[Len(front) + i] = back[i]
  BY <1>5, ListedConcat
<1>7. \A i \in 1 .. n - 1 : RemoveAt(s, n)[i] = s[i]
  BY <1>1, <1>2, <1>4, <1>6
<1>8. \A i \in n .. Len(s) - 1 : RemoveAt(s, n)[i] = s[i + 1]
  <2> SUFFICES ASSUME NEW i \in n .. Len(s) - 1 PROVE RemoveAt(s, n)[i] = s[i + 1]
    OBVIOUS
  <2> DEFINE j == i - (n - 1)
  <2>1. j \in 1 .. Len(s) - n /\ Len(front) + j = i /\ n + j = i + 1
    BY <1>1, <1>2
  <2>2. j \in 1 .. Len(back)
    BY <1>3, <2>1
  <2> HIDE DEF j
  <2> QED BY <1>3, <1>4, <1>6, <2>1, <2>2
<1>9. Len(front) + Len(back) = Len(s) - 1
  BY <1>1, <1>2, <1>3
<1> QED BY <1>4, <1>6, <1>7, <1>8, <1>9

(* The first of a list to pass a test is before all others that pass it. *)
LEMMA FirstOf ==
  ASSUME NEW I, I \subseteq Nat, I # {}
  PROVE  Min(I) \in I /\ \A i \in I : Min(I) <= i
<1>1. \E n \in I : \A i \in I : <<i, n>> \notin OpToRel(<, Nat)
  BY NatLessThanWellFounded, WFMin
<1>2. PICK n \in I : \A i \in I : ~(i < n)
  BY <1>1 DEF OpToRel
<1>3. \A i \in I : n <= i
  BY <1>2
<1> QED BY <1>3 DEF Min

-----------------------------------------------------------------------------
(* The recursions of the builder, as a first value and a step. *)

(* Induction up to a bound, over a set. *)
LEMMA Ascend ==
  ASSUME NEW M \in Nat, NEW T, 0 \in T, \A i \in 0 .. M - 1 : i \in T => i + 1 \in T
  PROVE  \A i \in 0 .. M : i \in T
<1> DEFINE Out == {i \in 0 .. M : i \notin T}
<1> SUFFICES ASSUME Out # {} PROVE FALSE
  OBVIOUS
<1>1. Out \subseteq Nat
  OBVIOUS
<1>2. Min(Out) \in Out /\ \A i \in Out : Min(Out) <= i
  BY <1>1, FirstOf
<1>3. PICK least \in Out : \A i \in Out : least <= i
  BY <1>2
<1>4. least \in 1 .. M /\ least - 1 \in 0 .. M - 1 /\ (least - 1) + 1 = least /\ ~(least <= least - 1)
  BY <1>3
<1>5. least - 1 \in T
  BY <1>3, <1>4
<1> QED BY <1>3, <1>4, <1>5

(* Picking the numbers of a set out, one by one. *)
LEMMA UpwardSteps ==
  ASSUME NEW calls, NEW last \in Nat
  PROVE  \E f : /\ f[0] = <<>>
                /\ \A n \in 1 .. last : f[n] = (IF n \in calls THEN Append(f[n - 1], n) ELSE f[n - 1])
                /\ Upward(calls, last) = f[last]
<1> DEFINE Rec(f, m) == f = [n \in 0 .. m |-> IF n = 0 THEN <<>>
                                              ELSE (IF n \in calls THEN Append(f[n - 1], n) ELSE f[n - 1])]
           T == {m \in Nat : \E f : Rec(f, m)}
<1>1. 0 \in T
  <2>1. Rec([n \in 0 .. 0 |-> <<>>], 0)
    OBVIOUS
  <2> QED BY <2>1
<1>2. ASSUME NEW m \in 0 .. last - 1, m \in T PROVE m + 1 \in T
  <2>1. PICK f : Rec(f, m)
    BY <1>2
  <2> DEFINE top == (IF m + 1 \in calls THEN Append(f[m], m + 1) ELSE f[m])
             h == [n \in 0 .. m + 1 |-> IF n = m + 1 THEN top ELSE f[n]]
             next(n) == IF n = 0 THEN <<>> ELSE (IF n \in calls THEN Append(h[n - 1], n) ELSE h[n - 1])
  <2>2. m \in Nat /\ m + 1 \in Nat /\ h[m] = f[m]
    OBVIOUS
  <2>3. ASSUME NEW n \in 0 .. m + 1 PROVE h[n] = next(n)
    <3>1. CASE n = m + 1
      <4>1. n # 0 /\ n - 1 = m /\ h[n] = top
        BY <2>2, <3>1
      <4> HIDE DEF h, top
      <4>2. top = (IF n \in calls THEN Append(h[n - 1], n) ELSE h[n - 1])
        BY <2>2, <3>1, <4>1 DEF top
      <4> QED BY <4>1, <4>2
    <3>2. CASE n # m + 1 /\ n # 0
      <4>1. n \in 0 .. m /\ n - 1 \in 0 .. m /\ n # m + 1 /\ n - 1 # m + 1
        BY <2>2, <3>2
      <4>2. h[n] = f[n] /\ h[n - 1] = f[n - 1]
        BY <4>1, <2>2
      <4>3. f[n] = (IF n \in calls THEN Append(f[n - 1], n) ELSE f[n - 1])
        BY <2>1, <3>2, <4>1
      <4> HIDE DEF h
      <4> QED BY <3>2, <4>2, <4>3
    <3>3. CASE n = 0
      <4>1. n \in 0 .. m /\ n # m + 1
        BY <2>2, <3>3
      <4> QED BY <2>1, <3>3, <4>1
    <3> QED BY <3>1, <3>2, <3>3
  <2>4. Rec(h, m + 1)
    <3>1. h = [n \in 0 .. m + 1 |-> h[n]]
      OBVIOUS
    <3> HIDE DEF h
    <3>2. [n \in 0 .. m + 1 |-> h[n]] = [n \in 0 .. m + 1 |-> next(n)]
      BY <2>3
    <3> QED BY <3>1, <3>2
  <2> HIDE DEF Rec, h
  <2> QED BY <2>2, <2>4
<1>3. last \in Nat
  OBVIOUS
<1>4. \E f : Rec(f, last)
  <2> HIDE DEF T
  <2>1. \A m \in 0 .. last : m \in T
    BY <1>1, <1>2, <1>3, Ascend
  <2>2. last \in T
    BY <1>3, <2>1
  <2> QED BY <2>2 DEF T
<1> DEFINE f == CHOOSE f : Rec(f, last)
<1>5. Rec(f, last)
  BY <1>4, Zenon
<1>6. Upward(calls, last) = f[last]
  BY DEF Upward
<1> HIDE DEF f
<1>7. f[0] = <<>>
  BY <1>3, <1>5
<1>8. ASSUME NEW n \in 1 .. last PROVE f[n] = (IF n \in calls THEN Append(f[n - 1], n) ELSE f[n - 1])
  <2>1. n \in 0 .. last /\ n # 0
    BY <1>3
  <2> QED BY <1>5, <2>1
<1> QED BY <1>6, <1>7, <1>8

(* The edges of a summary, one by one. *)
LEMMA SummarySteps ==
  ASSUME NEW g, NEW effects, NEW site, Len(effects) \in Nat
  PROVE  \E f : /\ f[0] = g
                /\ \A n \in 1 .. Len(effects) : f[n] = SummaryEdge(f[n - 1], effects[n], site)
                /\ SummaryEdges(g, effects, site) = f[Len(effects)]
<1> DEFINE Rec(f, m) == f = [n \in 0 .. m |-> IF n = 0 THEN g ELSE SummaryEdge(f[n - 1], effects[n], site)]
           T == {m \in Nat : \E f : Rec(f, m)}
<1>1. 0 \in T
  <2>1. Rec([n \in 0 .. 0 |-> g], 0)
    OBVIOUS
  <2> QED BY <2>1
<1>2. ASSUME NEW m \in 0 .. Len(effects) - 1, m \in T PROVE m + 1 \in T
  <2>1. PICK f : Rec(f, m)
    BY <1>2
  <2> DEFINE top == SummaryEdge(f[m], effects[m + 1], site)
             h == [n \in 0 .. m + 1 |-> IF n = m + 1 THEN top ELSE f[n]]
             next(n) == IF n = 0 THEN g ELSE SummaryEdge(h[n - 1], effects[n], site)
  <2>2. m \in Nat /\ m + 1 \in Nat /\ h[m] = f[m]
    OBVIOUS
  <2>3. ASSUME NEW n \in 0 .. m + 1 PROVE h[n] = next(n)
    <3>1. CASE n = m + 1
      <4>1. n # 0 /\ n - 1 = m /\ h[n] = top
        BY <2>2, <3>1
      <4> HIDE DEF h, top
      <4>2. top = SummaryEdge(h[n - 1], effects[n], site)
        BY <2>2, <3>1, <4>1 DEF top
      <4> QED BY <4>1, <4>2
    <3>2. CASE n # m + 1 /\ n # 0
      <4>1. n \in 0 .. m /\ n - 1 \in 0 .. m /\ n # m + 1 /\ n - 1 # m + 1
        BY <2>2, <3>2
      <4>2. h[n] = f[n] /\ h[n - 1] = f[n - 1]
        BY <4>1, <2>2
      <4>3. f[n] = SummaryEdge(f[n - 1], effects[n], site)
        BY <2>1, <3>2, <4>1
      <4> HIDE DEF h
      <4> QED BY <3>2, <4>2, <4>3
    <3>3. CASE n = 0
      <4>1. n \in 0 .. m /\ n # m + 1
        BY <2>2, <3>3
      <4> QED BY <2>1, <3>3, <4>1
    <3> QED BY <3>1, <3>2, <3>3
  <2>4. Rec(h, m + 1)
    <3>1. h = [n \in 0 .. m + 1 |-> h[n]]
      OBVIOUS
    <3> HIDE DEF h
    <3>2. [n \in 0 .. m + 1 |-> h[n]] = [n \in 0 .. m + 1 |-> next(n)]
      BY <2>3
    <3> QED BY <3>1, <3>2
  <2> HIDE DEF Rec, h
  <2> QED BY <2>2, <2>4
<1>3. Len(effects) \in Nat
  OBVIOUS
<1>4. \E f : Rec(f, Len(effects))
  <2> HIDE DEF T
  <2>1. \A m \in 0 .. Len(effects) : m \in T
    BY <1>1, <1>2, <1>3, Ascend
  <2>2. Len(effects) \in T
    BY <1>3, <2>1
  <2> QED BY <2>2 DEF T
<1> DEFINE f == CHOOSE f : Rec(f, Len(effects))
<1>5. Rec(f, Len(effects))
  BY <1>4, Zenon
<1>6. SummaryEdges(g, effects, site) = f[Len(effects)]
  BY DEF SummaryEdges
<1> HIDE DEF f
<1>7. f[0] = g
  BY <1>3, <1>5
<1>8. ASSUME NEW n \in 1 .. Len(effects) PROVE f[n] = SummaryEdge(f[n - 1], effects[n], site)
  <2>1. n \in 0 .. Len(effects) /\ n # 0
    BY <1>3
  <2> QED BY <1>5, <2>1
<1> QED BY <1>6, <1>7, <1>8

(* The releases of a callee, one by one. *)
LEMMA PairSteps ==
  ASSUME NEW releases, NEW acquires, Len(releases) \in Nat
  PROVE  \E f : /\ f[0] = [graph |-> graph, acquires |-> acquires]
                /\ \A n \in 1 .. Len(releases) : f[n] = PairAcross(f[n - 1], releases[n])
                /\ PairedAcross(releases, acquires) = f[Len(releases)].graph
<1> DEFINE Rec(f, m) == f = [n \in 0 .. m |-> IF n = 0 THEN [graph |-> graph, acquires |-> acquires]
                                              ELSE PairAcross(f[n - 1], releases[n])]
           T == {m \in Nat : \E f : Rec(f, m)}
<1>1. 0 \in T
  <2>1. Rec([n \in 0 .. 0 |-> [graph |-> graph, acquires |-> acquires]], 0)
    OBVIOUS
  <2> QED BY <2>1
<1>2. ASSUME NEW m \in 0 .. Len(releases) - 1, m \in T PROVE m + 1 \in T
  <2>1. PICK f : Rec(f, m)
    BY <1>2
  <2> DEFINE top == PairAcross(f[m], releases[m + 1])
             h == [n \in 0 .. m + 1 |-> IF n = m + 1 THEN top ELSE f[n]]
             next(n) == IF n = 0 THEN [graph |-> graph, acquires |-> acquires]
                        ELSE PairAcross(h[n - 1], releases[n])
  <2>2. m \in Nat /\ m + 1 \in Nat /\ h[m] = f[m]
    OBVIOUS
  <2>3. ASSUME NEW n \in 0 .. m + 1 PROVE h[n] = next(n)
    <3>1. CASE n = m + 1
      <4>1. n # 0 /\ n - 1 = m /\ h[n] = top
        BY <2>2, <3>1
      <4> HIDE DEF h, top
      <4>2. top = PairAcross(h[n - 1], releases[n])
        BY <2>2, <3>1, <4>1 DEF top
      <4> QED BY <4>1, <4>2
    <3>2. CASE n # m + 1 /\ n # 0
      <4>1. n \in 0 .. m /\ n - 1 \in 0 .. m /\ n # m + 1 /\ n - 1 # m + 1
        BY <2>2, <3>2
      <4>2. h[n] = f[n] /\ h[n - 1] = f[n - 1]
        BY <4>1, <2>2
      <4>3. f[n] = PairAcross(f[n - 1], releases[n])
        BY <2>1, <3>2, <4>1
      <4> HIDE DEF h
      <4> QED BY <3>2, <4>2, <4>3
    <3>3. CASE n = 0
      <4>1. n \in 0 .. m /\ n # m + 1
        BY <2>2, <3>3
      <4> QED BY <2>1, <3>3, <4>1
    <3> QED BY <3>1, <3>2, <3>3
  <2>4. Rec(h, m + 1)
    <3>1. h = [n \in 0 .. m + 1 |-> h[n]]
      OBVIOUS
    <3> HIDE DEF h
    <3>2. [n \in 0 .. m + 1 |-> h[n]] = [n \in 0 .. m + 1 |-> next(n)]
      BY <2>3
    <3> QED BY <3>1, <3>2
  <2> HIDE DEF Rec, h
  <2> QED BY <2>2, <2>4
<1>3. Len(releases) \in Nat
  OBVIOUS
<1>4. \E f : Rec(f, Len(releases))
  <2> HIDE DEF T
  <2>1. \A m \in 0 .. Len(releases) : m \in T
    BY <1>1, <1>2, <1>3, Ascend
  <2>2. Len(releases) \in T
    BY <1>3, <2>1
  <2> QED BY <2>2 DEF T
<1> DEFINE f == CHOOSE f : Rec(f, Len(releases))
<1>5. Rec(f, Len(releases))
  BY <1>4, Zenon
<1>6. PairedAcross(releases, acquires) = f[Len(releases)].graph
  BY DEF PairedAcross
<1> HIDE DEF f
<1>7. f[0] = [graph |-> graph, acquires |-> acquires]
  BY <1>3, <1>5
<1>8. ASSUME NEW n \in 1 .. Len(releases) PROVE f[n] = PairAcross(f[n - 1], releases[n])
  <2>1. n \in 0 .. Len(releases) /\ n # 0
    BY <1>3
  <2> QED BY <1>5, <2>1
<1> QED BY <1>6, <1>7, <1>8

-----------------------------------------------------------------------------
(***************************************************************************)
(* What is said of a graph: it is a list of edges and a counter above all  *)
(* instances in use; an instance is acquired at one edge and ended at one  *)
(* at most; and of the acquires of a family that are in the same queue or  *)
(* list, the earlier has the smaller instance and is ended first.          *)
(***************************************************************************)
Acquires(g) == {i \in DOMAIN g.edges : g.edges[i].effect = "Acquire"}

Acquired(g, i) == g.edges[i].result

Ends(g, x) == {i \in DOMAIN g.edges : g.edges[i].effect \in Ending /\ g.edges[i].source = x}

(* The acquires whose instances have not ended. *)
Live(g) == {i \in Acquires(g) : Ends(g, Acquired(g, i)) = {}}

Ids(g) == {Acquired(g, i) : i \in Acquires(g)}

ListFor(e) == IF e.site.by = "fact" THEN Scope(e.site) ELSE e.site.caller

InOneList(e, d) ==
  /\ e.site.by = d.site.by /\ e.site.by # "cross"
  /\ ListFor(e) = ListFor(d) /\ e.family = d.family

GraphShape(g) ==
  /\ g = [edges |-> g.edges, next_instance_id |-> g.next_instance_id]
  /\ Listed(g.edges)
  /\ g.next_instance_id \in Nat \ {0}

InUse(g) ==
  /\ \A i \in Acquires(g) : Acquired(g, i) \in 1 .. g.next_instance_id - 1
  /\ \A i \in DOMAIN g.edges :
       g.edges[i].effect \in Ending => g.edges[i].source \in 0 .. g.next_instance_id - 1

OneBirth(g) == \A i, j \in Acquires(g) : Acquired(g, i) = Acquired(g, j) => i = j

OneEnd(g) == \A i \in Acquires(g) : \A c, d \in Ends(g, Acquired(g, i)) : c = d

Fifo(g) ==
  \A i, j \in Acquires(g) :
    i < j /\ InOneList(g.edges[i], g.edges[j]) =>
      /\ Acquired(g, i) < Acquired(g, j)
      /\ \A c \in Ends(g, Acquired(g, j)) : \E d \in Ends(g, Acquired(g, i)) : d < c

Linear(g) == GraphShape(g) /\ InUse(g) /\ OneBirth(g) /\ OneEnd(g) /\ Fifo(g)

-----------------------------------------------------------------------------
(***************************************************************************)
(* What is said of the builder: a queue of the facts holds the live        *)
(* acquires of its function and family, the oldest first; a function's     *)
(* list holds those of its calls, likewise, once they have edges; and a    *)
(* function whose calls have edges is not met again.                       *)
(***************************************************************************)
Ascending(s) == \A m, n \in DOMAIN s : m < n => s[m] < s[n]

KeyOf(e) == <<Scope(e.site), e.family>>

Queues(g, queues) ==
  /\ \A i \in Acquires(g) : g.edges[i].site.by = "fact"
  /\ \A q \in DOMAIN queues :
       /\ Listed(queues[q]) /\ Ascending(queues[q])
       /\ \A n \in DOMAIN queues[q] :
            \E i \in Live(g) : Acquired(g, i) = queues[q][n] /\ KeyOf(g.edges[i]) = q
  /\ \A i \in Live(g) :
       /\ KeyOf(g.edges[i]) \in DOMAIN queues
       /\ \E n \in DOMAIN queues[KeyOf(g.edges[i])] : queues[KeyOf(g.edges[i])][n] = Acquired(g, i)

QueuesHold == pc \in {"facts", "declared"} => Queues(graph, acquire_instances)

InFunction == {"scan", "releases", "escapes", "reclaims", "callbacks"}

CallEdges(g) == {i \in Acquires(g) : g.edges[i].site.by = "call"}

CallersOnce ==
  pc \in InFunction \cup {"callers"} =>
    /\ pc # "callers" => caller \notin todo
    /\ \A i \in CallEdges(graph) : graph.edges[i].site.caller \notin todo
    /\ pc = "scan" => \A i \in CallEdges(graph) : graph.edges[i].site.caller # caller

(* The ids of the three lists are in use, and those of the acquires are    *)
(* ascending and no others'.                                               *)
ListIds(g, as) ==
  /\ Listed(as)
  /\ \A n \in DOMAIN as : as[n].id \in 1 .. g.next_instance_id - 1
  /\ \A m, n \in DOMAIN as : m < n => as[m].id < as[n].id

OtherIds(g, as, s) ==
  /\ Listed(s)
  /\ \A n \in DOMAIN s :
       /\ s[n].id \in 1 .. g.next_instance_id - 1
       /\ s[n].id \notin Ids(g)
       /\ \A m \in DOMAIN as : as[m].id # s[n].id

ReleasesListed(s) ==
  Listed(s) /\ \A n \in DOMAIN s : s[n].effect \in {"Release", "ConditionalRelease"}

ListsHold ==
  pc \in InFunction => /\ ReleasesListed(func_releases)
                       /\ ListIds(graph, func_acquires)
                       /\ OtherIds(graph, func_acquires, func_escapes)
                       /\ OtherIds(graph, func_acquires, func_reclaims)

(* Acquires of f that have no edge yet. *)
Scanned(g, as, calls, f) ==
  \A n \in DOMAIN as :
    /\ as[n].id \notin Ids(g) /\ Ends(g, as[n].id) = {}
    /\ calls[as[n].call].caller = f
    /\ \A i \in CallEdges(g) : Acquired(g, i) < as[n].id

ScannedAcquires == pc = "scan" => Scanned(graph, func_acquires, Calls, caller)

EdgeFor(g, i, a, f) ==
  /\ i \in CallEdges(g) /\ Acquired(g, i) = a.id
  /\ g.edges[i].site.caller = f /\ g.edges[i].family = a.family

(* Acquires of f that have an edge, and ended just when they are in `gone`. *)
Paired(g, as, f, gone) ==
  /\ \A n \in DOMAIN as : \E i \in CallEdges(g) :
       EdgeFor(g, i, as[n], f) /\ (i \in Live(g) <=> as[n].id \notin gone)
  /\ \A i \in CallEdges(g) : i \in Live(g) /\ g.edges[i].site.caller = f =>
       \E n \in DOMAIN as : as[n].id = Acquired(g, i)

ListHolds ==
  /\ pc \in {"releases", "escapes"} => Paired(graph, func_acquires, caller, {})
  /\ pc = "reclaims" => Paired(graph, func_acquires, caller, escape_claimed)

Fallback ==
  pc = "reclaims" =>
    reclaim_fallback_id \in 0 .. graph.next_instance_id - 1 /\ reclaim_fallback_id \notin Ids(graph)

BuilderInv ==
  /\ module \in Modules /\ k \in Nat \ {0}
  /\ Linear(graph)
  /\ QueuesHold /\ CallersOnce /\ ListsHold /\ ScannedAcquires /\ ListHolds /\ Fallback

-----------------------------------------------------------------------------
(* A graph with one edge more. *)

Adds(g, h, e) ==
  /\ h = [edges |-> Append(g.edges, e), next_instance_id |-> h.next_instance_id]
  /\ h.next_instance_id \in Nat /\ g.next_instance_id <= h.next_instance_id

Top(g) == Len(g.edges) + 1

LEMMA Added ==
  ASSUME NEW g, NEW h, NEW e, GraphShape(g), Adds(g, h, e)
  PROVE  /\ GraphShape(h)
         /\ DOMAIN g.edges = 1 .. Len(g.edges) /\ Len(g.edges) \in Nat
         /\ Top(g) \notin DOMAIN g.edges /\ DOMAIN h.edges = DOMAIN g.edges \cup {Top(g)}
         /\ \A i \in DOMAIN g.edges : h.edges[i] = g.edges[i] /\ i < Top(g)
         /\ h.edges[Top(g)] = e
         /\ Top(h) = Top(g) + 1
<1>1. h.edges = Append(g.edges, e) /\ h.next_instance_id \in Nat \ {0}
  BY DEF Adds, GraphShape
<1>2. h = [edges |-> h.edges, next_instance_id |-> h.next_instance_id]
  BY DEF Adds
<1>3. Len(g.edges) \in Nat /\ DOMAIN g.edges = 1 .. Len(g.edges)
  BY ListedShape DEF GraphShape
<1>4. /\ Listed(h.edges) /\ Len(h.edges) = Len(g.edges) + 1
      /\ \A i \in 1 .. Len(g.edges) : h.edges[i] = g.edges[i]
      /\ h.edges[Len(g.edges) + 1] = e
  BY <1>1, ListedAppend DEF GraphShape
<1>5. DOMAIN h.edges = 1 .. Len(g.edges) + 1
  BY <1>4, ListedShape
<1>6. GraphShape(h)
  BY <1>1, <1>2, <1>4 DEF GraphShape
<1> QED BY <1>3, <1>4, <1>5, <1>6 DEF Top

LEMMA AddedSets ==
  ASSUME NEW g, NEW h, NEW e, GraphShape(g), Adds(g, h, e)
  PROVE  /\ e.effect = "Acquire" => Acquires(h) = Acquires(g) \cup {Top(g)}
         /\ e.effect # "Acquire" => Acquires(h) = Acquires(g)
         /\ \A x : Ends(h, x) =
                     IF e.effect \in Ending /\ e.source = x THEN Ends(g, x) \cup {Top(g)} ELSE Ends(g, x)
         /\ \A i \in Acquires(g) : /\ h.edges[i] = g.edges[i] /\ i < Top(g) /\ i \in Nat
                                   /\ Acquired(h, i) = Acquired(g, i)
         /\ Acquired(h, Top(g)) = e.result
         /\ \A x : \A c \in Ends(g, x) : c \in Nat /\ c < Top(g)
<1>1. /\ DOMAIN g.edges = 1 .. Len(g.edges) /\ Len(g.edges) \in Nat
      /\ Top(g) \notin DOMAIN g.edges /\ DOMAIN h.edges = DOMAIN g.edges \cup {Top(g)}
      /\ \A i \in DOMAIN g.edges : h.edges[i] = g.edges[i] /\ i < Top(g)
      /\ h.edges[Top(g)] = e
  BY Added
<1>2. \A i \in DOMAIN g.edges : i \in Nat
  BY <1>1
<1> QED BY <1>1, <1>2 DEF Acquires, Ends, Acquired

(* Nothing acquired, and nothing that was acquired ended. *)
LEMMA NeutralEdge ==
  ASSUME NEW g, NEW h, NEW e, Linear(g), Adds(g, h, e), e.effect # "Acquire",
         e.effect \in Ending =>
           e.source \in 0 .. h.next_instance_id - 1 /\ e.source \notin Ids(g)
  PROVE  /\ Linear(h)
         /\ Acquires(h) = Acquires(g) /\ Ids(h) = Ids(g) /\ Live(h) = Live(g)
<1>1. GraphShape(g) /\ GraphShape(h)
  BY Added DEF Linear
<1>2. /\ Acquires(h) = Acquires(g)
      /\ \A x : Ends(h, x) =
                  IF e.effect \in Ending /\ e.source = x THEN Ends(g, x) \cup {Top(g)} ELSE Ends(g, x)
      /\ \A i \in Acquires(g) : /\ h.edges[i] = g.edges[i] /\ i \in Nat
                                /\ Acquired(h, i) = Acquired(g, i)
  BY <1>1, AddedSets
<1>3. Ids(h) = Ids(g)
  BY <1>2 DEF Ids
<1>4. \A i \in Acquires(g) : Ends(h, Acquired(h, i)) = Ends(g, Acquired(g, i))
  BY <1>2 DEF Ids
<1>5. Live(h) = Live(g)
  BY <1>2, <1>4 DEF Live
<1>6. InUse(h)
  <2>1. g.next_instance_id \in Nat /\ h.next_instance_id \in Nat
        /\ g.next_instance_id <= h.next_instance_id
    BY DEF Adds, Linear, GraphShape
  <2>2. \A i \in Acquires(h) : Acquired(h, i) \in 1 .. h.next_instance_id - 1
    <3>1. \A i \in Acquires(g) : Acquired(g, i) \in 1 .. g.next_instance_id - 1
      BY DEF Linear, InUse
    <3> QED BY <1>2, <2>1, <3>1
  <2>3. ASSUME NEW i \in DOMAIN h.edges, h.edges[i].effect \in Ending
        PROVE  h.edges[i].source \in 0 .. h.next_instance_id - 1
    <3>1. CASE i = Top(g)
      <4>1. h.edges[i] = e
        BY <1>1, <3>1, Added
      <4> QED BY <2>3, <4>1
    <3>2. CASE i \in DOMAIN g.edges
      <4>1. h.edges[i] = g.edges[i]
        BY <1>1, <3>2, Added
      <4>2. g.edges[i].source \in 0 .. g.next_instance_id - 1
        BY <2>3, <3>2, <4>1 DEF Linear, InUse
      <4> QED BY <2>1, <4>1, <4>2
    <3> QED BY <1>1, <3>1, <3>2, Added
  <2> QED BY <2>2, <2>3 DEF InUse
<1>7. OneBirth(h)
  BY <1>2 DEF Linear, OneBirth
<1>8. OneEnd(h)
  BY <1>2, <1>4 DEF Linear, OneEnd
<1>9. Fifo(h)
  BY <1>2, <1>4 DEF Linear, Fifo
<1> QED BY <1>1, <1>2, <1>3, <1>5, <1>6, <1>7, <1>8, <1>9 DEF Linear

(* A new instance. *)
LEMMA BirthEdge ==
  ASSUME NEW g, NEW h, NEW e, Linear(g), Adds(g, h, e), e.effect = "Acquire",
         e.result \in 1 .. h.next_instance_id - 1, e.result \notin Ids(g),
         Ends(g, e.result) = {},
         \A i \in Acquires(g) : InOneList(g.edges[i], e) => Acquired(g, i) < e.result
  PROVE  /\ Linear(h)
         /\ Acquires(h) = Acquires(g) \cup {Top(g)} /\ Ids(h) = Ids(g) \cup {e.result}
         /\ Live(h) = Live(g) \cup {Top(g)}
<1>1. GraphShape(g) /\ GraphShape(h)
  BY Added DEF Linear
<1>2. /\ Acquires(h) = Acquires(g) \cup {Top(g)}
      /\ \A x : Ends(h, x) = Ends(g, x)
      /\ \A i \in Acquires(g) : /\ h.edges[i] = g.edges[i] /\ i < Top(g) /\ i \in Nat
                                /\ Acquired(h, i) = Acquired(g, i)
      /\ Acquired(h, Top(g)) = e.result
      /\ h.edges[Top(g)] = e /\ Top(g) \in Nat
  <2>1. e.effect \notin Ending
    BY DEF Ending, ReleaseOrCross
  <2>2. Len(g.edges) \in Nat
    BY <1>1, Added
  <2> QED BY <1>1, <2>1, <2>2, AddedSets, Added DEF Top
<1>3. Ids(h) = Ids(g) \cup {e.result}
  BY <1>2 DEF Ids
<1>4. Live(h) = Live(g) \cup {Top(g)}
  BY <1>2 DEF Live
<1>5. InUse(h)
  <2>1. g.next_instance_id \in Nat /\ h.next_instance_id \in Nat
        /\ g.next_instance_id <= h.next_instance_id
    BY DEF Adds, Linear, GraphShape
  <2>2. \A i \in Acquires(h) : Acquired(h, i) \in 1 .. h.next_instance_id - 1
    <3>1. \A i \in Acquires(g) : Acquired(g, i) \in 1 .. g.next_instance_id - 1
      BY DEF Linear, InUse
    <3> QED BY <1>2, <2>1, <3>1
  <2>3. ASSUME NEW i \in DOMAIN h.edges, h.edges[i].effect \in Ending
        PROVE  h.edges[i].source \in 0 .. h.next_instance_id - 1
    <3>1. i # Top(g)
      BY <1>2, <2>3 DEF Ending, ReleaseOrCross
    <3>2. i \in DOMAIN g.edges /\ h.edges[i] = g.edges[i]
      BY <1>1, <3>1, Added
    <3>3. g.edges[i].source \in 0 .. g.next_instance_id - 1
      BY <2>3, <3>2 DEF Linear, InUse
    <3> QED BY <2>1, <3>2, <3>3
  <2> QED BY <2>2, <2>3 DEF InUse
<1>6. OneBirth(h)
  BY <1>2 DEF Linear, OneBirth, Ids
<1>7. OneEnd(h)
  BY <1>2 DEF Linear, OneEnd
<1>8. Fifo(h)
  <2> SUFFICES ASSUME NEW i \in Acquires(h), NEW j \in Acquires(h), i < j,
                      InOneList(h.edges[i], h.edges[j])
               PROVE  /\ Acquired(h, i) < Acquired(h, j)
                      /\ \A c \in Ends(h, Acquired(h, j)) : \E d \in Ends(h, Acquired(h, i)) : d < c
    BY DEF Fifo
  <2>1. i \in Acquires(g)
    BY <1>2
  <2>2. CASE j \in Acquires(g)
    BY <1>2, <2>1, <2>2 DEF Linear, Fifo
  <2>3. CASE j = Top(g)
    BY <1>2, <2>1, <2>3
  <2> QED BY <1>2, <2>2, <2>3
<1> QED BY <1>1, <1>2, <1>3, <1>4, <1>5, <1>6, <1>7, <1>8 DEF Linear

(* The end of an instance that no earlier one of its list outlives. *)
LEMMA EndEdge ==
  ASSUME NEW g, NEW h, NEW e, NEW j, Linear(g), Adds(g, h, e), e.effect \in Ending,
         j \in Live(g), e.source = Acquired(g, j),
         \A i \in Live(g) : i < j => ~InOneList(g.edges[i], g.edges[j])
  PROVE  /\ Linear(h)
         /\ Acquires(h) = Acquires(g) /\ Ids(h) = Ids(g) /\ Live(h) = Live(g) \ {j}
<1>1. GraphShape(g) /\ GraphShape(h)
  BY Added DEF Linear
<1>2. e.effect # "Acquire"
  BY DEF Ending, ReleaseOrCross
<1>3. /\ Acquires(h) = Acquires(g)
      /\ \A x : Ends(h, x) = IF e.source = x THEN Ends(g, x) \cup {Top(g)} ELSE Ends(g, x)
      /\ \A i \in Acquires(g) : /\ h.edges[i] = g.edges[i] /\ i \in Nat
                                /\ Acquired(h, i) = Acquired(g, i)
      /\ \A x : \A c \in Ends(g, x) : c \in Nat /\ c < Top(g)
  BY <1>1, <1>2, AddedSets
<1>4. j \in Acquires(g) /\ Ends(g, Acquired(g, j)) = {}
  BY DEF Live
<1>5. /\ Ends(h, Acquired(h, j)) = {Top(g)}
      /\ \A i \in Acquires(g) : i # j => /\ Ends(h, Acquired(h, i)) = Ends(g, Acquired(g, i))
                                         /\ Acquired(g, i) # Acquired(g, j)
  <2>1. \A i \in Acquires(g) : i # j => Acquired(g, i) # Acquired(g, j)
    BY <1>4 DEF Linear, OneBirth
  <2> QED BY <1>3, <1>4, <2>1
<1>6. Ids(h) = Ids(g)
  BY <1>3 DEF Ids
<1>7. Live(h) = Live(g) \ {j}
  BY <1>3, <1>4, <1>5 DEF Live
<1>8. InUse(h)
  <2>1. g.next_instance_id \in Nat /\ h.next_instance_id \in Nat
        /\ g.next_instance_id <= h.next_instance_id
    BY DEF Adds, Linear, GraphShape
  <2>2. \A i \in Acquires(g) : Acquired(g, i) \in 1 .. h.next_instance_id - 1
    <3>1. \A i \in Acquires(g) : Acquired(g, i) \in 1 .. g.next_instance_id - 1
      BY DEF Linear, InUse
    <3> QED BY <2>1, <3>1
  <2>3. ASSUME NEW i \in DOMAIN h.edges, h.edges[i].effect \in Ending
        PROVE  h.edges[i].source \in 0 .. h.next_instance_id - 1
    <3>1. CASE i = Top(g)
      <4>1. h.edges[i] = e
        BY <1>1, <3>1, Added
      <4> QED BY <1>4, <2>1, <2>2, <4>1
    <3>2. CASE i \in DOMAIN g.edges
      <4>1. h.edges[i] = g.edges[i]
        BY <1>1, <3>2, Added
      <4>2. g.edges[i].source \in 0 .. g.next_instance_id - 1
        BY <2>3, <3>2, <4>1 DEF Linear, InUse
      <4> QED BY <2>1, <4>1, <4>2
    <3> QED BY <1>1, <3>1, <3>2, Added
  <2> QED BY <1>3, <2>2, <2>3 DEF InUse
<1>9. OneBirth(h)
  BY <1>3 DEF Linear, OneBirth
<1>10. OneEnd(h)
  BY <1>3, <1>5 DEF Linear, OneEnd
<1>11. Fifo(h)
  <2> SUFFICES ASSUME NEW i \in Acquires(g), NEW l \in Acquires(g), i < l,
                      InOneList(g.edges[i], g.edges[l])
               PROVE  /\ Acquired(g, i) < Acquired(g, l)
                      /\ \A c \in Ends(h, Acquired(h, l)) : \E d \in Ends(h, Acquired(h, i)) : d < c
    BY <1>3 DEF Fifo
  <2>1. /\ Acquired(g, i) < Acquired(g, l)
        /\ \A c \in Ends(g, Acquired(g, l)) : \E d \in Ends(g, Acquired(g, i)) : d < c
    BY DEF Linear, Fifo
  <2>2. CASE l = j
    <3>1. i \notin Live(g) /\ i # j
      BY <1>3, <2>2
    <3>2. PICK d \in Ends(g, Acquired(g, i)) : TRUE
      BY <3>1 DEF Live
    <3>3. d < Top(g) /\ d \in Ends(h, Acquired(h, i))
      BY <1>3, <1>5, <3>1, <3>2
    <3> QED BY <1>5, <2>1, <2>2, <3>3
  <2>3. CASE l # j
    <3>1. Ends(h, Acquired(h, l)) = Ends(g, Acquired(g, l))
      BY <1>5, <2>3
    <3>2. Ends(g, Acquired(g, i)) \subseteq Ends(h, Acquired(h, i))
      BY <1>3
    <3> QED BY <2>1, <3>1, <3>2
  <2> QED BY <2>2, <2>3
<1> QED BY <1>1, <1>3, <1>6, <1>7, <1>8, <1>9, <1>10, <1>11 DEF Linear

-----------------------------------------------------------------------------
(* What the builder does to its graph. *)

LEMMA GraphOps ==
  ASSUME NEW g, NEW e, GraphShape(g)
  PROVE  /\ Adds(g, add_edge(g, e), e)
         /\ Adds(g, add_edge(alloc_instance(g), e), e)
         /\ add_edge(g, e).next_instance_id = g.next_instance_id
         /\ add_edge(alloc_instance(g), e).next_instance_id = g.next_instance_id + 1
         /\ g.next_instance_id \in Nat \ {0}
<1>1. /\ g = [edges |-> g.edges, next_instance_id |-> g.next_instance_id]
      /\ g.next_instance_id \in Nat \ {0}
  BY DEF GraphShape
<1> DEFINE es == g.edges
           n == g.next_instance_id
<1>2. g = [edges |-> es, next_instance_id |-> n] /\ n \in Nat \ {0} /\ es = g.edges /\ n = g.next_instance_id
  BY <1>1
<1> HIDE DEF es, n
<1> DEFINE more == Append(es, e)
<1>3. add_edge(g, e) = [edges |-> more, next_instance_id |-> n]
  <2>1. add_edge(g, e) = [g EXCEPT !.edges = more]
    BY <1>2 DEF add_edge
  <2> HIDE DEF more
  <2> QED BY <1>2, <2>1
<1>4. alloc_instance(g) = [edges |-> es, next_instance_id |-> n + 1]
  BY <1>2 DEF alloc_instance
<1>5. add_edge(alloc_instance(g), e) = [edges |-> more, next_instance_id |-> n + 1]
  <2>1. alloc_instance(g).edges = es
    BY <1>4
  <2>2. add_edge(alloc_instance(g), e) = [alloc_instance(g) EXCEPT !.edges = more]
    BY <2>1 DEF add_edge
  <2> HIDE DEF more
  <2> QED BY <1>4, <2>2
<1>6. more = Append(g.edges, e)
  BY <1>2
<1> HIDE DEF more
<1>7. Adds(g, add_edge(g, e), e)
  <2>1. add_edge(g, e).next_instance_id = n /\ n <= n
    BY <1>2, <1>3
  <2> QED BY <1>2, <1>3, <1>6, <2>1 DEF Adds
<1>8. Adds(g, add_edge(alloc_instance(g), e), e)
  <2>1. add_edge(alloc_instance(g), e).next_instance_id = n + 1 /\ n <= n + 1 /\ n + 1 \in Nat
    BY <1>2, <1>5
  <2> QED BY <1>2, <1>5, <1>6, <2>1 DEF Adds
<1> QED BY <1>2, <1>3, <1>5, <1>7, <1>8

(* An id that is taken and used for no edge yet changes nothing.           *)
LEMMA Allocated ==
  ASSUME NEW g, Linear(g)
  PROVE  /\ Linear(alloc_instance(g))
         /\ alloc_instance(g).edges = g.edges
         /\ alloc_instance(g).next_instance_id = g.next_instance_id + 1
         /\ g.next_instance_id \in Nat \ {0}
<1> DEFINE h == alloc_instance(g)
<1>1. /\ g = [edges |-> g.edges, next_instance_id |-> g.next_instance_id]
      /\ g.next_instance_id \in Nat \ {0} /\ Listed(g.edges)
  BY DEF Linear, GraphShape
<1>2. h = [edges |-> g.edges, next_instance_id |-> g.next_instance_id + 1]
  BY <1>1 DEF alloc_instance
<1>3. h.edges = g.edges /\ h.next_instance_id = g.next_instance_id + 1
  BY <1>2
<1> HIDE DEF h
<1>4. GraphShape(h)
  BY <1>1, <1>2, <1>3 DEF GraphShape
<1>5. /\ Acquires(h) = Acquires(g)
      /\ \A i : Acquired(h, i) = Acquired(g, i)
      /\ \A x : Ends(h, x) = Ends(g, x)
  BY <1>3 DEF Acquires, Acquired, Ends
<1>6. InUse(h)
  <2>1. ASSUME NEW i \in Acquires(g) PROVE Acquired(g, i) \in 1 .. (g.next_instance_id + 1) - 1
    <3>1. Acquired(g, i) \in 1 .. g.next_instance_id - 1
      BY DEF Linear, InUse
    <3> QED BY <1>1, <3>1
  <2>2. ASSUME NEW i \in DOMAIN g.edges, g.edges[i].effect \in Ending
        PROVE  g.edges[i].source \in 0 .. (g.next_instance_id + 1) - 1
    <3>1. g.edges[i].source \in 0 .. g.next_instance_id - 1
      BY <2>2 DEF Linear, InUse
    <3> QED BY <1>1, <3>1
  <2> QED BY <1>3, <1>5, <2>1, <2>2 DEF InUse
<1>7. OneBirth(h) /\ OneEnd(h) /\ Fifo(h)
  BY <1>3, <1>5 DEF Linear, OneBirth, OneEnd, Fifo
<1>8. Linear(h)
  BY <1>4, <1>6, <1>7 DEF Linear
<1> QED BY <1>1, <1>3, <1>8 DEF h

(* The ids in use are below the counter, which is the next of them.        *)
LEMMA Unused ==
  ASSUME NEW g, Linear(g)
  PROVE  /\ g.next_instance_id \in Nat \ {0}
         /\ \A x : x >= g.next_instance_id /\ x \in Nat => x \notin Ids(g) /\ Ends(g, x) = {}
         /\ \A i \in Acquires(g) : /\ Acquired(g, i) \in Nat \ {0}
                                   /\ Acquired(g, i) < g.next_instance_id
         /\ 0 \notin Ids(g)
<1>1. g.next_instance_id \in Nat \ {0}
  BY DEF Linear, GraphShape
<1>2. \A i \in Acquires(g) : Acquired(g, i) \in 1 .. g.next_instance_id - 1
  BY DEF Linear, InUse
<1>3. \A i \in DOMAIN g.edges :
        g.edges[i].effect \in Ending => g.edges[i].source \in 0 .. g.next_instance_id - 1
  BY DEF Linear, InUse
<1>4. \A x : x >= g.next_instance_id /\ x \in Nat => Ends(g, x) = {}
  BY <1>1, <1>3 DEF Ends
<1>5. \A x : x >= g.next_instance_id /\ x \in Nat => x \notin Ids(g)
  BY <1>1, <1>2 DEF Ids
<1> QED BY <1>1, <1>2, <1>4, <1>5 DEF Ids

-----------------------------------------------------------------------------
(* The facts. *)

(* What holds of the graph and the queues when a fact is looked at. *)
FactsHold == Linear(graph) /\ Queues(graph, acquire_instances)

LEMMA AcquireFactStep ==
  ASSUME FactsHold, NEW site, site.by = "fact", RawAcquire(site)
  PROVE  Linear(graph') /\ Queues(graph', acquire_instances')
<1> USE DEF FactsHold
<1>1. CASE site.callee \in NonAllocator
  <2>1. graph' = graph /\ acquire_instances' = acquire_instances
    BY <1>1 DEF RawAcquire
  <2> QED BY <2>1 DEF FactsHold
<1>2. CASE site.callee \notin NonAllocator
  <2> DEFINE family == Registry[site.callee].family
             id == graph.next_instance_id
             e == AcquireEdge(id, family, site)
             key == <<Scope(site), family>>
             longer == Append(Queue(key), id)
  <2>1. /\ graph' = add_edge(alloc_instance(graph), e)
        /\ acquire_instances' = [q \in DOMAIN acquire_instances \cup {key} |->
                                   IF q = key THEN longer ELSE Queue(q)]
    BY <1>2 DEF RawAcquire
  <2>2. /\ e.effect = "Acquire" /\ e.result = id /\ e.site = site /\ e.family = family
        /\ KeyOf(e) = key
    BY DEF AcquireEdge, ContractEdge, KeyOf
  <2> HIDE DEF e
  <2>3. /\ Adds(graph, graph', e) /\ graph'.next_instance_id = id + 1 /\ id \in Nat \ {0}
    BY <2>1, GraphOps DEF Linear
  <2>4. id \notin Ids(graph) /\ Ends(graph, id) = {}
    BY <2>3, Unused
  <2>5. \A i \in Acquires(graph) : Acquired(graph, i) \in Nat /\ Acquired(graph, i) < id
    BY Unused
  <2>6. id \in 1 .. graph'.next_instance_id - 1
    BY <2>3
  <2>7. /\ Linear(graph')
        /\ Acquires(graph') = Acquires(graph) \cup {Top(graph)}
        /\ Live(graph') = Live(graph) \cup {Top(graph)}
    BY <2>2, <2>3, <2>4, <2>5, <2>6, BirthEdge
  <2>8. /\ \A i \in Acquires(graph) : /\ graph'.edges[i] = graph.edges[i]
                                      /\ Acquired(graph', i) = Acquired(graph, i)
        /\ graph'.edges[Top(graph)] = e /\ Acquired(graph', Top(graph)) = id
    BY <2>2, <2>3, AddedSets, Added DEF Linear
  <2>9. Live(graph) \subseteq Acquires(graph)
    BY DEF Live
  <2>10. Listed(Queue(key)) /\ Ascending(Queue(key))
         /\ \A n \in DOMAIN Queue(key) : Queue(key)[n] \in Nat /\ Queue(key)[n] < id
    <3>1. CASE key \in DOMAIN acquire_instances
      <4>1. Queue(key) = acquire_instances[key]
        BY <3>1 DEF Queue
      <4>2. Listed(acquire_instances[key]) /\ Ascending(acquire_instances[key])
        BY <3>1 DEF Queues
      <4>3. \A n \in DOMAIN acquire_instances[key] :
              \E i \in Live(graph) : Acquired(graph, i) = acquire_instances[key][n]
        BY <3>1 DEF Queues
      <4> QED BY <2>5, <2>9, <4>1, <4>2, <4>3
    <3>2. CASE key \notin DOMAIN acquire_instances
      <4>1. Queue(key) = <<>>
        BY <3>2 DEF Queue
      <4>2. Listed(<<>>) /\ DOMAIN <<>> = {}
        <5>1. <<>> \in Seq(Nat) /\ Len(<<>>) = 0
          BY EmptySeq
        <5>2. Listed(<<>>)
          BY <5>1, ListedWhen
        <5>3. DOMAIN <<>> = 1 .. 0
          BY <5>1, <5>2, ListedShape
        <5> QED BY <5>2, <5>3
      <4> QED BY <4>1, <4>2 DEF Ascending
    <3> QED BY <3>1, <3>2
  <2>11. /\ Listed(longer) /\ Ascending(longer)
         /\ DOMAIN longer = DOMAIN Queue(key) \cup {Len(Queue(key)) + 1}
         /\ \A n \in DOMAIN Queue(key) : longer[n] = Queue(key)[n]
         /\ longer[Len(Queue(key)) + 1] = id
    <3>1. Len(Queue(key)) \in Nat /\ DOMAIN Queue(key) = 1 .. Len(Queue(key))
      BY <2>10, ListedShape
    <3>2. /\ Listed(longer) /\ Len(longer) = Len(Queue(key)) + 1
          /\ \A n \in 1 .. Len(Queue(key)) : longer[n] = Queue(key)[n]
          /\ longer[Len(Queue(key)) + 1] = id
      BY <2>10, ListedAppend
    <3>3. DOMAIN longer = 1 .. Len(Queue(key)) + 1
      BY <3>2, ListedShape
    <3> HIDE DEF longer
    <3>4. Ascending(longer)
      <4> SUFFICES ASSUME NEW m \in DOMAIN longer, NEW n \in DOMAIN longer, m < n
                   PROVE  longer[m] < longer[n]
        BY DEF Ascending
      <4>1. m \in DOMAIN Queue(key) /\ longer[m] = Queue(key)[m]
        BY <3>1, <3>2, <3>3
      <4>2. CASE n = Len(Queue(key)) + 1
        BY <2>10, <3>2, <4>1, <4>2
      <4>3. CASE n \in DOMAIN Queue(key)
        BY <2>10, <3>1, <3>2, <4>1, <4>3 DEF Ascending
      <4> QED BY <3>1, <3>3, <4>2, <4>3
    <3> QED BY <3>1, <3>2, <3>3, <3>4
  <2> HIDE DEF longer, id, family
  <2>12. /\ DOMAIN acquire_instances' = DOMAIN acquire_instances \cup {key}
         /\ acquire_instances'[key] = longer
         /\ \A q \in DOMAIN acquire_instances \ {key} : acquire_instances'[q] = acquire_instances[q]
    BY <2>1 DEF Queue
  <2>13. \A i \in Acquires(graph') : graph'.edges[i].site.by = "fact"
    BY <2>2, <2>7, <2>8 DEF Queues
  <2>14. ASSUME NEW q \in DOMAIN acquire_instances'
         PROVE  /\ Listed(acquire_instances'[q]) /\ Ascending(acquire_instances'[q])
                /\ \A n \in DOMAIN acquire_instances'[q] :
                     \E i \in Live(graph') : /\ Acquired(graph', i) = acquire_instances'[q][n]
                                             /\ KeyOf(graph'.edges[i]) = q
    <3>1. CASE q # key
      <4>1. q \in DOMAIN acquire_instances /\ acquire_instances'[q] = acquire_instances[q]
        BY <2>12, <3>1
      <4>2. /\ Listed(acquire_instances[q]) /\ Ascending(acquire_instances[q])
            /\ \A n \in DOMAIN acquire_instances[q] :
                 \E i \in Live(graph) : /\ Acquired(graph, i) = acquire_instances[q][n]
                                        /\ KeyOf(graph.edges[i]) = q
        BY <4>1 DEF Queues
      <4> QED BY <2>7, <2>8, <2>9, <4>1, <4>2
    <3>2. CASE q = key
      <4> SUFFICES ASSUME NEW n \in DOMAIN longer
                   PROVE  \E i \in Live(graph') : /\ Acquired(graph', i) = longer[n]
                                                  /\ KeyOf(graph'.edges[i]) = key
        BY <2>11, <2>12, <3>2
      <4>1. CASE n \in DOMAIN Queue(key)
        <5>1. key \in DOMAIN acquire_instances /\ Queue(key) = acquire_instances[key]
          <6>1. DOMAIN <<>> = {}
            BY EmptySeq
          <6> QED BY <4>1, <6>1 DEF Queue
        <5>2. \E i \in Live(graph) : /\ Acquired(graph, i) = acquire_instances[key][n]
                                     /\ KeyOf(graph.edges[i]) = key
          BY <4>1, <5>1 DEF Queues
        <5> QED BY <2>7, <2>8, <2>9, <2>11, <4>1, <5>1, <5>2
      <4>2. CASE n = Len(Queue(key)) + 1
        BY <2>2, <2>7, <2>8, <2>11, <4>2
      <4> QED BY <2>11, <4>1, <4>2
    <3> QED BY <3>1, <3>2
  <2>15. ASSUME NEW i \in Live(graph')
         PROVE  LET q == KeyOf(graph'.edges[i]) IN
                /\ q \in DOMAIN acquire_instances'
                /\ \E n \in DOMAIN acquire_instances'[q] : acquire_instances'[q][n] = Acquired(graph', i)
    <3>1. CASE i = Top(graph)
      BY <2>2, <2>8, <2>11, <2>12, <3>1
    <3>2. CASE i \in Live(graph)
      <4> DEFINE q == KeyOf(graph.edges[i])
      <4>1. q \in DOMAIN acquire_instances
            /\ \E n \in DOMAIN acquire_instances[q] : acquire_instances[q][n] = Acquired(graph, i)
        BY <3>2 DEF Queues
      <4>2. KeyOf(graph'.edges[i]) = q /\ Acquired(graph', i) = Acquired(graph, i)
        BY <2>8, <2>9, <3>2
      <4> HIDE DEF q
      <4>3. CASE q = key
        <5>1. Queue(key) = acquire_instances[q]
          BY <4>1, <4>3 DEF Queue
        <5> QED BY <2>11, <2>12, <4>1, <4>2, <4>3, <5>1
      <4>4. CASE q # key
        BY <2>12, <4>1, <4>2, <4>4
      <4> QED BY <4>3, <4>4
    <3> QED BY <2>7, <3>1, <3>2
  <2>16. Queues(graph', acquire_instances')
    BY <2>13, <2>14, <2>15 DEF Queues
  <2> QED BY <2>7, <2>16
<1> QED BY <1>1, <1>2

LEMMA ReleaseFactStep ==
  ASSUME FactsHold, NEW site, site.by = "fact", RawRelease(site)
  PROVE  Linear(graph') /\ Queues(graph', acquire_instances')
<1> USE DEF FactsHold
<1> DEFINE family == Registry[site.callee].family
           matched == MatchedQueue(Scope(site), family)
<1>1. CASE /\ graph' = add_edge(alloc_instance(graph),
                                ReleaseEdge(graph.next_instance_id, "Release", family, site))
           /\ UNCHANGED acquire_instances
  <2> DEFINE e == ReleaseEdge(graph.next_instance_id, "Release", family, site)
  <2>1. e.effect = "Release" /\ e.source = graph.next_instance_id
    BY DEF ReleaseEdge, ContractEdge
  <2>2. graph' = add_edge(alloc_instance(graph), e)
    BY <1>1
  <2> HIDE DEF e
  <2>3. /\ Adds(graph, graph', e) /\ graph'.next_instance_id = graph.next_instance_id + 1
        /\ graph.next_instance_id \in Nat \ {0}
    BY <2>2, GraphOps DEF Linear
  <2>4. e.source \in 0 .. graph'.next_instance_id - 1 /\ e.source \notin Ids(graph)
    BY <2>1, <2>3, Unused
  <2>5. Linear(graph') /\ Acquires(graph') = Acquires(graph) /\ Live(graph') = Live(graph)
    BY <2>1, <2>3, <2>4, NeutralEdge
  <2>6. \A i \in Acquires(graph) : /\ graph'.edges[i] = graph.edges[i]
                                   /\ Acquired(graph', i) = Acquired(graph, i)
    BY <2>3, AddedSets DEF Linear
  <2>7. Live(graph) \subseteq Acquires(graph)
    BY DEF Live
  <2>8. \A i \in Live(graph) : /\ graph'.edges[i] = graph.edges[i]
                               /\ Acquired(graph', i) = Acquired(graph, i)
    BY <2>6, <2>7
  <2>9. Queues(graph', acquire_instances)
    BY <2>5, <2>6, <2>8 DEF Queues
  <2> QED BY <1>1, <2>5, <2>9
<1>2. ASSUME NEW q \in matched,
             graph' = add_edge(graph, ReleaseEdge(Head(Queue(q)), RawReleaseEffect(q[2], family),
                                                  family, site)),
             acquire_instances' = [acquire_instances EXCEPT ![q] = Tail(@)]
      PROVE  Linear(graph') /\ Queues(graph', acquire_instances')
  <2> DEFINE queue == acquire_instances[q]
             e == ReleaseEdge(Head(queue), RawReleaseEffect(q[2], family), family, site)
  <2>1. q \in DOMAIN acquire_instances /\ Queue(q) = queue /\ queue # <<>>
    BY DEF MatchedQueue, ViableQueues, Queue
  <2>2. /\ Listed(queue) /\ Ascending(queue)
        /\ \A n \in DOMAIN queue :
             \E i \in Live(graph) : Acquired(graph, i) = queue[n] /\ KeyOf(graph.edges[i]) = q
    BY <2>1 DEF Queues
  <2>3. /\ Listed(Tail(queue)) /\ Len(queue) \in Nat \ {0} /\ Len(Tail(queue)) = Len(queue) - 1
        /\ \A i \in 1 .. Len(Tail(queue)) : Tail(queue)[i] = queue[i + 1]
        /\ Head(queue) = queue[1]
        /\ DOMAIN queue = 1 .. Len(queue) /\ DOMAIN Tail(queue) = 1 .. Len(Tail(queue))
    BY <2>1, <2>2, ListedTail, ListedShape
  <2>4. /\ graph' = add_edge(graph, e)
        /\ e.effect \in Ending /\ e.source = Head(queue)
    BY <1>2, <2>1 DEF ReleaseEdge, ContractEdge, RawReleaseEffect, Ending, ReleaseOrCross
  <2> HIDE DEF e
  <2>5. Adds(graph, graph', e)
    BY <2>4, GraphOps DEF Linear
  <2>6. 1 \in DOMAIN queue
    BY <2>3
  <2>7. PICK j \in Live(graph) : Acquired(graph, j) = queue[1] /\ KeyOf(graph.edges[j]) = q
    BY <2>2, <2>6
  <2>8. /\ Live(graph) \subseteq Acquires(graph)
        /\ \A i \in Acquires(graph) : Acquired(graph, i) \in Nat
        /\ \A i, l \in Acquires(graph) : Acquired(graph, i) = Acquired(graph, l) => i = l
    BY Unused DEF Live, Linear, OneBirth
  <2>9. ASSUME NEW i \in Live(graph), KeyOf(graph.edges[i]) = q, i # j
        PROVE  \E n \in DOMAIN Tail(queue) : Tail(queue)[n] = Acquired(graph, i)
    <3>1. PICK n \in DOMAIN queue : queue[n] = Acquired(graph, i)
      BY <2>9 DEF Queues
    <3>2. n # 1
      BY <2>7, <2>8, <2>9, <3>1
    <3>3. n - 1 \in DOMAIN Tail(queue) /\ (n - 1) + 1 = n
      BY <2>3, <3>1, <3>2
    <3>4. Tail(queue)[n - 1] = queue[n]
      BY <2>3, <3>3
    <3> QED BY <3>1, <3>3, <3>4
  <2>10. \A n \in DOMAIN Tail(queue) : n + 1 \in DOMAIN queue /\ 1 < n + 1 /\ Tail(queue)[n] = queue[n + 1]
    BY <2>3
  <2>11. \A n \in DOMAIN Tail(queue) : queue[1] < Tail(queue)[n]
    BY <2>2, <2>6, <2>10 DEF Ascending
  <2>12. ASSUME NEW i \in Live(graph), i < j, InOneList(graph.edges[i], graph.edges[j]) PROVE FALSE
    <3>1. i \in Acquires(graph) /\ j \in Acquires(graph)
      BY <2>7, <2>8
    <3>2. Acquired(graph, i) < queue[1]
      BY <2>7, <2>12, <3>1 DEF Linear, Fifo
    <3>3. graph.edges[i].site.by = "fact" /\ graph.edges[j].site.by = "fact"
      BY <3>1 DEF Queues
    <3>4. KeyOf(graph.edges[i]) = q
      BY <2>7, <2>12, <3>3 DEF KeyOf, InOneList, ListFor
    <3>5. i # j
      BY <3>2, <2>7, <2>8, <3>1
    <3>6. PICK n \in DOMAIN Tail(queue) : Tail(queue)[n] = Acquired(graph, i)
      BY <2>9, <3>4, <3>5
    <3>7. queue[1] < Acquired(graph, i)
      BY <2>11, <3>6
    <3> QED BY <2>7, <2>8, <3>1, <3>2, <3>7
  <2>13. /\ Linear(graph') /\ Acquires(graph') = Acquires(graph) /\ Live(graph') = Live(graph) \ {j}
    BY <2>4, <2>5, <2>3, <2>7, <2>12, EndEdge
  <2>14. \A i \in Acquires(graph) : /\ graph'.edges[i] = graph.edges[i]
                                    /\ Acquired(graph', i) = Acquired(graph, i)
    BY <2>5, AddedSets DEF Linear
  <2>15. /\ DOMAIN acquire_instances' = DOMAIN acquire_instances
         /\ acquire_instances'[q] = Tail(queue)
         /\ \A p \in DOMAIN acquire_instances : p # q => acquire_instances'[p] = acquire_instances[p]
    BY <1>2, <2>1
  <2>16. \A i \in Acquires(graph') : graph'.edges[i].site.by = "fact"
    BY <2>13, <2>14 DEF Queues
  <2>17. ASSUME NEW p \in DOMAIN acquire_instances'
         PROVE  /\ Listed(acquire_instances'[p]) /\ Ascending(acquire_instances'[p])
                /\ \A n \in DOMAIN acquire_instances'[p] :
                     \E i \in Live(graph') : /\ Acquired(graph', i) = acquire_instances'[p][n]
                                             /\ KeyOf(graph'.edges[i]) = p
    <3>1. CASE p # q
      <4>1. p \in DOMAIN acquire_instances /\ acquire_instances'[p] = acquire_instances[p]
        BY <2>15, <3>1
      <4>2. /\ Listed(acquire_instances[p]) /\ Ascending(acquire_instances[p])
            /\ \A n \in DOMAIN acquire_instances[p] :
                 \E i \in Live(graph) : /\ Acquired(graph, i) = acquire_instances[p][n]
                                        /\ KeyOf(graph.edges[i]) = p
        BY <4>1 DEF Queues
      <4> QED BY <2>7, <2>8, <2>13, <2>14, <3>1, <4>1, <4>2
    <3>2. CASE p = q
      <4>1. Ascending(Tail(queue))
        <5> SUFFICES ASSUME NEW m \in DOMAIN Tail(queue), NEW n \in DOMAIN Tail(queue), m < n
                     PROVE  Tail(queue)[m] < Tail(queue)[n]
          BY DEF Ascending
        <5>1. m + 1 < n + 1 /\ m + 1 \in DOMAIN queue /\ n + 1 \in DOMAIN queue
          BY <2>3
        <5> QED BY <2>2, <2>10, <5>1 DEF Ascending
      <4>2. ASSUME NEW n \in DOMAIN Tail(queue)
            PROVE  \E i \in Live(graph') : /\ Acquired(graph', i) = Tail(queue)[n]
                                           /\ KeyOf(graph'.edges[i]) = q
        <5>1. PICK i \in Live(graph) : Acquired(graph, i) = queue[n + 1] /\ KeyOf(graph.edges[i]) = q
          BY <2>2, <2>10
        <5>2. queue[1] < Acquired(graph, i) /\ i \in Acquires(graph)
          BY <2>8, <2>10, <2>11, <5>1
        <5>3. i # j
          BY <2>7, <2>8, <5>2
        <5> QED BY <2>8, <2>10, <2>13, <2>14, <5>1, <5>3
      <4> DEFINE rest == Tail(queue)
      <4>3. /\ Listed(rest) /\ Ascending(rest) /\ acquire_instances'[p] = rest
            /\ \A n \in DOMAIN rest : \E i \in Live(graph') : /\ Acquired(graph', i) = rest[n]
                                                            /\ KeyOf(graph'.edges[i]) = q
        BY <2>3, <2>15, <3>2, <4>1, <4>2, Zenon
      <4> HIDE DEF rest
      <4> QED BY <3>2, <4>3
    <3> QED BY <3>1, <3>2
  <2>18. ASSUME NEW i \in Live(graph')
         PROVE  LET p == KeyOf(graph'.edges[i]) IN
                /\ p \in DOMAIN acquire_instances'
                /\ \E n \in DOMAIN acquire_instances'[p] : acquire_instances'[p][n] = Acquired(graph', i)
    <3> DEFINE p == KeyOf(graph.edges[i])
    <3>1. i \in Live(graph) /\ i # j
      BY <2>13
    <3>2. KeyOf(graph'.edges[i]) = p /\ Acquired(graph', i) = Acquired(graph, i)
      BY <2>8, <2>14, <3>1
    <3>3. /\ p \in DOMAIN acquire_instances
          /\ \E n \in DOMAIN acquire_instances[p] : acquire_instances[p][n] = Acquired(graph, i)
      BY <3>1 DEF Queues
    <3>4. p = q => \E n \in DOMAIN Tail(queue) : Tail(queue)[n] = Acquired(graph, i)
      BY <2>9, <3>1
    <3> HIDE DEF p
    <3>5. CASE p = q
      BY <2>15, <3>2, <3>3, <3>4, <3>5
    <3>6. CASE p # q
      BY <2>15, <3>2, <3>3, <3>6
    <3> QED BY <3>5, <3>6
  <2>19. Queues(graph', acquire_instances')
    BY <2>16, <2>17, <2>18 DEF Queues
  <2> QED BY <2>13, <2>19
<1>3. \/ \E q \in matched :
          /\ graph' = add_edge(graph, ReleaseEdge(Head(Queue(q)), RawReleaseEffect(q[2], family),
                                                  family, site))
          /\ acquire_instances' = [acquire_instances EXCEPT ![q] = Tail(@)]
      \/ /\ graph' = add_edge(alloc_instance(graph),
                              ReleaseEdge(graph.next_instance_id, "Release", family, site))
         /\ UNCHANGED acquire_instances
  BY DEF RawRelease
<1> QED BY <1>1, <1>2, <1>3

LEMMA FactSteps ==
  ASSUME BuilderInv, CallFact \/ CallFactsEnd \/ DeclaredFact \/ DeclaredFactsEnd
  PROVE  BuilderInv'
<1>1. /\ Linear(graph) /\ Queues(graph, acquire_instances)
      /\ module \in Modules /\ k \in Nat \ {0}
  BY DEF BuilderInv, QueuesHold, CallFact, CallFactsEnd, DeclaredFact, DeclaredFactsEnd
<1>2. ASSUME NEW site, site.by = "fact", RawAcquire(site) \/ RawRelease(site) \/ NoFact(site)
      PROVE  Linear(graph') /\ Queues(graph', acquire_instances')
  <2>1. CASE RawAcquire(site)
    BY <1>1, <1>2, <2>1, AcquireFactStep DEF FactsHold
  <2>2. CASE RawRelease(site)
    BY <1>1, <1>2, <2>2, ReleaseFactStep DEF FactsHold
  <2>3. CASE NoFact(site)
    BY <1>1, <2>3 DEF NoFact
  <2> QED BY <1>2, <2>1, <2>2, <2>3
<1>3. CASE CallFact
  <2>1. CallSite(k, "fact").by = "fact"
    BY DEF CallSite, Site
  <2>2. pc' = "facts" /\ module' = module /\ k' = k + 1
        /\ \E site : site.by = "fact" /\ (RawAcquire(site) \/ RawRelease(site) \/ NoFact(site))
    BY <1>3, <2>1 DEF CallFact
  <2>3. Linear(graph') /\ Queues(graph', acquire_instances')
    BY <1>2, <2>2
  <2> QED BY <1>1, <2>2, <2>3 DEF BuilderInv, QueuesHold, CallersOnce, ListsHold, ScannedAcquires,
                                  ListHolds, Fallback, InFunction
<1>4. CASE CallFactsEnd
  <2>1. pc' = "declared" /\ module' = module /\ k' = 1
        /\ graph' = graph /\ acquire_instances' = acquire_instances
    BY <1>4 DEF CallFactsEnd, Continue
  <2>2. Linear(graph') /\ Queues(graph', acquire_instances')
    BY <1>1, <2>1
  <2> QED BY <1>1, <2>1, <2>2 DEF BuilderInv, QueuesHold, CallersOnce, ListsHold, ScannedAcquires,
                                  ListHolds, Fallback, InFunction
<1>5. CASE DeclaredFact
  <2>1. \A s : Site("", s, 0, "fact").by = "fact"
    BY DEF Site
  <2>2. pc' = "declared" /\ module' = module /\ k' = k
        /\ \E site : site.by = "fact" /\ (RawAcquire(site) \/ RawRelease(site) \/ NoFact(site))
    BY <1>5, <2>1 DEF DeclaredFact
  <2>3. Linear(graph') /\ Queues(graph', acquire_instances')
    BY <1>2, <2>2
  <2> QED BY <1>1, <2>2, <2>3 DEF BuilderInv, QueuesHold, CallersOnce, ListsHold, ScannedAcquires,
                                  ListHolds, Fallback, InFunction
<1>6. CASE DeclaredFactsEnd
  <2>1. pc' = "callers" /\ module' = module /\ k' = 1 /\ graph' = graph
    BY <1>6 DEF DeclaredFactsEnd, Continue
  <2>2. CallEdges(graph) = {}
    BY <1>1 DEF CallEdges, Queues
  <2>3. CallersOnce'
    BY <2>1, <2>2 DEF CallersOnce, CallEdges
  <2>4. Linear(graph')
    BY <1>1, <2>1
  <2> QED BY <1>1, <2>1, <2>3, <2>4 DEF BuilderInv, QueuesHold, ListsHold, ScannedAcquires,
                                        ListHolds, Fallback, InFunction
<1> QED BY <1>3, <1>4, <1>5, <1>6

-----------------------------------------------------------------------------
(* The scan. *)

LEMMA NextCallerStep ==
  ASSUME BuilderInv, NextCaller
  PROVE  BuilderInv'
<1>1. /\ pc = "callers" /\ pc' = "scan" /\ k' = 1 /\ graph' = graph /\ module' = module
      /\ caller' \in todo /\ todo' = todo \ {caller'}
      /\ func_acquires' = <<>> /\ func_escapes' = <<>> /\ func_reclaims' = <<>>
      /\ func_releases' = <<>>
  BY DEF NextCaller, Continue
<1>2. Listed(<<>>) /\ DOMAIN <<>> = {}
  <2>1. <<>> \in Seq(Nat) /\ Len(<<>>) = 0
    BY EmptySeq
  <2>2. Listed(<<>>)
    BY <2>1, ListedWhen
  <2>3. DOMAIN <<>> = 1 .. 0
    BY <2>1, <2>2, ListedShape
  <2> QED BY <2>2, <2>3
<1>3. \A i \in CallEdges(graph) : graph.edges[i].site.caller \notin todo
  <2>1. pc \in InFunction \cup {"callers"}
    BY <1>1
  <2>2. CallersOnce
    BY DEF BuilderInv
  <2> QED BY <2>1, <2>2 DEF CallersOnce
<1>4. CallersOnce'
  BY <1>1, <1>3 DEF CallersOnce, CallEdges
<1>5. ListsHold'
  BY <1>1, <1>2 DEF ListsHold, ReleasesListed, ListIds, OtherIds
<1>6. ScannedAcquires'
  BY <1>1, <1>2 DEF ScannedAcquires, Scanned
<1>7. Linear(graph') /\ module' \in Modules
  BY <1>1 DEF BuilderInv
<1> QED BY <1>1, <1>4, <1>5, <1>6, <1>7 DEF BuilderInv, QueuesHold, ListHolds, Fallback
(* The calls of a set are listed in their order. *)
InOrderUpTo(s, calls, m) ==
  /\ Listed(s) /\ Ascending(s)
  /\ \A n \in DOMAIN s : s[n] \in calls /\ s[n] \in 1 .. m

LEMMA UpwardLaw ==
  ASSUME NEW calls, NEW last \in Nat
  PROVE  InOrderUpTo(Upward(calls, last), calls, last)
<1>1. last \in Nat
  OBVIOUS
<1>2. PICK f : /\ f[0] = <<>>
               /\ \A n \in 1 .. last :
                    f[n] = (IF n \in calls THEN Append(f[n - 1], n) ELSE f[n - 1])
               /\ Upward(calls, last) = f[last]
  BY <1>1, UpwardSteps
<1> DEFINE T == {m \in Nat : InOrderUpTo(f[m], calls, m)}
<1>3. 0 \in T
  <2>1. <<>> \in Seq(Nat) /\ Len(<<>>) = 0
    BY EmptySeq
  <2>2. Listed(<<>>)
    BY <2>1, ListedWhen
  <2>3. DOMAIN <<>> = 1 .. 0
    BY <2>1, <2>2, ListedShape
  <2> QED BY <1>2, <2>2, <2>3 DEF InOrderUpTo, Ascending
<1>4. ASSUME NEW m \in 0 .. last - 1, m \in T PROVE m + 1 \in T
  <2>1. m \in Nat /\ m + 1 \in 1 .. last /\ (m + 1) - 1 = m /\ m + 1 \in Nat
    BY <1>1
  <2> DEFINE s == f[m]
  <2>2. /\ Listed(s) /\ Ascending(s)
        /\ \A n \in DOMAIN s : s[n] \in calls /\ s[n] \in 1 .. m
    BY <1>4 DEF InOrderUpTo
  <2>3. f[m + 1] = (IF m + 1 \in calls THEN Append(s, m + 1) ELSE s)
    BY <1>2, <2>1
  <2> DEFINE t == f[m + 1]
  <2>4. t = (IF m + 1 \in calls THEN Append(s, m + 1) ELSE s)
    BY <2>3
  <2> HIDE DEF s, t
  <2>5. CASE m + 1 \notin calls
    <3>1. \A n \in DOMAIN s : s[n] \in 1 .. m + 1
      BY <2>1, <2>2
    <3>2. InOrderUpTo(t, calls, m + 1)
      BY <2>2, <2>4, <2>5, <3>1 DEF InOrderUpTo
    <3> QED BY <2>1, <3>2 DEF t
  <2>6. CASE m + 1 \in calls
    <3>1. Len(s) \in Nat /\ DOMAIN s = 1 .. Len(s)
      BY <2>2, ListedShape
    <3>2. /\ Listed(t) /\ Len(t) = Len(s) + 1
          /\ \A n \in DOMAIN s : t[n] = s[n]
          /\ t[Len(s) + 1] = m + 1
      BY <2>2, <2>4, <2>6, <3>1, ListedAppend
    <3>3. DOMAIN t = 1 .. Len(s) + 1
      BY <3>2, ListedShape
    <3>4. \A n \in DOMAIN t : t[n] \in calls /\ t[n] \in 1 .. m + 1
      <4> SUFFICES ASSUME NEW n \in DOMAIN t PROVE t[n] \in calls /\ t[n] \in 1 .. m + 1
        OBVIOUS
      <4>1. CASE n = Len(s) + 1
        BY <2>1, <2>6, <3>2, <4>1
      <4>2. CASE n \in DOMAIN s
        BY <2>1, <2>2, <3>2, <4>2
      <4> QED BY <3>1, <3>3, <4>1, <4>2
    <3>5. Ascending(t)
      <4> SUFFICES ASSUME NEW i \in DOMAIN t, NEW n \in DOMAIN t, i < n PROVE t[i] < t[n]
        BY DEF Ascending
      <4>1. i \in DOMAIN s /\ t[i] = s[i] /\ s[i] < m + 1
        BY <2>1, <2>2, <3>1, <3>2, <3>3
      <4>2. CASE n = Len(s) + 1
        BY <3>2, <4>1, <4>2
      <4>3. CASE n \in DOMAIN s
        BY <2>2, <3>2, <4>1, <4>3 DEF Ascending
      <4> QED BY <3>1, <3>3, <4>2, <4>3
    <3>6. InOrderUpTo(t, calls, m + 1)
      BY <3>2, <3>4, <3>5 DEF InOrderUpTo
    <3> QED BY <2>1, <3>6 DEF t
  <2> QED BY <2>5, <2>6
<1>5. last \in T
  <2> HIDE DEF T
  <2>1. \A m \in 0 .. last : m \in T
    BY <1>1, <1>3, <1>4, Ascend
  <2> QED BY <1>1, <2>1
<1> QED BY <1>2, <1>5

LEMMA OrderLaw ==
  ASSUME Listed(Calls), NEW calls
  PROVE  InOrderUpTo(InOrder(calls), calls, Len(Calls))
<1>1. Len(Calls) \in Nat
  BY ListedShape
<1> QED BY <1>1, UpwardLaw DEF InOrder

LEMMA CallsListed ==
  ASSUME module \in Modules
  PROVE  /\ Listed(Calls)
         /\ \A s \in DOMAIN Summary : Len(Summary[s]) \in Nat
<1>1. Calls \in Seq([caller : STRING, callee : STRING, arg : Nat])
  BY ModuleAssumption DEF Calls
<1>2. \A s \in DOMAIN Summary : Len(Summary[s]) \in Nat
  BY ModuleAssumption, LenProperties
<1> QED BY <1>1, <1>2, ListedWhen

(* The calls of a function are its own. *)
LEMMA OwnCalls ==
  ASSUME module \in Modules, NEW f, NEW n \in Nat \ {0}, n <= Len(CallsOf(f))
  PROVE  Calls[CallsOf(f)[n]].caller = f /\ CallsOf(f)[n] \in DOMAIN Calls
<1> DEFINE mine == {i \in DOMAIN Calls : Calls[i].caller = f}
<1>1. InOrderUpTo(CallsOf(f), mine, Len(Calls))
  BY CallsListed, OrderLaw DEF CallsOf
<1>2. DOMAIN CallsOf(f) = 1 .. Len(CallsOf(f)) /\ Len(CallsOf(f)) \in Nat
  BY <1>1, ListedShape DEF InOrderUpTo
<1>3. n \in DOMAIN CallsOf(f)
  BY <1>2
<1>4. CallsOf(f)[n] \in mine
  BY <1>1, <1>3 DEF InOrderUpTo
<1> QED BY <1>4
(* A graph that has grown by new instances, and by no acquire of a call. *)
Grows(g, h) ==
  /\ Linear(h) /\ g.next_instance_id <= h.next_instance_id
  /\ \A x \in 1 .. g.next_instance_id - 1 : /\ x \in Ids(h) => x \in Ids(g)
                                            /\ Ends(g, x) = {} => Ends(h, x) = {}
  /\ CallEdges(h) = CallEdges(g)
  /\ \A i \in CallEdges(g) : h.edges[i] = g.edges[i]

LEMMA GrowsOn ==
  ASSUME NEW g, NEW h, NEW l, Linear(g), Grows(g, h), Grows(h, l)
  PROVE  Grows(g, l)
<1>1. /\ g.next_instance_id \in Nat /\ h.next_instance_id \in Nat /\ l.next_instance_id \in Nat
      /\ g.next_instance_id <= h.next_instance_id /\ h.next_instance_id <= l.next_instance_id
  BY DEF Grows, Linear, GraphShape
<1>2. \A x \in 1 .. g.next_instance_id - 1 : x \in 1 .. h.next_instance_id - 1
  BY <1>1
<1>3. g.next_instance_id <= l.next_instance_id
  BY <1>1
<1> QED BY <1>2, <1>3 DEF Grows

LEMMA GrowsKeeps ==
  ASSUME NEW g, NEW h, NEW as, NEW s, NEW calls, NEW f, Linear(g), Grows(g, h), ListIds(g, as)
  PROVE  /\ ListIds(h, as)
         /\ OtherIds(g, as, s) => OtherIds(h, as, s)
         /\ Scanned(g, as, calls, f) => Scanned(h, as, calls, f)
<1>1. g.next_instance_id \in Nat /\ h.next_instance_id \in Nat
      /\ g.next_instance_id <= h.next_instance_id
  BY DEF Grows, Linear, GraphShape
<1>2. \A x \in 1 .. g.next_instance_id - 1 : x \in 1 .. h.next_instance_id - 1
  BY <1>1
<1>3. ListIds(h, as)
  BY <1>2 DEF ListIds
<1>4. ASSUME OtherIds(g, as, s) PROVE OtherIds(h, as, s)
  BY <1>2, <1>4 DEF OtherIds, Grows
<1>5. ASSUME Scanned(g, as, calls, f) PROVE Scanned(h, as, calls, f)
  <2>1. \A n \in DOMAIN as : as[n].id \in 1 .. g.next_instance_id - 1
    BY DEF ListIds
  <2>2. \A i \in CallEdges(h) : Acquired(h, i) = Acquired(g, i)
    BY DEF Grows, Acquired
  <2> QED BY <1>5, <2>1, <2>2 DEF Scanned, Grows
<1> QED BY <1>3, <1>4, <1>5

LEMMA GrowsByEdge ==
  ASSUME NEW g, NEW h, NEW e, Linear(g), Adds(g, h, e), Linear(h),
         e.effect = "Acquire" =>
           e.site.by # "call" /\ e.result = g.next_instance_id,
         e.effect \in Ending => e.source \in {0, g.next_instance_id}
  PROVE  Grows(g, h)
<1>1. /\ e.effect = "Acquire" => Acquires(h) = Acquires(g) \cup {Top(g)}
      /\ e.effect # "Acquire" => Acquires(h) = Acquires(g)
      /\ \A x : Ends(h, x) =
                  IF e.effect \in Ending /\ e.source = x THEN Ends(g, x) \cup {Top(g)} ELSE Ends(g, x)
      /\ \A i \in Acquires(g) : /\ h.edges[i] = g.edges[i]
                                /\ Acquired(h, i) = Acquired(g, i)
      /\ Acquired(h, Top(g)) = e.result /\ h.edges[Top(g)] = e
  BY AddedSets, Added DEF Linear
<1>2. g.next_instance_id \in Nat \ {0} /\ g.next_instance_id <= h.next_instance_id
  BY DEF Adds, Linear, GraphShape
<1>3. CallEdges(h) = CallEdges(g)
  BY <1>1 DEF CallEdges
<1>4. \A i \in CallEdges(g) : h.edges[i] = g.edges[i]
  BY <1>1 DEF CallEdges
<1>5. ASSUME NEW x \in 1 .. g.next_instance_id - 1
      PROVE  (x \in Ids(h) => x \in Ids(g)) /\ (Ends(g, x) = {} => Ends(h, x) = {})
  <2>1. x # 0 /\ x # g.next_instance_id
    BY <1>2
  <2>2. x \in Ids(h) => x \in Ids(g)
    BY <1>1, <2>1 DEF Ids
  <2>3. Ends(h, x) = Ends(g, x)
    BY <1>1, <2>1
  <2> QED BY <2>2, <2>3
<1> QED BY <1>2, <1>3, <1>4, <1>5 DEF Grows

LEMMA GrowsByOne ==
  ASSUME NEW g, Linear(g)
  PROVE  /\ Grows(g, g) /\ Grows(g, alloc_instance(g))
         /\ alloc_instance(g).next_instance_id = g.next_instance_id + 1
         /\ Ids(alloc_instance(g)) = Ids(g)
         /\ \A x : Ends(alloc_instance(g), x) = Ends(g, x)
<1>1. /\ Linear(alloc_instance(g)) /\ alloc_instance(g).edges = g.edges
      /\ alloc_instance(g).next_instance_id = g.next_instance_id + 1
      /\ g.next_instance_id \in Nat \ {0}
  BY Allocated
<1> DEFINE h == alloc_instance(g)
<1>2. h.edges = g.edges
  BY <1>1
<1>3. g.next_instance_id <= h.next_instance_id /\ g.next_instance_id <= g.next_instance_id
  BY <1>1
<1> HIDE DEF h
<1>4. Ids(h) = Ids(g) /\ CallEdges(h) = CallEdges(g) /\ \A x : Ends(h, x) = Ends(g, x)
  BY <1>2 DEF Ids, CallEdges, Acquires, Acquired, Ends
<1>5. Linear(h)
  BY <1>1 DEF h
<1>6. Grows(g, h)
  BY <1>2, <1>3, <1>4, <1>5 DEF Grows
<1>7. Grows(g, g)
  BY <1>3 DEF Grows
<1> QED BY <1>1, <1>4, <1>6, <1>7 DEF h

LEMMA SummaryGrows ==
  ASSUME NEW g, NEW e, NEW site, Linear(g), site.by = "summary"
  PROVE  Grows(g, SummaryEdge(g, e, site))
<1> DEFINE id == g.next_instance_id
<1>1. id \in Nat \ {0} /\ id \notin Ids(g) /\ Ends(g, id) = {} /\ 0 \notin Ids(g)
  BY Unused
<1>2. ASSUME NEW d, NEW h, Adds(g, h, d), d.effect # "Acquire",
             d.effect \in Ending => d.source = 0 \/ (d.source = id /\ h.next_instance_id = id + 1)
      PROVE  Grows(g, h)
  <2>1. h.next_instance_id \in Nat \ {0} /\ id <= h.next_instance_id
    BY <1>1, <1>2 DEF Adds
  <2>2. d.effect \in Ending => d.source \in 0 .. h.next_instance_id - 1 /\ d.source \notin Ids(g)
    BY <1>1, <1>2, <2>1
  <2>3. Linear(h)
    BY <1>2, <2>2, NeutralEdge
  <2> QED BY <1>2, <2>3, GrowsByEdge
<1>3. /\ \A d : Adds(g, add_edge(g, d), d) /\ Adds(g, add_edge(alloc_instance(g), d), d)
      /\ \A d : add_edge(alloc_instance(g), d).next_instance_id = id + 1
  BY GraphOps DEF Linear
<1>4. CASE e.effect = "Acquire"
  <2> DEFINE d == AcquireEdge(id, e.family, site)
             h == add_edge(alloc_instance(g), d)
  <2>1. SummaryEdge(g, e, site) = h
    BY <1>4 DEF SummaryEdge
  <2>2. d.effect = "Acquire" /\ d.result = id /\ d.site = site
    BY DEF AcquireEdge, ContractEdge
  <2>3. Adds(g, h, d) /\ h.next_instance_id = id + 1
    BY <1>3
  <2> HIDE DEF d, h, id
  <2>4. \A i \in Acquires(g) : Acquired(g, i) < d.result
    BY <2>2, Unused DEF id
  <2>5. d.result \in 1 .. h.next_instance_id - 1
    BY <1>1, <2>2, <2>3
  <2>6. Linear(h)
    BY <1>1, <2>2, <2>3, <2>4, <2>5, BirthEdge
  <2>7. Grows(g, h)
    <3>1. d.effect \notin Ending
      BY <2>2 DEF Ending, ReleaseOrCross
    <3> QED BY <2>2, <2>3, <2>6, <3>1, GrowsByEdge DEF id
  <2> QED BY <2>1, <2>7
<1>5. CASE e.effect \in {"OutParamOwnedOnSuccess", "ReturnsOwned"}
  <2> DEFINE d == ContractEdge(0, id, e.effect, 0, e.family, site)
             h == add_edge(alloc_instance(g), d)
  <2>1. SummaryEdge(g, e, site) = h
    BY <1>5 DEF SummaryEdge
  <2>2. d.effect # "Acquire" /\ d.source = 0
    BY <1>5 DEF ContractEdge
  <2>3. Adds(g, h, d)
    BY <1>3
  <2> HIDE DEF d, h
  <2> QED BY <1>2, <2>1, <2>2, <2>3
<1>6. CASE e.effect = "OwnershipEscape"
  <2> DEFINE d == ContractEdge(0, 0, e.effect, id, e.family, site)
             h == add_edge(alloc_instance(g), d)
  <2>1. SummaryEdge(g, e, site) = h
    BY <1>6 DEF SummaryEdge
  <2>2. d.effect # "Acquire" /\ d.source = 0
    BY <1>6 DEF ContractEdge
  <2>3. Adds(g, h, d)
    BY <1>3
  <2> HIDE DEF d, h
  <2> QED BY <1>2, <2>1, <2>2, <2>3
<1>7. CASE e.effect = "OwnershipReclaim"
  <2> DEFINE d == ContractEdge(id, id, e.effect, id, e.family, site)
             h == add_edge(alloc_instance(g), d)
  <2>1. SummaryEdge(g, e, site) = h
    BY <1>7 DEF SummaryEdge
  <2>2. d.effect # "Acquire" /\ d.source = id
    BY <1>7 DEF ContractEdge
  <2>3. Adds(g, h, d) /\ h.next_instance_id = id + 1
    BY <1>3
  <2> HIDE DEF d, h
  <2> QED BY <1>2, <2>1, <2>2, <2>3
<1>8. CASE /\ e.effect # "Acquire" /\ e.effect \notin {"OutParamOwnedOnSuccess", "ReturnsOwned"}
           /\ e.effect # "OwnershipEscape" /\ e.effect # "OwnershipReclaim"
  <2> DEFINE d == ContractEdge(0, 0, e.effect, 0, e.family, site)
             h == add_edge(g, d)
  <2>1. SummaryEdge(g, e, site) = h
    BY <1>8 DEF SummaryEdge
  <2>2. d.effect # "Acquire" /\ d.source = 0
    BY <1>8 DEF ContractEdge
  <2>3. Adds(g, h, d)
    BY <1>3
  <2> HIDE DEF d, h
  <2> QED BY <1>2, <2>1, <2>2, <2>3
<1> QED BY <1>4, <1>5, <1>6, <1>7, <1>8

LEMMA SummariesGrow ==
  ASSUME NEW g, NEW effects, NEW site, Linear(g), site.by = "summary", Len(effects) \in Nat
  PROVE  Grows(g, SummaryEdges(g, effects, site))
<1>1. PICK f : /\ f[0] = g
               /\ \A n \in 1 .. Len(effects) : f[n] = SummaryEdge(f[n - 1], effects[n], site)
               /\ SummaryEdges(g, effects, site) = f[Len(effects)]
  BY SummarySteps
<1> DEFINE T == {n \in Nat : Grows(g, f[n])}
<1>2. 0 \in T
  BY <1>1, GrowsByOne
<1>3. ASSUME NEW n \in 0 .. Len(effects) - 1, n \in T PROVE n + 1 \in T
  <2>1. n + 1 \in 1 .. Len(effects) /\ (n + 1) - 1 = n /\ n + 1 \in Nat
    OBVIOUS
  <2>2. f[n + 1] = SummaryEdge(f[n], effects[n + 1], site)
    BY <1>1, <2>1
  <2>3. Grows(g, f[n]) /\ Linear(f[n])
    BY <1>3 DEF Grows
  <2>4. Grows(f[n], f[n + 1])
    BY <2>2, <2>3, SummaryGrows
  <2>5. Grows(g, f[n + 1])
    BY <2>3, <2>4, GrowsOn
  <2> QED BY <2>1, <2>5
<1>4. Len(effects) \in T
  <2> HIDE DEF T
  <2>1. \A n \in 0 .. Len(effects) : n \in T
    BY <1>2, <1>3, Ascend
  <2> QED BY <2>1
<1> QED BY <1>1, <1>4

LEMMA ListedMore ==
  ASSUME NEW g, NEW as, NEW a, NEW s, NEW calls, NEW f,
         Linear(g), ListIds(g, as), a.id = g.next_instance_id
  PROVE  /\ ListIds(alloc_instance(g), Append(as, a))
         /\ OtherIds(g, as, s) => /\ OtherIds(alloc_instance(g), Append(as, a), s)
                                  /\ OtherIds(alloc_instance(g), as, Append(s, a))
         /\ Scanned(g, as, calls, f) /\ calls[a.call].caller = f
              => Scanned(alloc_instance(g), Append(as, a), calls, f)
<1> DEFINE h == alloc_instance(g)
           more == Append(as, a)
           id == g.next_instance_id
<1>1. /\ Grows(g, h) /\ h.next_instance_id = id + 1 /\ id \in Nat \ {0}
      /\ Ids(h) = Ids(g) /\ \A x : Ends(h, x) = Ends(g, x)
      /\ id \notin Ids(g) /\ Ends(g, id) = {}
  BY GrowsByOne, Unused
<1>2. \A t : Listed(t) => /\ Listed(Append(t, a)) /\ DOMAIN t \subseteq DOMAIN Append(t, a)
                          /\ DOMAIN Append(t, a) = DOMAIN t \cup {Len(t) + 1}
                          /\ \A n \in DOMAIN t : Append(t, a)[n] = t[n] /\ n < Len(t) + 1 /\ n \in Nat
                          /\ Append(t, a)[Len(t) + 1] = a
  <2> SUFFICES ASSUME NEW t, Listed(t)
               PROVE  /\ Listed(Append(t, a)) /\ DOMAIN t \subseteq DOMAIN Append(t, a)
                      /\ DOMAIN Append(t, a) = DOMAIN t \cup {Len(t) + 1}
                      /\ \A n \in DOMAIN t : Append(t, a)[n] = t[n] /\ n < Len(t) + 1 /\ n \in Nat
                      /\ Append(t, a)[Len(t) + 1] = a
    OBVIOUS
  <2> DEFINE u == Append(t, a)
  <2>1. Len(t) \in Nat /\ DOMAIN t = 1 .. Len(t)
    BY ListedShape
  <2>2. /\ Listed(u) /\ Len(u) = Len(t) + 1
        /\ \A n \in 1 .. Len(t) : u[n] = t[n]
        /\ u[Len(t) + 1] = a
    BY ListedAppend
  <2> HIDE DEF u
  <2>3. DOMAIN u = 1 .. Len(t) + 1
    BY <2>2, ListedShape
  <2>4. DOMAIN u = DOMAIN t \cup {Len(t) + 1}
    BY <2>1, <2>3
  <2> QED BY <2>1, <2>2, <2>4 DEF u
<1>3. Listed(as)
  BY DEF ListIds
<1>4. /\ Listed(more) /\ DOMAIN more = DOMAIN as \cup {Len(as) + 1}
      /\ \A n \in DOMAIN as : more[n] = as[n] /\ n < Len(as) + 1 /\ n \in Nat
      /\ more[Len(as) + 1] = a
      /\ Len(as) \in Nat /\ DOMAIN as = 1 .. Len(as) /\ DOMAIN more = 1 .. Len(as) + 1
  <2>1. Len(as) \in Nat /\ DOMAIN as = 1 .. Len(as)
    BY <1>3, ListedShape
  <2>2. /\ Listed(more) /\ DOMAIN more = DOMAIN as \cup {Len(as) + 1}
        /\ \A n \in DOMAIN as : more[n] = as[n] /\ n < Len(as) + 1 /\ n \in Nat
        /\ more[Len(as) + 1] = a
    BY <1>2, <1>3
  <2>3. DOMAIN more = 1 .. Len(as) + 1
    <3>1. Len(more) = Len(as) + 1
      BY <1>3, ListedAppend
    <3> HIDE DEF more
    <3> QED BY <2>2, <3>1, ListedShape
  <2> HIDE DEF more
  <2> QED BY <2>1, <2>2, <2>3
<1>5. \A n \in DOMAIN as : /\ as[n].id \in 1 .. id - 1 /\ as[n].id \in 1 .. h.next_instance_id - 1
                           /\ as[n].id < id /\ as[n].id # id
  <2> SUFFICES ASSUME NEW n \in DOMAIN as
               PROVE  /\ as[n].id \in 1 .. id - 1 /\ as[n].id \in 1 .. h.next_instance_id - 1
                      /\ as[n].id < id /\ as[n].id # id
    OBVIOUS
  <2>1. as[n].id \in 1 .. id - 1
    BY DEF ListIds
  <2>2. h.next_instance_id = id + 1 /\ id \in Nat \ {0}
    BY <1>1
  <2> HIDE DEF h, id
  <2>3. \A x \in 1 .. id - 1 : x \in 1 .. (id + 1) - 1 /\ x < id /\ x # id
    BY <2>2
  <2> QED BY <2>1, <2>2, <2>3
<1> HIDE DEF h, more, id
<1>6. ListIds(h, more)
  <2>1. ASSUME NEW m \in DOMAIN more, NEW n \in DOMAIN more, m < n PROVE more[m].id < more[n].id
    <3>0. m \in DOMAIN as
      <4> DEFINE top == Len(as)
      <4>1. top \in Nat /\ m \in 1 .. top + 1 /\ n \in 1 .. top + 1
        BY <1>4
      <4> HIDE DEF top
      <4>2. m \in 1 .. top
        BY <2>1, <4>1
      <4> QED BY <1>4, <4>2 DEF top
    <3>1. CASE n = Len(as) + 1
      <4>1. more[n] = a /\ more[m] = as[m] /\ as[m].id < id
        BY <1>4, <1>5, <3>0, <3>1
      <4> QED BY <4>1 DEF id
    <3>2. CASE n # Len(as) + 1
      <4>1. n \in DOMAIN as /\ m \in DOMAIN as
        BY <1>4, <3>0, <3>2
      <4> QED BY <1>4, <2>1, <4>1 DEF ListIds
    <3> QED BY <3>1, <3>2
  <2>2. a.id \in 1 .. h.next_instance_id - 1
    BY <1>1 DEF id
  <2> QED BY <1>4, <1>5, <2>1, <2>2 DEF ListIds
<1>7. ASSUME OtherIds(g, as, s) PROVE OtherIds(h, more, s)
  <2>1. OtherIds(h, as, s)
    BY <1>1, <1>7, GrowsKeeps
  <2>2. \A n \in DOMAIN s : s[n].id \in 1 .. id - 1
    BY <1>7 DEF OtherIds, id
  <2>3. \A n \in DOMAIN s : s[n].id # id
    BY <1>1, <2>2
  <2> QED BY <1>4, <2>1, <2>3 DEF OtherIds, id
<1>8. ASSUME OtherIds(g, as, s) PROVE OtherIds(h, as, Append(s, a))
  <2> DEFINE longer == Append(s, a)
  <2>1. OtherIds(h, as, s)
    BY <1>1, <1>8, GrowsKeeps
  <2>2. Listed(s)
    BY <1>8 DEF OtherIds
  <2>3. /\ Listed(longer) /\ DOMAIN longer = DOMAIN s \cup {Len(s) + 1}
        /\ \A n \in DOMAIN s : longer[n] = s[n]
        /\ longer[Len(s) + 1] = a
    BY <1>2, <2>2
  <2>4. /\ a.id \in 1 .. h.next_instance_id - 1 /\ a.id \notin Ids(h)
        /\ \A m \in DOMAIN as : as[m].id # a.id
    <3>1. a.id = id
      BY DEF id
    <3>2. id \in 1 .. h.next_instance_id - 1
      BY <1>1
    <3> QED BY <1>1, <1>5, <3>1, <3>2
  <2> HIDE DEF longer
  <2>5. OtherIds(h, as, longer)
    BY <2>1, <2>3, <2>4 DEF OtherIds
  <2> QED BY <2>5 DEF longer
<1>9. ASSUME Scanned(g, as, calls, f), calls[a.call].caller = f PROVE Scanned(h, more, calls, f)
  <2>1. Scanned(h, as, calls, f)
    BY <1>1, <1>9, GrowsKeeps
  <2>2. \A i \in CallEdges(h) : Acquired(h, i) < a.id
    <3>1. \A i \in CallEdges(h) : i \in Acquires(g) /\ Acquired(h, i) = Acquired(g, i)
      BY <1>1 DEF Grows, CallEdges, Acquired
    <3> QED BY <3>1, Unused
  <2>3. a.id \notin Ids(h) /\ Ends(h, a.id) = {}
    BY <1>1 DEF id
  <2> QED BY <1>4, <1>9, <2>1, <2>2, <2>3 DEF Scanned
<1> QED BY <1>6, <1>7, <1>8, <1>9 DEF h, more

LEMMA ScanKeeps ==
  ASSUME BuilderInv, pc = "scan", pc' = "scan", module' = module, caller' = caller, todo' = todo,
         k' = k + 1, Grows(graph, graph'),
         ListIds(graph', func_acquires'), Scanned(graph', func_acquires', Calls, caller),
         OtherIds(graph', func_acquires', func_escapes'),
         OtherIds(graph', func_acquires', func_reclaims'), ReleasesListed(func_releases')
  PROVE  BuilderInv'
<1>1. module' \in Modules /\ k' \in Nat \ {0} /\ Linear(graph')
  BY DEF BuilderInv, Grows
<1>2. CallersOnce'
  <2>1. /\ caller \notin todo
        /\ \A i \in CallEdges(graph) : /\ graph.edges[i].site.caller \notin todo
                                       /\ graph.edges[i].site.caller # caller
    BY DEF BuilderInv, CallersOnce, InFunction
  <2>2. \A i \in CallEdges(graph') : i \in CallEdges(graph) /\ graph'.edges[i] = graph.edges[i]
    BY DEF Grows
  <2> QED BY <2>1, <2>2 DEF CallersOnce
<1>3. ListsHold'
  BY DEF ListsHold
<1>4. ScannedAcquires'
  <2>1. Calls' = Calls
    BY DEF Calls
  <2> QED BY <2>1 DEF ScannedAcquires
<1> QED BY <1>1, <1>2, <1>3, <1>4 DEF BuilderInv, QueuesHold, ListHolds, Fallback

LEMMA ScanSteps ==
  ASSUME BuilderInv,
         \/ ScanAcquire \/ ScanReclaim \/ ScanRelease \/ ScanEscape \/ ScanOther \/ ScanSummary
  PROVE  BuilderInv'
<1>1. /\ pc = "scan" /\ pc' = "scan" /\ module' = module /\ caller' = caller /\ todo' = todo
      /\ k' = k + 1 /\ k <= Len(CallsOf(caller)) /\ module \in Modules /\ k \in Nat \ {0}
  BY DEF ScanAcquire, ScanReclaim, ScanRelease, ScanEscape, ScanOther, ScanSummary, Scanning, BuilderInv
<1> DEFINE id == graph.next_instance_id
           more == alloc_instance(graph)
           entry == Entry(id)
<1>2. /\ Linear(graph) /\ ListIds(graph, func_acquires)
      /\ OtherIds(graph, func_acquires, func_escapes)
      /\ OtherIds(graph, func_acquires, func_reclaims)
      /\ Scanned(graph, func_acquires, Calls, caller)
  BY <1>1 DEF BuilderInv, ListsHold, ScannedAcquires, InFunction
<1>3. entry.id = id /\ Calls[entry.call].caller = caller
  BY <1>1, OwnCalls DEF Entry, Here
<1>4. Grows(graph, graph) /\ Grows(graph, more)
  BY <1>2, GrowsByOne
<1>5. /\ ListIds(more, func_acquires)
      /\ OtherIds(more, func_acquires, func_escapes) /\ OtherIds(more, func_acquires, func_reclaims)
      /\ Scanned(more, func_acquires, Calls, caller)
  BY <1>2, <1>4, GrowsKeeps
<1>6. /\ ListIds(more, Append(func_acquires, entry))
      /\ OtherIds(more, Append(func_acquires, entry), func_escapes)
      /\ OtherIds(more, Append(func_acquires, entry), func_reclaims)
      /\ OtherIds(more, func_acquires, Append(func_escapes, entry))
      /\ OtherIds(more, func_acquires, Append(func_reclaims, entry))
      /\ Scanned(more, Append(func_acquires, entry), Calls, caller)
  BY <1>2, <1>3, ListedMore
<1> HIDE DEF entry, more
<1>12. ReleasesListed(func_releases')
  <2>1. ReleasesListed(func_releases)
    BY <1>1 DEF BuilderInv, ListsHold, InFunction
  <2>2. CASE func_releases' = func_releases
    BY <2>1, <2>2
  <2>3. CASE ScanRelease
    <3> DEFINE r == [effect |-> Found.effect, family |-> Found.family, call |-> Here]
               longer == Append(func_releases, r)
    <3>1. func_releases' = func_releases \/ func_releases' = longer
      BY <2>3 DEF ScanRelease
    <3>2. r.effect \in {"Release", "ConditionalRelease"}
      BY <2>3 DEF ScanRelease, Scanning
    <3>3. Listed(func_releases)
      BY <2>1 DEF ReleasesListed
    <3> HIDE DEF r
    <3>4. /\ Listed(longer) /\ Len(longer) = Len(func_releases) + 1
          /\ \A n \in 1 .. Len(func_releases) : longer[n] = func_releases[n]
          /\ longer[Len(func_releases) + 1] = r
      BY <3>3, ListedAppend
    <3> HIDE DEF longer
    <3>5. /\ DOMAIN longer = 1 .. Len(func_releases) + 1
          /\ DOMAIN func_releases = 1 .. Len(func_releases) /\ Len(func_releases) \in Nat
      BY <3>3, <3>4, ListedShape
    <3>6. ASSUME NEW n \in DOMAIN longer PROVE longer[n].effect \in {"Release", "ConditionalRelease"}
      <4>1. CASE n = Len(func_releases) + 1
        BY <3>2, <3>4, <4>1
      <4>2. CASE n # Len(func_releases) + 1
        <5>1. n \in 1 .. Len(func_releases)
          BY <3>5, <4>2
        <5> QED BY <2>1, <3>4, <3>5, <5>1 DEF ReleasesListed
      <4> QED BY <4>1, <4>2
    <3>7. ReleasesListed(longer)
      BY <3>4, <3>6 DEF ReleasesListed
    <3> QED BY <2>1, <3>1, <3>7
  <2> QED BY <2>2, <2>3 DEF ScanAcquire, ScanReclaim, ScanEscape, ScanOther, ScanSummary, lists
<1>7. CASE ScanAcquire
  <2>1. func_escapes' = func_escapes /\ func_reclaims' = func_reclaims
    BY <1>7 DEF ScanAcquire
  <2>2. \/ graph' = graph /\ func_acquires' = func_acquires
        \/ graph' = more /\ func_acquires' = func_acquires
        \/ graph' = more /\ func_acquires' = Append(func_acquires, entry)
    BY <1>7 DEF ScanAcquire, more, entry
  <2>3. CASE graph' = graph /\ func_acquires' = func_acquires
    BY <1>1, <1>2, <1>4, <2>1, <2>3, <1>12, ScanKeeps
  <2>4. CASE graph' = more /\ func_acquires' = func_acquires
    BY <1>1, <1>4, <1>5, <2>1, <2>4, <1>12, ScanKeeps
  <2>5. CASE graph' = more /\ func_acquires' = Append(func_acquires, entry)
    BY <1>1, <1>4, <1>6, <2>1, <2>5, <1>12, ScanKeeps
  <2> QED BY <2>2, <2>3, <2>4, <2>5
<1>8. CASE ScanReclaim
  <2>1. /\ graph' = more /\ func_reclaims' = Append(func_reclaims, entry)
        /\ func_acquires' = func_acquires /\ func_escapes' = func_escapes
    BY <1>8 DEF ScanReclaim, more, entry
  <2> QED BY <1>1, <1>4, <1>5, <1>6, <2>1, <1>12, ScanKeeps
<1>9. CASE ScanRelease \/ ScanOther
  <2>1. /\ graph' = graph /\ func_acquires' = func_acquires
        /\ func_escapes' = func_escapes /\ func_reclaims' = func_reclaims
    BY <1>9 DEF ScanRelease, ScanOther, lists
  <2> QED BY <1>1, <1>2, <1>4, <2>1, <1>12, ScanKeeps
<1>10. CASE ScanEscape
  <2>1. func_acquires' = func_acquires /\ func_reclaims' = func_reclaims
    BY <1>10 DEF ScanEscape
  <2>2. \/ graph' = graph /\ func_escapes' = func_escapes
        \/ graph' = more /\ func_escapes' = Append(func_escapes, entry)
    BY <1>10 DEF ScanEscape, more, entry
  <2>3. CASE graph' = graph /\ func_escapes' = func_escapes
    BY <1>1, <1>2, <1>4, <2>1, <2>3, <1>12, ScanKeeps
  <2>4. CASE graph' = more /\ func_escapes' = Append(func_escapes, entry)
    BY <1>1, <1>4, <1>5, <1>6, <2>1, <2>4, <1>12, ScanKeeps
  <2> QED BY <2>2, <2>3, <2>4
<1>11. CASE ScanSummary
  <2> DEFINE s == Calls[Here].callee
             site == CallSite(Here, "summary")
  <2>1. /\ func_acquires' = func_acquires /\ func_escapes' = func_escapes
        /\ func_reclaims' = func_reclaims
        /\ s \in DOMAIN Summary /\ graph' = SummaryEdges(graph, Summary[s], site)
    BY <1>11 DEF ScanSummary, lists
  <2>2. site.by = "summary"
    BY DEF CallSite, Site
  <2>3. Len(Summary[s]) \in Nat
    BY <1>1, <2>1, CallsListed
  <2> HIDE DEF s, site
  <2>4. Grows(graph, graph')
    BY <1>2, <2>1, <2>2, <2>3, SummariesGrow
  <2>5. /\ ListIds(graph', func_acquires) /\ Scanned(graph', func_acquires, Calls, caller)
        /\ OtherIds(graph', func_acquires, func_escapes)
        /\ OtherIds(graph', func_acquires, func_reclaims)
    BY <1>2, <2>4, GrowsKeeps
  <2> QED BY <1>1, <2>1, <2>4, <2>5, <1>12, ScanKeeps
<1> QED BY <1>7, <1>8, <1>9, <1>10, <1>11
(* Several edges are one after the other. *)
LEMMA ListedSame ==
  ASSUME NEW s, NEW t, Listed(s), Listed(t), Len(s) = Len(t), \A i \in 1 .. Len(s) : s[i] = t[i]
  PROVE  s = t
<1> DEFINE T == {s[i] : i \in DOMAIN s} \cup {t[i] : i \in DOMAIN t}
<1>1. s \in Seq(T) /\ t \in Seq(T)
  BY SeqMonotonic DEF Listed
<1> HIDE DEF T
<1> QED BY <1>1, SeqEqual

(* g, and the first n of the edges es. *)
Grown(g, h, es, n) ==
  /\ GraphShape(h) /\ h.next_instance_id = g.next_instance_id
  /\ Len(h.edges) = Len(g.edges) + n
  /\ \A i \in 1 .. Len(g.edges) : h.edges[i] = g.edges[i]
  /\ \A i \in 1 .. n : h.edges[Len(g.edges) + i] = es[i]

LEMMA OneByOne ==
  ASSUME NEW g, NEW es, GraphShape(g), Listed(es)
  PROVE  \E f : /\ f[0] = g /\ f[Len(es)] = add_edges(g, es)
                /\ \A n \in 0 .. Len(es) : Grown(g, f[n], es, n)
                /\ \A n \in 1 .. Len(es) : Adds(f[n - 1], f[n], es[n])
<1> DEFINE next == g.next_instance_id
           upto(n) == SubSeq(es, 1, n)
           f == [n \in 0 .. Len(es) |-> [edges |-> g.edges \o upto(n), next_instance_id |-> next]]
<1>1. /\ Len(es) \in Nat /\ DOMAIN es = 1 .. Len(es)
      /\ g = [edges |-> g.edges, next_instance_id |-> g.next_instance_id]
      /\ next \in Nat \ {0} /\ Listed(g.edges) /\ Len(g.edges) \in Nat
  BY ListedShape DEF GraphShape
<1>2. \A n \in 0 .. Len(es) : /\ Listed(upto(n)) /\ Len(upto(n)) = n
                              /\ \A i \in 1 .. n : upto(n)[i] = es[i]
  <2> SUFFICES ASSUME NEW n \in 0 .. Len(es)
               PROVE  /\ Listed(upto(n)) /\ Len(upto(n)) = n
                      /\ \A i \in 1 .. n : upto(n)[i] = es[i]
    OBVIOUS
  <2> DEFINE T == {es[i] : i \in DOMAIN es}
             front == SubSeq(es, 1, n)
  <2>1. \A i \in 1 .. n : es[i] \in T
    BY <1>1
  <2> HIDE DEF T
  <2>2. 1 \in Int /\ n \in Int
    BY <1>1
  <2>3. /\ front \in Seq(T)
        /\ Len(front) = IF 1 <= n THEN n - 1 + 1 ELSE 0
        /\ \A i \in 1 .. n - 1 + 1 : front[i] = es[1 + i - 1]
    BY <2>1, <2>2, SubSeqProperties
  <2> HIDE DEF front
  <2>4. Len(front) = n /\ \A i \in 1 .. n : front[i] = es[i]
    BY <1>1, <2>3
  <2>5. Listed(front)
    BY <2>3, ListedWhen
  <2> QED BY <2>4, <2>5 DEF front
<1> HIDE DEF upto
<1>3. \A n \in 0 .. Len(es) :
        /\ Listed(g.edges \o upto(n)) /\ Len(g.edges \o upto(n)) = Len(g.edges) + n
        /\ \A i \in 1 .. Len(g.edges) : (g.edges \o upto(n))[i] = g.edges[i]
        /\ \A i \in 1 .. n : (g.edges \o upto(n))[Len(g.edges) + i] = es[i]
  <2> SUFFICES ASSUME NEW n \in 0 .. Len(es)
               PROVE  /\ Listed(g.edges \o upto(n)) /\ Len(g.edges \o upto(n)) = Len(g.edges) + n
                      /\ \A i \in 1 .. Len(g.edges) : (g.edges \o upto(n))[i] = g.edges[i]
                      /\ \A i \in 1 .. n : (g.edges \o upto(n))[Len(g.edges) + i] = es[i]
    OBVIOUS
  <2> DEFINE both == g.edges \o upto(n)
  <2>1. /\ Listed(both) /\ Len(both) = Len(g.edges) + Len(upto(n))
        /\ \A i \in 1 .. Len(g.edges) : both[i] = g.edges[i]
        /\ \A i \in 1 .. Len(upto(n)) : both[Len(g.edges) + i] = upto(n)[i]
    BY <1>1, <1>2, ListedConcat
  <2> HIDE DEF both
  <2>2. /\ Listed(both) /\ Len(both) = Len(g.edges) + n
        /\ \A i \in 1 .. Len(g.edges) : both[i] = g.edges[i]
        /\ \A i \in 1 .. n : both[Len(g.edges) + i] = es[i]
    BY <1>2, <2>1
  <2> QED BY <2>2 DEF both
<1> DEFINE edges(n) == g.edges \o upto(n)
<1>4. \A n \in 0 .. Len(es) :
        /\ Listed(edges(n)) /\ Len(edges(n)) = Len(g.edges) + n
        /\ \A i \in 1 .. Len(g.edges) : edges(n)[i] = g.edges[i]
        /\ \A i \in 1 .. n : edges(n)[Len(g.edges) + i] = es[i]
  BY <1>3
<1>5. \A n \in 0 .. Len(es) : f[n] = [edges |-> edges(n), next_instance_id |-> next]
  OBVIOUS
<1> HIDE DEF edges, f
<1>6. \A n \in 0 .. Len(es) : f[n].edges = edges(n) /\ f[n].next_instance_id = next
  <2> SUFFICES ASSUME NEW n \in 0 .. Len(es)
               PROVE  f[n].edges = edges(n) /\ f[n].next_instance_id = next
    OBVIOUS
  <2>1. f[n] = [edges |-> edges(n), next_instance_id |-> next]
    BY <1>5
  <2> HIDE DEF next
  <2> QED BY <2>1
<1>7. \A n \in 0 .. Len(es) : Grown(g, f[n], es, n)
  BY <1>1, <1>4, <1>5, <1>6 DEF Grown, GraphShape
<1>8. f[0] = g
  <2>1. 0 \in 0 .. Len(es)
    BY <1>1
  <2>2. edges(0) = g.edges
    BY <1>1, <1>4, <2>1, ListedSame
  <2> QED BY <1>1, <1>5, <2>1, <2>2
<1>9. f[Len(es)] = add_edges(g, es)
  <2>1. Len(es) \in 0 .. Len(es)
    BY <1>1
  <2>2. upto(Len(es)) = es
    BY <1>1, <1>2, <2>1, ListedSame
  <2>3. edges(Len(es)) = g.edges \o es
    BY <2>2 DEF edges
  <2> DEFINE both == g.edges \o es
  <2>4. add_edges(g, es) = [g EXCEPT !.edges = both]
    BY DEF add_edges
  <2> HIDE DEF both
  <2>5. add_edges(g, es) = [edges |-> both, next_instance_id |-> next]
    BY <1>1, <2>4
  <2> QED BY <1>5, <2>1, <2>3, <2>5 DEF both
<1>10. ASSUME NEW n \in 1 .. Len(es) PROVE Adds(f[n - 1], f[n], es[n])
  <2>1. n \in 0 .. Len(es) /\ n - 1 \in 0 .. Len(es) /\ n \in Nat /\ n - 1 \in Nat
    BY <1>1
  <2> DEFINE s == edges(n - 1)
             t == edges(n)
             more == Append(s, es[n])
             base == Len(g.edges)
  <2>2. /\ Listed(s) /\ Len(s) = base + (n - 1)
        /\ \A i \in 1 .. base : s[i] = g.edges[i]
        /\ \A i \in 1 .. n - 1 : s[base + i] = es[i]
        /\ Listed(t) /\ Len(t) = base + n
        /\ \A i \in 1 .. base : t[i] = g.edges[i]
        /\ \A i \in 1 .. n : t[base + i] = es[i]
        /\ base \in Nat
    BY <1>1, <1>4, <2>1
  <2> HIDE DEF s, t, base
  <2>3. /\ Listed(more) /\ Len(more) = Len(s) + 1
        /\ \A i \in 1 .. Len(s) : more[i] = s[i]
        /\ more[Len(s) + 1] = es[n]
    BY <2>2, ListedAppend
  <2> HIDE DEF more
  <2>4. Len(s) + 1 = base + n /\ base + (n - 1) + 1 = base + n
    BY <2>1, <2>2
  <2>5. ASSUME NEW i \in 1 .. Len(t) PROVE t[i] = more[i]
    <3>1. CASE i <= base
      <4>1. i \in 1 .. base /\ i \in 1 .. Len(s)
        BY <2>1, <2>2, <3>1
      <4> QED BY <2>2, <2>3, <4>1
    <3>2. CASE i = base + n
      <4>1. n \in 1 .. n
        BY <2>1
      <4> QED BY <2>2, <2>3, <2>4, <3>2, <4>1
    <3>3. CASE i > base /\ i # base + n
      <4>1. i - base \in 1 .. n - 1 /\ base + (i - base) = i /\ i - base \in 1 .. n
            /\ i \in 1 .. Len(s)
        BY <2>1, <2>2, <3>3
      <4>2. t[i] = es[i - base]
        BY <2>2, <4>1
      <4>3. s[i] = es[i - base]
        BY <2>2, <4>1
      <4> QED BY <2>3, <4>1, <4>2, <4>3
    <3> QED BY <2>1, <2>2, <3>1, <3>2, <3>3
  <2>6. t = more
    BY <2>2, <2>3, <2>4, <2>5, ListedSame
  <2>7. /\ f[n].edges = Append(f[n - 1].edges, es[n])
        /\ f[n].next_instance_id = next /\ f[n - 1].next_instance_id = next
    BY <1>6, <2>1, <2>6 DEF s, t, more
  <2>8. f[n] = [edges |-> f[n].edges, next_instance_id |-> f[n].next_instance_id]
    BY <1>5, <1>6, <2>1
  <2> QED BY <1>1, <2>7, <2>8 DEF Adds
<1> QED BY <1>7, <1>8, <1>9, <1>10

LEMMA AcquireEdgesStep ==
  ASSUME BuilderInv, AcquireEdges
  PROVE  BuilderInv'
<1> DEFINE as == func_acquires
           es == [i \in DOMAIN as |->
                    AcquireEdge(as[i].id, as[i].family, CallSite(as[i].call, "call"))]
           base == Len(graph.edges)
<1>1. /\ pc = "scan" /\ pc' = "releases" /\ k' = 1 /\ todo' = todo
      /\ graph' = add_edges(graph, es)
      /\ module' = module /\ caller' = caller
      /\ func_acquires' = as /\ func_escapes' = func_escapes /\ func_reclaims' = func_reclaims
      /\ func_releases' = func_releases
  BY DEF AcquireEdges, Continue, lists
<1>2. /\ Linear(graph) /\ GraphShape(graph) /\ ListIds(graph, as)
      /\ OtherIds(graph, as, func_escapes) /\ OtherIds(graph, as, func_reclaims)
      /\ Scanned(graph, as, Calls, caller) /\ ReleasesListed(func_releases)
      /\ module \in Modules
  BY <1>1 DEF BuilderInv, ListsHold, ScannedAcquires, InFunction, Linear
<1>3. /\ Len(as) \in Nat /\ DOMAIN as = 1 .. Len(as)
      /\ Listed(es) /\ Len(es) = Len(as)
  <2>1. Len(as) \in Nat /\ DOMAIN as = 1 .. Len(as)
    BY <1>2, ListedShape DEF ListIds
  <2> DEFINE T == {es[i] : i \in DOMAIN es}
  <2>2. es = [i \in 1 .. Len(as) |-> es[i]] /\ DOMAIN es = 1 .. Len(as)
    BY <2>1
  <2> HIDE DEF es
  <2>3. \A i \in 1 .. Len(as) : es[i] \in T
    BY <2>2
  <2> HIDE DEF T
  <2>4. es \in [1 .. Len(as) -> T]
    BY <2>2, <2>3
  <2>5. es \in Seq(T)
    BY <2>1, <2>4
  <2>6. Len(es) = Len(as)
    BY <2>1, <2>2, <2>5, LenProperties
  <2> QED BY <2>1, <2>5, <2>6, ListedWhen
<1>4. \A n \in 1 .. Len(as) : /\ es[n].effect = "Acquire" /\ es[n].result = as[n].id
                              /\ es[n].family = as[n].family /\ es[n].site.by = "call"
                              /\ es[n].site.caller = caller
  <2> SUFFICES ASSUME NEW n \in 1 .. Len(as)
               PROVE  /\ es[n].effect = "Acquire" /\ es[n].result = as[n].id
                      /\ es[n].family = as[n].family /\ es[n].site.by = "call"
                      /\ es[n].site.caller = caller
    OBVIOUS
  <2>1. es[n] = AcquireEdge(as[n].id, as[n].family, CallSite(as[n].call, "call"))
    BY <1>3
  <2>2. Calls[as[n].call].caller = caller
    BY <1>2, <1>3 DEF Scanned
  <2> HIDE DEF es
  <2> QED BY <2>1, <2>2 DEF AcquireEdge, ContractEdge, CallSite, Site
<1> HIDE DEF es
<1>5. PICK f : /\ f[0] = graph /\ f[Len(es)] = add_edges(graph, es)
               /\ \A n \in 0 .. Len(es) : Grown(graph, f[n], es, n)
               /\ \A n \in 1 .. Len(es) : Adds(f[n - 1], f[n], es[n])
  BY <1>2, <1>3, OneByOne
<1> DEFINE new(n) == base + 1 .. base + n
           Grew(n) == /\ Linear(f[n])
                      /\ Acquires(f[n]) = Acquires(graph) \cup new(n)
                      /\ Live(f[n]) = Live(graph) \cup new(n)
                      /\ \A x : Ends(f[n], x) = Ends(graph, x)
           T == {n \in Nat : Grew(n)}
<1>6. base \in Nat /\ Acquires(graph) \subseteq 1 .. base
  BY <1>2, ListedShape DEF GraphShape, Acquires
<1>7. \A n \in 0 .. Len(as) :
        /\ \A i \in Acquires(graph) : f[n].edges[i] = graph.edges[i]
        /\ \A m \in 1 .. n : f[n].edges[base + m] = es[m]
        /\ f[n].next_instance_id = graph.next_instance_id
        /\ Top(f[n]) = base + n + 1
  BY <1>3, <1>5, <1>6 DEF Grown, Top
<1>8. \A n \in 0 .. Len(as) : \A i \in new(n) :
        /\ i - base \in 1 .. n /\ i - base \in DOMAIN as /\ f[n].edges[i] = es[i - base]
  <2> SUFFICES ASSUME NEW n \in 0 .. Len(as), NEW i \in new(n)
               PROVE  /\ i - base \in 1 .. n /\ i - base \in DOMAIN as
                      /\ f[n].edges[i] = es[i - base]
    OBVIOUS
  <2>1. i - base \in 1 .. n /\ i - base \in 1 .. Len(as) /\ base + (i - base) = i
    BY <1>3, <1>6
  <2> QED BY <1>3, <1>7, <2>1
<1> HIDE DEF base
<1>9. 0 \in T
  <2>1. new(0) = {}
    BY <1>6
  <2> QED BY <1>2, <1>5, <2>1
<1>10. ASSUME NEW n \in 0 .. Len(as) - 1, n \in T PROVE n + 1 \in T
  <2> DEFINE g == f[n]
             h == f[n + 1]
             e == es[n + 1]
             a == as[n + 1]
  <2>1. /\ n \in 0 .. Len(as) /\ n + 1 \in 1 .. Len(as) /\ n + 1 \in 0 .. Len(as) /\ (n + 1) - 1 = n
        /\ n + 1 \in Nat /\ n \in Nat
    BY <1>3
  <2>2. /\ Linear(g) /\ Acquires(g) = Acquires(graph) \cup new(n)
        /\ Live(g) = Live(graph) \cup new(n) /\ \A x : Ends(g, x) = Ends(graph, x)
    BY <1>10
  <2>3. Adds(g, h, e)
    BY <1>3, <1>5, <2>1
  <2>4. /\ e.effect = "Acquire" /\ e.result = a.id /\ e.site.by = "call"
    BY <1>4, <2>1
  <2>5. /\ \A i \in Acquires(graph) : g.edges[i] = graph.edges[i]
        /\ \A i \in new(n) : i - base \in 1 .. n /\ i - base \in DOMAIN as /\ g.edges[i] = es[i - base]
        /\ Top(g) = base + n + 1
        /\ h.next_instance_id = graph.next_instance_id
    BY <1>7, <1>8, <2>1
  <2>6. /\ a.id \in 1 .. graph.next_instance_id - 1
        /\ a.id \notin Ids(graph) /\ Ends(graph, a.id) = {}
        /\ \A i \in CallEdges(graph) : Acquired(graph, i) < a.id
        /\ \A m \in 1 .. n : as[m].id < a.id /\ as[m].id \in Nat
    <3>1. n + 1 \in DOMAIN as
      BY <1>3, <2>1
    <3>2. \A m \in 1 .. n : m \in DOMAIN as /\ m < n + 1
      BY <1>3, <2>1
    <3>3. \A m \in DOMAIN as : as[m].id \in 1 .. graph.next_instance_id - 1
      BY <1>2 DEF ListIds
    <3>4. \A m \in DOMAIN as : as[m].id \in Nat
      BY <3>3
    <3> QED BY <1>2, <3>1, <3>2, <3>3, <3>4 DEF ListIds, Scanned
  <2> HIDE DEF g, h, e, a, new
  <2>7. \A i \in new(n) : Acquired(g, i) < a.id /\ Acquired(g, i) \in Nat
    BY <1>3, <1>4, <2>5, <2>6 DEF Acquired
  <2>8. \A i \in Acquires(graph) : Acquired(g, i) = Acquired(graph, i)
    BY <2>5 DEF Acquired
  <2>9. a.id \in Nat
    BY <2>6
  <2>10. e.result \notin Ids(g)
    <3>1. \A i \in new(n) : Acquired(g, i) # a.id
      BY <2>7, <2>9
    <3> QED BY <2>2, <2>4, <2>6, <2>8, <3>1 DEF Ids
  <2>11. ASSUME NEW i \in Acquires(g), InOneList(g.edges[i], e) PROVE Acquired(g, i) < e.result
    <3>1. CASE i \in new(n)
      BY <2>4, <2>7, <3>1
    <3>2. CASE i \in Acquires(graph)
      <4>1. i \in CallEdges(graph)
        BY <2>4, <2>5, <2>11, <3>2 DEF CallEdges, InOneList
      <4> QED BY <2>4, <2>6, <2>8, <3>2, <4>1
    <3> QED BY <2>2, <3>1, <3>2
  <2>12. e.result \in 1 .. h.next_instance_id - 1 /\ Ends(g, e.result) = {}
    BY <2>2, <2>4, <2>5, <2>6
  <2>13. /\ Linear(h)
         /\ Acquires(h) = Acquires(g) \cup {Top(g)} /\ Live(h) = Live(g) \cup {Top(g)}
    BY <2>2, <2>3, <2>4, <2>10, <2>11, <2>12, BirthEdge
  <2>14. \A x : Ends(h, x) = Ends(g, x)
    <3>1. e.effect \notin Ending
      BY <2>4 DEF Ending, ReleaseOrCross
    <3> QED BY <2>2, <2>3, <3>1, AddedSets DEF Linear
  <2>15. new(n) \cup {Top(g)} = new(n + 1)
    BY <1>6, <2>1, <2>5 DEF new
  <2>16. Grew(n + 1)
    BY <2>2, <2>13, <2>14, <2>15 DEF h
  <2> QED BY <2>1, <2>16
<1>11. Grew(Len(as))
  <2> HIDE DEF T
  <2>1. \A n \in 0 .. Len(as) : n \in T
    BY <1>3, <1>9, <1>10, Ascend
  <2>2. Len(as) \in T
    BY <1>3, <2>1
  <2> QED BY <2>2 DEF T
<1>12. graph' = f[Len(as)] /\ Len(as) \in 0 .. Len(as)
  BY <1>1, <1>3, <1>5
<1> DEFINE made == new(Len(as))
<1>13. /\ Linear(graph') /\ Acquires(graph') = Acquires(graph) \cup made
       /\ Live(graph') = Live(graph) \cup made
       /\ \A i \in Acquires(graph) : graph'.edges[i] = graph.edges[i]
       /\ graph'.next_instance_id = graph.next_instance_id
       /\ \A i \in made : i - base \in DOMAIN as /\ graph'.edges[i] = es[i - base]
       /\ \A n \in DOMAIN as : base + n \in made /\ graph'.edges[base + n] = es[n]
  <2>1. \A n \in DOMAIN as : base + n \in made
    BY <1>3, <1>6
  <2> QED BY <1>3, <1>7, <1>8, <1>11, <1>12, <2>1
<1> HIDE DEF made
<1>14. \A i \in made : /\ graph'.edges[i].site.by = "call" /\ graph'.edges[i].site.caller = caller
                       /\ Acquired(graph', i) = as[i - base].id
  BY <1>3, <1>4, <1>13 DEF Acquired
<1>15. CallEdges(graph') = CallEdges(graph) \cup made
  BY <1>13, <1>14 DEF CallEdges
<1>16. /\ caller \notin todo
       /\ \A i \in CallEdges(graph) : /\ graph.edges[i].site.caller \notin todo
                                      /\ graph.edges[i].site.caller # caller
  BY <1>1 DEF BuilderInv, CallersOnce, InFunction
<1>17. \A i \in CallEdges(graph) : i \in Acquires(graph) /\ graph'.edges[i] = graph.edges[i]
  BY <1>13 DEF CallEdges
<1>18. CallersOnce'
  BY <1>1, <1>14, <1>15, <1>16, <1>17 DEF CallersOnce
<1>19. ListsHold'
  <2>1. ListIds(graph', as)
    BY <1>2, <1>13 DEF ListIds
  <2>2. \A x \in Ids(graph') : x \in Ids(graph) \/ \E n \in DOMAIN as : x = as[n].id
    BY <1>13, <1>14 DEF Ids, Acquired
  <2>3. OtherIds(graph', as, func_escapes)
    BY <1>2, <1>13, <2>2 DEF OtherIds
  <2>4. OtherIds(graph', as, func_reclaims)
    BY <1>2, <1>13, <2>2 DEF OtherIds
  <2> QED BY <1>1, <1>2, <2>1, <2>3, <2>4 DEF ListsHold
<1>20. Paired(graph', as, caller, {})
  <2>1. ASSUME NEW n \in DOMAIN as
        PROVE  \E i \in CallEdges(graph') :
                 EdgeFor(graph', i, as[n], caller) /\ (i \in Live(graph') <=> as[n].id \notin {})
    <3> DEFINE i == base + n
    <3>1. i \in made /\ graph'.edges[i] = es[n]
      BY <1>13
    <3>2. i \in CallEdges(graph') /\ i \in Live(graph')
      BY <1>13, <1>15, <3>1
    <3> HIDE DEF i
    <3>3. EdgeFor(graph', i, as[n], caller)
      BY <1>3, <1>4, <3>1, <3>2 DEF EdgeFor, Acquired
    <3> QED BY <3>2, <3>3
  <2>2. ASSUME NEW i \in CallEdges(graph'), graph'.edges[i].site.caller = caller
        PROVE  \E n \in DOMAIN as : as[n].id = Acquired(graph', i)
    <3>1. i \in made
      BY <1>15, <1>16, <1>17, <2>2
    <3> QED BY <1>13, <1>14, <3>1
  <2> QED BY <2>1, <2>2 DEF Paired
<1>21. ListHolds'
  BY <1>1, <1>20 DEF ListHolds
<1> QED BY <1>1, <1>2, <1>13, <1>18, <1>19, <1>21 DEF BuilderInv, QueuesHold, ScannedAcquires, Fallback
-----------------------------------------------------------------------------
(* Releases, escapes and reclaims. *)

(* What an edge that acquires nothing leaves as it was. *)
SameLists(g, h) ==
  /\ Linear(h) /\ g.next_instance_id <= h.next_instance_id
  /\ Acquires(h) = Acquires(g) /\ Ids(h) = Ids(g) /\ CallEdges(h) = CallEdges(g)
  /\ \A i \in Acquires(g) : h.edges[i] = g.edges[i] /\ Acquired(h, i) = Acquired(g, i)

LEMMA NeutralKeeps ==
  ASSUME NEW g, NEW h, NEW e, Linear(g), Adds(g, h, e), e.effect # "Acquire",
         e.effect \in Ending =>
           e.source \in 0 .. h.next_instance_id - 1 /\ e.source \notin Ids(g)
  PROVE  SameLists(g, h) /\ Live(h) = Live(g)
<1>1. Linear(h) /\ Acquires(h) = Acquires(g) /\ Ids(h) = Ids(g) /\ Live(h) = Live(g)
  BY NeutralEdge
<1>2. \A i \in Acquires(g) : h.edges[i] = g.edges[i] /\ Acquired(h, i) = Acquired(g, i)
  BY AddedSets DEF Linear
<1>3. CallEdges(h) = CallEdges(g)
  BY <1>1, <1>2 DEF CallEdges
<1> QED BY <1>1, <1>2, <1>3 DEF SameLists, Adds

LEMMA SameKeeps ==
  ASSUME NEW g, NEW h, NEW as, NEW s, Linear(g), SameLists(g, h)
  PROVE  /\ ListIds(g, as) => ListIds(h, as)
         /\ OtherIds(g, as, s) => OtherIds(h, as, s)
         /\ \A f, gone : Live(h) = Live(g) /\ Paired(g, as, f, gone) => Paired(h, as, f, gone)
<1>1. /\ g.next_instance_id \in Nat /\ h.next_instance_id \in Nat
      /\ g.next_instance_id <= h.next_instance_id
  BY DEF SameLists, Linear, GraphShape
<1>2. \A x \in 1 .. g.next_instance_id - 1 : x \in 1 .. h.next_instance_id - 1
  BY <1>1
<1>3. ASSUME ListIds(g, as) PROVE ListIds(h, as)
  BY <1>2, <1>3 DEF ListIds
<1>4. ASSUME OtherIds(g, as, s) PROVE OtherIds(h, as, s)
  BY <1>2, <1>4 DEF OtherIds, SameLists
<1>5. ASSUME NEW f, NEW gone, Live(h) = Live(g), Paired(g, as, f, gone) PROVE Paired(h, as, f, gone)
  <2>1. \A i \in CallEdges(g) : i \in Acquires(g)
    BY DEF CallEdges
  <2>2. \A i \in CallEdges(g) : h.edges[i] = g.edges[i] /\ Acquired(h, i) = Acquired(g, i)
    BY <2>1 DEF SameLists
  <2> QED BY <1>5, <2>2 DEF SameLists, Paired, EdgeFor
<1> QED BY <1>3, <1>4, <1>5

(* The ids of a list ascend. *)
LEMMA IdsAscend ==
  ASSUME NEW g, NEW as, Linear(g), ListIds(g, as)
  PROVE  /\ Listed(as) /\ DOMAIN as = 1 .. Len(as) /\ Len(as) \in Nat
         /\ \A m \in DOMAIN as : as[m].id \in Nat /\ m \in Nat
         /\ \A l, m \in DOMAIN as : as[l].id <= as[m].id => l <= m
         /\ \A l, m \in DOMAIN as : l # m => as[l].id # as[m].id
<1>1. Listed(as) /\ DOMAIN as = 1 .. Len(as) /\ Len(as) \in Nat
  BY ListedShape DEF ListIds
<1>2. ASSUME NEW m \in DOMAIN as PROVE as[m].id \in Nat /\ m \in Nat
  <2> DEFINE x == as[m].id
             next == g.next_instance_id
  <2>1. x \in 1 .. next - 1 /\ next \in Nat
    BY DEF ListIds, Linear, GraphShape
  <2>2. m \in Nat
    BY <1>1
  <2> HIDE DEF x, next
  <2>3. x \in Nat
    BY <2>1
  <2> QED BY <2>2, <2>3 DEF x
<1>3. ASSUME NEW l \in DOMAIN as, NEW m \in DOMAIN as, as[l].id <= as[m].id PROVE l <= m
  <2> DEFINE x == as[l].id
             y == as[m].id
  <2>1. l \in Nat /\ m \in Nat /\ x \in Nat /\ y \in Nat
    BY <1>2
  <2>2. m < l => y < x
    BY DEF ListIds
  <2>3. x <= y
    BY <1>3
  <2> HIDE DEF x, y
  <2> QED BY <2>1, <2>2, <2>3
<1>4. ASSUME NEW l \in DOMAIN as, NEW m \in DOMAIN as, l # m PROVE as[l].id # as[m].id
  <2> DEFINE x == as[l].id
             y == as[m].id
  <2>1. l \in Nat /\ m \in Nat /\ x \in Nat /\ y \in Nat
    BY <1>2
  <2>2. (m < l => y < x) /\ (l < m => x < y)
    BY DEF ListIds
  <2> HIDE DEF x, y
  <2>3. x # y
    BY <1>4, <2>1, <2>2
  <2> QED BY <2>3 DEF x, y
<1> QED BY <1>1, <1>2, <1>3, <1>4

(* The end of the eldest acquire of its family that is left. *)
EldestLeft(as, gone, n) ==
  /\ n \in DOMAIN as /\ as[n].id \notin gone
  /\ \A m \in DOMAIN as : m < n /\ as[m].family = as[n].family => as[m].id \in gone

LEMMA EndPaired ==
  ASSUME NEW g, NEW h, NEW e, NEW as, NEW f, NEW gone, NEW n, EldestLeft(as, gone, n),
         Linear(g), Adds(g, h, e), e.effect \in Ending, e.source = as[n].id,
         ListIds(g, as), Paired(g, as, f, gone)
  PROVE  /\ SameLists(g, h)
         /\ \E j \in CallEdges(g) : Acquired(g, j) = as[n].id /\ Live(h) = Live(g) \ {j}
<1>0. /\ n \in DOMAIN as /\ as[n].id \notin gone
      /\ \A m \in DOMAIN as : m < n /\ as[m].family = as[n].family => as[m].id \in gone
  BY DEF EldestLeft
<1>1. PICK j \in CallEdges(g) : EdgeFor(g, j, as[n], f) /\ j \in Live(g)
  BY <1>0 DEF Paired
<1>2. /\ j \in Acquires(g) /\ Acquired(g, j) = as[n].id /\ g.edges[j].site.by = "call"
      /\ g.edges[j].site.caller = f /\ g.edges[j].family = as[n].family
  BY <1>1 DEF EdgeFor, CallEdges
<1>3. /\ \A m \in DOMAIN as : as[m].id \in Nat /\ m \in Nat
      /\ \A l, m \in DOMAIN as : as[l].id <= as[m].id => l <= m
      /\ \A l, m \in DOMAIN as : l # m => as[l].id # as[m].id
  BY IdsAscend
<1>4. ASSUME NEW i \in Live(g), i < j, InOneList(g.edges[i], g.edges[j]) PROVE FALSE
  <2>1. i \in Acquires(g)
    BY DEF Live
  <2>2. i \in CallEdges(g) /\ g.edges[i].site.caller = f /\ g.edges[i].family = as[n].family
    BY <1>2, <1>4, <2>1 DEF CallEdges, InOneList, ListFor
  <2>3. PICK m \in DOMAIN as : as[m].id = Acquired(g, i)
    BY <2>2 DEF Paired
  <2>4. PICK l \in CallEdges(g) : EdgeFor(g, l, as[m], f) /\ (l \in Live(g) <=> as[m].id \notin gone)
    BY DEF Paired
  <2>5. l = i
    BY <2>1, <2>3, <2>4 DEF EdgeFor, CallEdges, Linear, OneBirth
  <2>6. as[m].family = as[n].family /\ as[m].id \notin gone
    BY <2>2, <2>4, <2>5 DEF EdgeFor
  <2>7. as[m].id < as[n].id
    BY <1>2, <1>4, <2>1, <2>3 DEF Linear, Fifo
  <2> DEFINE x == as[m].id
             y == as[n].id
  <2>8. x \in Nat /\ y \in Nat /\ m \in Nat /\ n \in Nat /\ x < y /\ (x <= y => m <= n)
    BY <1>0, <1>3, <2>7
  <2>9. m = n => x = y
    OBVIOUS
  <2> HIDE DEF x, y
  <2>10. m < n
    BY <2>8, <2>9
  <2> QED BY <1>0, <2>6, <2>10
<1>5. Linear(h) /\ Acquires(h) = Acquires(g) /\ Ids(h) = Ids(g) /\ Live(h) = Live(g) \ {j}
  <2>1. j \in Live(g) /\ e.source = Acquired(g, j)
    BY <1>1, <1>2
  <2>2. \A i \in Live(g) : i < j => ~InOneList(g.edges[i], g.edges[j])
    BY <1>4
  <2> QED BY <2>1, <2>2, EndEdge
<1>6. \A i \in Acquires(g) : h.edges[i] = g.edges[i] /\ Acquired(h, i) = Acquired(g, i)
  BY AddedSets DEF Linear
<1>7. CallEdges(h) = CallEdges(g)
  BY <1>5, <1>6 DEF CallEdges
<1>8. SameLists(g, h)
  BY <1>5, <1>6, <1>7 DEF SameLists, Adds
<1> QED BY <1>1, <1>2, <1>5, <1>8

(* It leaves the list, or is marked. *)
LEMMA PairedAfterEnd ==
  ASSUME NEW g, NEW h, NEW as, NEW f, NEW gone, NEW n \in DOMAIN as, NEW j \in CallEdges(g),
         Linear(g), SameLists(g, h), Acquired(g, j) = as[n].id, Live(h) = Live(g) \ {j},
         ListIds(g, as), Paired(g, as, f, gone)
  PROVE  /\ Paired(h, as, f, gone \cup {as[n].id})
         /\ as[n].id \notin gone => Paired(h, RemoveAt(as, n), f, gone)
         /\ ListIds(h, RemoveAt(as, n))
         /\ \A s : OtherIds(g, as, s) => OtherIds(h, RemoveAt(as, n), s)
<1> DEFINE rest == RemoveAt(as, n)
<1>1. /\ Listed(as) /\ DOMAIN as = 1 .. Len(as) /\ Len(as) \in Nat
      /\ \A l, m \in DOMAIN as : l < m => as[l].id < as[m].id
      /\ \A m \in DOMAIN as : m \in Nat
  BY IdsAscend DEF ListIds
<1>2. \A l, m \in DOMAIN as : l # m => as[l].id # as[m].id
  BY IdsAscend
<1>3. /\ Listed(rest) /\ DOMAIN rest = 1 .. Len(as) - 1
      /\ \A i \in 1 .. n - 1 : rest[i] = as[i]
      /\ \A i \in n .. Len(as) - 1 : rest[i] = as[i + 1]
  <2>1. /\ Listed(rest) /\ Len(rest) = Len(as) - 1
        /\ \A i \in 1 .. n - 1 : rest[i] = as[i]
        /\ \A i \in n .. Len(as) - 1 : rest[i] = as[i + 1]
    BY <1>1, ListedRemove
  <2> HIDE DEF rest
  <2> QED BY <2>1, ListedShape
<1> HIDE DEF rest
<1> DEFINE at(i) == IF i < n THEN i ELSE i + 1
           top == Len(as)
<1>0. /\ top \in Nat /\ n \in 1 .. top /\ DOMAIN as = 1 .. top /\ DOMAIN rest = 1 .. top - 1
      /\ \A i \in 1 .. n - 1 : rest[i] = as[i]
      /\ \A i \in n .. top - 1 : rest[i] = as[i + 1]
  BY <1>1, <1>3
<1> HIDE DEF top
<1>4. \A i \in DOMAIN rest : at(i) \in DOMAIN as /\ at(i) # n /\ rest[i] = as[at(i)]
  <2> SUFFICES ASSUME NEW i \in DOMAIN rest
               PROVE  at(i) \in DOMAIN as /\ at(i) # n /\ rest[i] = as[at(i)]
    OBVIOUS
  <2>1. CASE i < n
    <3>1. i \in 1 .. n - 1 /\ i \in 1 .. top /\ i # n
      BY <1>0, <2>1
    <3> QED BY <1>0, <2>1, <3>1
  <2>2. CASE ~(i < n)
    <3>1. i \in n .. top - 1 /\ i + 1 \in 1 .. top /\ i + 1 # n
      BY <1>0, <2>2
    <3> QED BY <1>0, <2>2, <3>1
  <2> QED BY <2>1, <2>2
<1>5. \A i, l \in DOMAIN rest : i < l => at(i) < at(l)
  BY <1>0
<1>6. \A m \in DOMAIN as \ {n} : \E i \in DOMAIN rest : rest[i] = as[m]
  <2> SUFFICES ASSUME NEW m \in DOMAIN as, m # n PROVE \E i \in DOMAIN rest : rest[i] = as[m]
    OBVIOUS
  <2>1. CASE m < n
    <3>1. m \in DOMAIN rest /\ m \in 1 .. n - 1
      BY <1>0, <2>1
    <3> QED BY <1>0, <3>1
  <2>2. CASE n < m
    <3>1. m - 1 \in DOMAIN rest /\ m - 1 \in n .. top - 1 /\ (m - 1) + 1 = m
      BY <1>0, <2>2
    <3> QED BY <1>0, <3>1
  <2>3. m < n \/ n < m
    BY <1>0
  <2> QED BY <2>1, <2>2, <2>3
<1> HIDE DEF at
<1>7. \A i \in DOMAIN rest : \E m \in DOMAIN as : m # n /\ rest[i] = as[m]
  BY <1>4
<1>8. /\ \A i \in CallEdges(g) : /\ h.edges[i] = g.edges[i] /\ Acquired(h, i) = Acquired(g, i)
                                 /\ i \in Acquires(g)
      /\ CallEdges(h) = CallEdges(g)
  BY DEF SameLists, CallEdges
<1>9. \A i \in CallEdges(g) : Acquired(g, i) = as[n].id => i = j
  BY <1>8 DEF Linear, OneBirth
<1>10. \A i \in CallEdges(g) : i \in Live(h) <=> i \in Live(g) /\ Acquired(g, i) # as[n].id
  BY <1>9
<1>11. Paired(h, as, f, gone \cup {as[n].id})
  <2>1. ASSUME NEW m \in DOMAIN as
        PROVE  \E i \in CallEdges(h) :
                 EdgeFor(h, i, as[m], f) /\ (i \in Live(h) <=> as[m].id \notin gone \cup {as[n].id})
    <3>1. PICK i \in CallEdges(g) : EdgeFor(g, i, as[m], f) /\ (i \in Live(g) <=> as[m].id \notin gone)
      BY DEF Paired
    <3>2. EdgeFor(h, i, as[m], f)
      BY <1>8, <3>1 DEF EdgeFor
    <3>3. i \in Live(h) <=> as[m].id \notin gone \cup {as[n].id}
      BY <1>10, <3>1 DEF EdgeFor
    <3> QED BY <1>8, <3>2, <3>3
  <2>2. ASSUME NEW i \in CallEdges(h), i \in Live(h), h.edges[i].site.caller = f
        PROVE  \E m \in DOMAIN as : as[m].id = Acquired(h, i)
    BY <1>8, <1>10, <2>2 DEF Paired
  <2> QED BY <2>1, <2>2 DEF Paired
<1>12. ASSUME as[n].id \notin gone PROVE Paired(h, rest, f, gone)
  <2>1. ASSUME NEW l \in DOMAIN rest
        PROVE  \E i \in CallEdges(h) :
                 EdgeFor(h, i, rest[l], f) /\ (i \in Live(h) <=> rest[l].id \notin gone)
    <3>1. PICK m \in DOMAIN as : m # n /\ rest[l] = as[m]
      BY <1>7
    <3>2. PICK i \in CallEdges(g) : EdgeFor(g, i, as[m], f) /\ (i \in Live(g) <=> as[m].id \notin gone)
      BY DEF Paired
    <3>3. EdgeFor(h, i, as[m], f)
      BY <1>8, <3>2 DEF EdgeFor
    <3>4. as[m].id # as[n].id
      BY <1>2, <3>1
    <3>5. i \in Live(h) <=> as[m].id \notin gone
      BY <1>10, <3>2, <3>4 DEF EdgeFor
    <3> QED BY <1>8, <3>1, <3>3, <3>5
  <2>2. ASSUME NEW i \in CallEdges(h), i \in Live(h), h.edges[i].site.caller = f
        PROVE  \E l \in DOMAIN rest : rest[l].id = Acquired(h, i)
    <3>1. PICK m \in DOMAIN as : as[m].id = Acquired(g, i)
      BY <1>8, <1>10, <2>2 DEF Paired
    <3>2. m # n
      BY <1>8, <1>10, <2>2, <3>1
    <3>3. PICK l \in DOMAIN rest : rest[l] = as[m]
      BY <1>6, <3>2
    <3> QED BY <1>8, <2>2, <3>1, <3>3
  <2> QED BY <2>1, <2>2 DEF Paired
<1>13. ListIds(h, as)
  BY SameKeeps
<1>14. ListIds(h, rest)
  <2>1. ASSUME NEW i \in DOMAIN rest, NEW l \in DOMAIN rest, i < l PROVE rest[i].id < rest[l].id
    BY <1>1, <1>4, <1>5, <2>1
  <2> QED BY <1>3, <1>7, <1>13, <2>1 DEF ListIds
<1>15. ASSUME NEW s, OtherIds(g, as, s) PROVE OtherIds(h, rest, s)
  <2>1. OtherIds(h, as, s)
    BY <1>15, SameKeeps
  <2> QED BY <1>7, <2>1 DEF OtherIds
<1> QED BY <1>11, <1>12, <1>14, <1>15 DEF rest

(* The first acquire of a family, and what a release consumes. *)
Eldest(n) ==
  n \in DOMAIN func_acquires
  /\ \A m \in DOMAIN func_acquires : func_acquires[m].family = func_acquires[n].family => n <= m

LEMMA OfFamilyIs ==
  ASSUME Listed(func_acquires), NEW family
  PROVE  \/ /\ OfFamily(family) = 0
            /\ \A m \in DOMAIN func_acquires : func_acquires[m].family # family
         \/ Eldest(OfFamily(family)) /\ OfFamily(family) # 0
<1> DEFINE I == {i \in 1 .. Len(func_acquires) : func_acquires[i].family = family}
<1>1. Len(func_acquires) \in Nat /\ DOMAIN func_acquires = 1 .. Len(func_acquires)
  BY ListedShape
<1>2. OfFamily(family) = IF I # {} THEN Min(I) ELSE 0
  BY DEF OfFamily, SelectInSeq
<1>3. I \subseteq Nat
  OBVIOUS
<1>4. CASE I # {}
  <2>1. Min(I) \in I /\ \A i \in I : Min(I) <= i
    BY <1>3, <1>4, FirstOf
  <2>2. OfFamily(family) \in I /\ \A i \in I : OfFamily(family) <= i
    BY <1>2, <1>4, <2>1
  <2> QED BY <1>1, <2>2 DEF Eldest
<1>5. CASE I = {}
  BY <1>1, <1>2, <1>5
<1> QED BY <1>4, <1>5

LEMMA ReleaseMatchIs ==
  ASSUME Listed(func_acquires), NEW family
  PROVE  ReleaseMatch(family) = 0 \/ (Eldest(ReleaseMatch(family)) /\ ReleaseMatch(family) # 0)
<1> DEFINE viable == {i \in DOMAIN func_acquires :
                        /\ UnknownFamily \notin {func_acquires[i].family, family}
                        /\ ~are_families_compatible(func_acquires[i].family, family)}
<1>1. Len(func_acquires) \in Nat /\ DOMAIN func_acquires = 1 .. Len(func_acquires)
  BY ListedShape
<1>2. IsFiniteSet(viable)
  <2>1. IsFiniteSet(1 .. Len(func_acquires)) /\ viable \subseteq 1 .. Len(func_acquires)
    BY <1>1, FS_Interval
  <2> QED BY <2>1, FS_Subset
<1>3. CASE OfFamily(family) # 0
  BY <1>3, OfFamilyIs DEF ReleaseMatch
<1>4. CASE OfFamily(family) = 0 /\ Cardinality(viable) = 1
  <2>1. PICK n : viable = {n}
    BY <1>2, <1>4, FS_Singleton
  <2>2. ReleaseMatch(family) = n
    <3>1. ReleaseMatch(family) = CHOOSE i \in viable : TRUE
      BY <1>4 DEF ReleaseMatch
    <3> HIDE DEF viable
    <3> QED BY <2>1, <3>1
  <2>3. n \in DOMAIN func_acquires /\ n \in Nat /\ n # 0
    BY <1>1, <2>1
  <2>4. \A m \in DOMAIN func_acquires :
          func_acquires[m].family = func_acquires[n].family => m \in viable
    BY <2>1
  <2>5. Eldest(n)
    BY <2>1, <2>3, <2>4 DEF Eldest
  <2> QED BY <2>2, <2>3, <2>5
<1>5. CASE OfFamily(family) = 0 /\ Cardinality(viable) # 1
  BY <1>5 DEF ReleaseMatch
<1> QED BY <1>3, <1>4, <1>5
Pairing == {"releases", "escapes", "reclaims", "callbacks"}

(* What all steps between the scan of a function and the next share.       *)
LEMMA PairingKeeps ==
  ASSUME BuilderInv, pc \in Pairing, pc' \in Pairing, module' = module, caller' = caller,
         todo' = todo, k' \in Nat \ {0}, SameLists(graph, graph'), func_releases' = func_releases,
         ListIds(graph', func_acquires'), OtherIds(graph', func_acquires', func_escapes'),
         OtherIds(graph', func_acquires', func_reclaims'), ListHolds', Fallback'
  PROVE  BuilderInv'
<1>1. pc \in InFunction /\ pc' \in InFunction /\ pc # "scan" /\ pc' # "scan"
      /\ pc # "callers" /\ pc' # "callers" /\ pc' \notin {"facts", "declared"}
  BY DEF Pairing, InFunction
<1>2. module' \in Modules /\ Linear(graph') /\ ReleasesListed(func_releases')
  BY <1>1 DEF BuilderInv, SameLists, ListsHold
<1>3. CallersOnce'
  <2>1. caller \notin todo /\ \A i \in CallEdges(graph) : graph.edges[i].site.caller \notin todo
    BY <1>1 DEF BuilderInv, CallersOnce
  <2>2. \A i \in CallEdges(graph') : i \in CallEdges(graph) /\ graph'.edges[i] = graph.edges[i]
    BY DEF SameLists, CallEdges
  <2> QED BY <1>1, <2>1, <2>2 DEF CallersOnce
<1>4. ListsHold'
  BY <1>2 DEF ListsHold
<1> QED BY <1>1, <1>2, <1>3, <1>4 DEF BuilderInv, QueuesHold, ScannedAcquires

(* The lists as they are in all these phases.                              *)
LEMMA ListsAre ==
  ASSUME BuilderInv, pc \in Pairing
  PROVE  /\ Linear(graph) /\ module \in Modules /\ k \in Nat \ {0}
         /\ ListIds(graph, func_acquires) /\ ReleasesListed(func_releases)
         /\ OtherIds(graph, func_acquires, func_escapes)
         /\ OtherIds(graph, func_acquires, func_reclaims)
         /\ Listed(func_acquires) /\ Listed(func_escapes) /\ Listed(func_reclaims)
<1>1. pc \in InFunction
  BY DEF Pairing, InFunction
<1> QED BY <1>1 DEF BuilderInv, ListsHold, ListIds, OtherIds

(* A release or an escape ends what it matched, or nothing. *)
LEMMA ConsumeStep ==
  ASSUME BuilderInv, pc \in {"releases", "escapes"}, pc' = pc, module' = module, caller' = caller,
         todo' = todo, k' = k + 1, func_releases' = func_releases, func_escapes' = func_escapes,
         func_reclaims' = func_reclaims,
         NEW i, i = 0 \/ (Eldest(i) /\ i # 0), Consume(i),
         NEW e, graph' = add_edge(graph, e), e.effect \in Ending, NEW other, e.source = MatchedId(i, other),
         other \in 0 .. graph.next_instance_id - 1, other \notin Ids(graph)
  PROVE  BuilderInv'
<1>1. pc \in Pairing /\ pc' \in Pairing /\ pc' # "reclaims"
  BY DEF Pairing
<1>2. /\ Linear(graph) /\ ListIds(graph, func_acquires) /\ k \in Nat \ {0}
      /\ OtherIds(graph, func_acquires, func_escapes)
      /\ OtherIds(graph, func_acquires, func_reclaims)
  BY <1>1, ListsAre
<1>3. Paired(graph, func_acquires, caller, {})
  BY DEF BuilderInv, ListHolds
<1>4. Adds(graph, graph', e) /\ graph'.next_instance_id = graph.next_instance_id
  BY <1>2, GraphOps DEF Linear
<1>5. e.effect # "Acquire"
  BY DEF Ending, ReleaseOrCross
<1>6. Fallback' /\ k' \in Nat \ {0}
  BY <1>1, <1>2 DEF Fallback
<1>7. CASE i = 0
  <2>1. func_acquires' = func_acquires /\ e.source = other
    BY <1>7 DEF Consume, MatchedId
  <2>2. e.source \in 0 .. graph'.next_instance_id - 1 /\ e.source \notin Ids(graph)
    BY <1>4, <2>1
  <2>3. SameLists(graph, graph') /\ Live(graph') = Live(graph)
    BY <1>2, <1>4, <1>5, <2>2, NeutralKeeps
  <2>4. /\ ListIds(graph', func_acquires) /\ OtherIds(graph', func_acquires, func_escapes)
        /\ OtherIds(graph', func_acquires, func_reclaims)
        /\ Paired(graph', func_acquires, caller, {})
    BY <1>2, <1>3, <2>3, SameKeeps
  <2>5. ListHolds'
    BY <1>1, <2>1, <2>4 DEF ListHolds
  <2> QED BY <1>1, <1>6, <2>1, <2>3, <2>4, <2>5, PairingKeeps
<1>8. CASE Eldest(i) /\ i # 0
  <2>1. func_acquires' = RemoveAt(func_acquires, i) /\ e.source = func_acquires[i].id
    BY <1>8 DEF Consume, MatchedId
  <2>2. i \in DOMAIN func_acquires
        /\ \A m \in DOMAIN func_acquires :
             ~(m < i /\ func_acquires[m].family = func_acquires[i].family)
    <3>1. \A m \in DOMAIN func_acquires : m \in Nat
      BY <1>2, IdsAscend
    <3> QED BY <1>8, <3>1 DEF Eldest
  <2>3. SameLists(graph, graph') /\ \E j \in CallEdges(graph) :
          Acquired(graph, j) = func_acquires[i].id /\ Live(graph') = Live(graph) \ {j}
    <3> DEFINE none == {}
    <3>1. func_acquires[i].id \notin none /\ Paired(graph, func_acquires, caller, none)
      BY <1>3
    <3> HIDE DEF none
    <3>2. EldestLeft(func_acquires, none, i)
      BY <2>2, <3>1 DEF EldestLeft
    <3> QED BY <1>2, <1>4, <2>1, <3>1, <3>2, EndPaired
  <2>4. PICK j \in CallEdges(graph) :
          Acquired(graph, j) = func_acquires[i].id /\ Live(graph') = Live(graph) \ {j}
    BY <2>3
  <2> DEFINE rest == RemoveAt(func_acquires, i)
  <2>5. /\ func_acquires[i].id \notin {} => Paired(graph', rest, caller, {})
        /\ ListIds(graph', rest)
        /\ \A s : OtherIds(graph, func_acquires, s) => OtherIds(graph', rest, s)
    BY <1>2, <1>3, <2>2, <2>3, <2>4, PairedAfterEnd
  <2> HIDE DEF rest
  <2>6. /\ ListIds(graph', rest) /\ OtherIds(graph', rest, func_escapes)
        /\ OtherIds(graph', rest, func_reclaims)
        /\ Paired(graph', rest, caller, {})
    BY <1>2, <2>5
  <2>7. func_acquires' = rest
    BY <2>1 DEF rest
  <2>8. ListHolds'
    BY <1>1, <2>6, <2>7 DEF ListHolds
  <2> QED BY <1>1, <1>6, <2>3, <2>6, <2>7, <2>8, PairingKeeps
<1> QED BY <1>7, <1>8

LEMMA ReleaseOneStep ==
  ASSUME BuilderInv, ReleaseOne
  PROVE  BuilderInv'
<1> DEFINE r == func_releases[k]
           i == ReleaseMatch(r.family)
           e == ReleaseEdge(MatchedId(i, 0), r.effect, r.family, CallSite(r.call, "call"))
<1>1. /\ pc = "releases" /\ pc' = "releases" /\ k <= Len(func_releases) /\ k' = k + 1
      /\ graph' = add_edge(graph, e) /\ Consume(i)
      /\ module' = module /\ caller' = caller /\ todo' = todo /\ func_releases' = func_releases
      /\ func_escapes' = func_escapes /\ func_reclaims' = func_reclaims
  BY DEF ReleaseOne
<1>2. pc \in Pairing
  BY <1>1 DEF Pairing
<1>3. /\ Linear(graph) /\ k \in Nat \ {0} /\ ReleasesListed(func_releases) /\ Listed(func_acquires)
  BY <1>2, ListsAre
<1>4. r.effect \in {"Release", "ConditionalRelease"}
  <2>1. k \in DOMAIN func_releases
    BY <1>1, <1>3, ListedShape DEF ReleasesListed
  <2> QED BY <1>3, <2>1 DEF ReleasesListed
<1>5. i = 0 \/ (Eldest(i) /\ i # 0)
  BY <1>3, ReleaseMatchIs
<1>6. e.effect \in Ending /\ e.source = MatchedId(i, 0)
  BY <1>4 DEF ReleaseEdge, ContractEdge, Ending, ReleaseOrCross
<1>7. 0 \in 0 .. graph.next_instance_id - 1 /\ 0 \notin Ids(graph)
  BY <1>3, Unused
<1> HIDE DEF r, i, e
<1> QED BY <1>1, <1>5, <1>6, <1>7, ConsumeStep

LEMMA EscapeOneStep ==
  ASSUME BuilderInv, EscapeOne
  PROVE  BuilderInv'
<1> DEFINE x == func_escapes[k]
           i == OfFamily(x.family)
           e == ContractEdge(MatchedId(i, x.id), 0, "OwnershipEscape", x.id, x.family,
                             CallSite(x.call, "call"))
<1>1. /\ pc = "escapes" /\ pc' = "escapes" /\ k <= Len(func_escapes) /\ k' = k + 1
      /\ graph' = add_edge(graph, e) /\ Consume(i)
      /\ module' = module /\ caller' = caller /\ todo' = todo /\ func_releases' = func_releases
      /\ func_escapes' = func_escapes /\ func_reclaims' = func_reclaims
  BY DEF EscapeOne
<1>2. pc \in Pairing
  BY <1>1 DEF Pairing
<1>3. /\ Linear(graph) /\ k \in Nat \ {0} /\ OtherIds(graph, func_acquires, func_escapes)
      /\ Listed(func_acquires) /\ Listed(func_escapes)
  BY <1>2, ListsAre
<1>4. x.id \in 0 .. graph.next_instance_id - 1 /\ x.id \notin Ids(graph)
  <2>1. k \in DOMAIN func_escapes
    BY <1>1, <1>3, ListedShape
  <2>2. x.id \in 1 .. graph.next_instance_id - 1 /\ x.id \notin Ids(graph)
    BY <1>3, <2>1 DEF OtherIds
  <2> HIDE DEF x
  <2> QED BY <2>2
<1>5. i = 0 \/ (Eldest(i) /\ i # 0)
  BY <1>3, OfFamilyIs
<1>6. e.effect \in Ending /\ e.source = MatchedId(i, x.id)
  BY DEF ContractEdge, Ending, ReleaseOrCross
<1> HIDE DEF x, i, e
<1> QED BY <1>1, <1>4, <1>5, <1>6, ConsumeStep

LEMMA PhaseEnds ==
  ASSUME BuilderInv, ReleasesEnd \/ EscapesEnd \/ ReclaimsEnd
  PROVE  BuilderInv'
<1>1. /\ module' = module /\ caller' = caller /\ todo' = todo /\ k' = 1 /\ graph' = graph
      /\ func_acquires' = func_acquires /\ func_releases' = func_releases
      /\ func_escapes' = func_escapes /\ func_reclaims' = func_reclaims
      /\ pc \in Pairing /\ pc' \in Pairing
  BY DEF ReleasesEnd, EscapesEnd, ReclaimsEnd, Continue, lists, Pairing
<1>2. /\ Linear(graph) /\ ListIds(graph, func_acquires)
      /\ OtherIds(graph, func_acquires, func_escapes)
      /\ OtherIds(graph, func_acquires, func_reclaims)
  BY <1>1, ListsAre
<1>3. SameLists(graph, graph')
  <2>1. graph.next_instance_id <= graph.next_instance_id
    BY <1>2 DEF Linear, GraphShape
  <2> QED BY <1>1, <1>2, <2>1 DEF SameLists
<1>4. ListHolds' /\ Fallback'
  <2>1. CASE ReleasesEnd
    <3>1. pc = "releases" /\ pc' = "escapes"
      BY <2>1 DEF ReleasesEnd, Continue
    <3>2. Paired(graph', func_acquires', caller', {})
      BY <1>1, <3>1 DEF BuilderInv, ListHolds
    <3> QED BY <3>1, <3>2 DEF ListHolds, Fallback
  <2>2. CASE EscapesEnd
    <3>1. pc = "escapes" /\ pc' = "reclaims" /\ escape_claimed' = {} /\ reclaim_fallback_id' = 0
      BY <2>2 DEF EscapesEnd, Continue
    <3>2. Paired(graph', func_acquires', caller', {})
      BY <1>1, <3>1 DEF BuilderInv, ListHolds
    <3>3. 0 \in 0 .. graph.next_instance_id - 1 /\ 0 \notin Ids(graph)
      BY <1>2, Unused
    <3> QED BY <1>1, <3>1, <3>2, <3>3 DEF ListHolds, Fallback
  <2>3. CASE ReclaimsEnd
    <3>1. pc' = "callbacks"
      BY <2>3 DEF ReclaimsEnd, Continue
    <3> QED BY <3>1 DEF ListHolds, Fallback
  <2> QED BY <2>1, <2>2, <2>3
<1>5. k' \in Nat \ {0}
  BY <1>1
<1> QED BY <1>1, <1>2, <1>3, <1>4, <1>5, PairingKeeps

(* A target is unclaimed and the first that suits, or it is no acquire's.  *)
LEMMA UnclaimedIs ==
  ASSUME NEW s, Listed(s), NEW family
  PROVE  \/ Unclaimed(s, family) = 0
         \/ \E n \in DOMAIN s :
              /\ Unclaimed(s, family) = s[n].id /\ s[n].id \notin escape_claimed
              /\ \A m \in DOMAIN s : m < n /\ s[m].family = s[n].family => s[m].id \in escape_claimed
<1> DEFINE suits(x) == x.id \notin escape_claimed /\ family \in {x.family, NoFamily}
           I == {i \in 1 .. Len(s) : suits(s[i])}
           first == SelectInSeq(s, LAMBDA x : suits(x))
<1>1. Len(s) \in Nat /\ DOMAIN s = 1 .. Len(s)
  BY ListedShape
<1>2. first = IF I # {} THEN Min(I) ELSE 0
  BY DEF SelectInSeq
<1>3. Unclaimed(s, family) = IF first = 0 THEN 0 ELSE s[first].id
  BY DEF Unclaimed
<1>4. I \subseteq Nat
  OBVIOUS
<1>5. CASE I # {}
  <2>1. Min(I) \in I /\ \A i \in I : Min(I) <= i
    BY <1>4, <1>5, FirstOf
  <2>2. first \in I /\ \A i \in I : first <= i
    BY <1>2, <1>5, <2>1
  <2> HIDE DEF first
  <2>3. first \in DOMAIN s /\ first \in Nat /\ suits(s[first])
    BY <1>1, <2>2
  <2>4. ASSUME NEW m \in DOMAIN s, m < first, s[m].family = s[first].family
        PROVE  s[m].id \in escape_claimed
    <3>1. m \notin I
      BY <1>1, <2>2, <2>3, <2>4
    <3>2. ~suits(s[m])
      BY <1>1, <3>1
    <3> QED BY <2>3, <2>4, <3>2
  <2>5. Unclaimed(s, family) = 0 \/ Unclaimed(s, family) = s[first].id
    BY <1>3
  <2> QED BY <2>3, <2>4, <2>5
<1>6. CASE I = {}
  BY <1>2, <1>3, <1>6
<1> QED BY <1>5, <1>6

LEMMA ReclaimTargetIs ==
  ASSUME NEW r, r.id # 0
  PROVE  /\ ReclaimTarget(r) # 0
         /\ ReclaimTarget(r) \in {Unclaimed(func_escapes, r.family), Unclaimed(func_escapes, NoFamily),
                                  Unclaimed(func_acquires, r.family),
                                  Unclaimed(func_acquires, NoFamily), reclaim_fallback_id, r.id}
<1> DEFINE a == Unclaimed(func_escapes, r.family)
           b == Unclaimed(func_escapes, NoFamily)
           c == Unclaimed(func_acquires, r.family)
           d == Unclaimed(func_acquires, NoFamily)
           choices == <<a, b, c, d, reclaim_fallback_id, r.id>>
           suits(x) == x # 0
           I == {i \in 1 .. Len(choices) : suits(choices[i])}
           first == SelectInSeq(choices, LAMBDA x : suits(x))
<1>1. ReclaimTarget(r) = choices[first]
  BY DEF ReclaimTarget
<1>2. first = IF I # {} THEN Min(I) ELSE 0
  BY DEF SelectInSeq
<1> HIDE DEF a, b, c, d, first
<1>3. Len(choices) = 6 /\ choices[6] = r.id
  OBVIOUS
<1>4. 6 \in I /\ I \subseteq Nat
  BY <1>3
<1>5. Min(I) \in I
  <2> HIDE DEF I
  <2> QED BY <1>4, FirstOf
<1>6. first \in 1 .. 6 /\ choices[first] # 0
  BY <1>2, <1>3, <1>4, <1>5
<1>7. choices[first] \in {a, b, c, d, reclaim_fallback_id, r.id}
  BY <1>6
<1> QED BY <1>1, <1>6, <1>7 DEF a, b, c, d

LEMMA ReclaimOneStep ==
  ASSUME BuilderInv, ReclaimOne
  PROVE  BuilderInv'
<1> DEFINE r == func_reclaims[k]
           target == ReclaimTarget(r)
           e == ContractEdge(target, r.id, "OwnershipReclaim", r.id, r.family,
                             CallSite(r.call, "call"))
<1>1. /\ pc = "reclaims" /\ pc' = "reclaims" /\ k <= Len(func_reclaims) /\ k' = k + 1
      /\ graph' = add_edge(graph, e)
      /\ escape_claimed' = (IF target = r.id THEN escape_claimed ELSE escape_claimed \cup {target})
      /\ reclaim_fallback_id' = (IF target = r.id THEN r.id ELSE reclaim_fallback_id)
      /\ module' = module /\ caller' = caller /\ todo' = todo
      /\ func_acquires' = func_acquires /\ func_releases' = func_releases
      /\ func_escapes' = func_escapes /\ func_reclaims' = func_reclaims
  BY DEF ReclaimOne, lists
<1>2. pc \in Pairing /\ pc' \in Pairing
  BY <1>1 DEF Pairing
<1>3. /\ Linear(graph) /\ k \in Nat \ {0} /\ ListIds(graph, func_acquires)
      /\ OtherIds(graph, func_acquires, func_escapes)
      /\ OtherIds(graph, func_acquires, func_reclaims)
      /\ Listed(func_acquires) /\ Listed(func_escapes) /\ Listed(func_reclaims)
  BY <1>2, ListsAre
<1>4. /\ Paired(graph, func_acquires, caller, escape_claimed)
      /\ reclaim_fallback_id \in 0 .. graph.next_instance_id - 1
      /\ reclaim_fallback_id \notin Ids(graph)
  BY <1>1 DEF BuilderInv, ListHolds, Fallback
<1>5. /\ r.id \in 1 .. graph.next_instance_id - 1 /\ r.id \notin Ids(graph)
  <2>1. k \in DOMAIN func_reclaims
    BY <1>1, <1>3, ListedShape
  <2> QED BY <1>3, <2>1 DEF OtherIds
<1>6. r.id # 0 /\ r.id \in 0 .. graph.next_instance_id - 1
  <2> DEFINE x == r.id
  <2>1. x \in 1 .. graph.next_instance_id - 1
    BY <1>5
  <2> HIDE DEF x
  <2>2. x # 0 /\ x \in 0 .. graph.next_instance_id - 1
    BY <2>1
  <2> QED BY <2>2 DEF x
<1>7. \/ \E n \in DOMAIN func_acquires :
           EldestLeft(func_acquires, escape_claimed, n) /\ target = func_acquires[n].id
      \/ target \in 0 .. graph.next_instance_id - 1 /\ target \notin Ids(graph)
  <2>1. target # 0 /\ target \in {Unclaimed(func_escapes, r.family), Unclaimed(func_escapes, NoFamily),
                                  Unclaimed(func_acquires, r.family),
                                  Unclaimed(func_acquires, NoFamily), reclaim_fallback_id, r.id}
    BY <1>6, ReclaimTargetIs
  <2> HIDE DEF target
  <2>2. ASSUME NEW family, target = Unclaimed(func_escapes, family)
        PROVE  target \in 0 .. graph.next_instance_id - 1 /\ target \notin Ids(graph)
    <3>1. PICK n \in DOMAIN func_escapes : target = func_escapes[n].id
      BY <1>3, <2>1, <2>2, UnclaimedIs
    <3>2. target \in 1 .. graph.next_instance_id - 1 /\ target \notin Ids(graph)
      BY <1>3, <3>1 DEF OtherIds
    <3> QED BY <3>2
  <2>3. ASSUME NEW family, target = Unclaimed(func_acquires, family)
        PROVE  \E n \in DOMAIN func_acquires :
                 EldestLeft(func_acquires, escape_claimed, n) /\ target = func_acquires[n].id
    BY <1>3, <2>1, <2>3, UnclaimedIs DEF EldestLeft
  <2>4. CASE target = Unclaimed(func_escapes, r.family) \/ target = Unclaimed(func_escapes, NoFamily)
    BY <2>2, <2>4
  <2>5. CASE target = Unclaimed(func_acquires, r.family) \/ target = Unclaimed(func_acquires, NoFamily)
    BY <2>3, <2>5
  <2>6. CASE target = reclaim_fallback_id \/ target = r.id
    BY <1>4, <1>5, <1>6, <2>6
  <2> QED BY <2>1, <2>4, <2>5, <2>6
<1>8. Adds(graph, graph', e) /\ graph'.next_instance_id = graph.next_instance_id
  BY <1>1, <1>3, GraphOps DEF Linear
<1>9. e.effect \in Ending /\ e.effect # "Acquire" /\ e.source = target
  BY DEF ContractEdge, Ending, ReleaseOrCross
<1> HIDE DEF e, target
<1>10. ASSUME SameLists(graph, graph') PROVE Fallback'
  <2>1. Ids(graph') = Ids(graph)
    BY <1>10 DEF SameLists
  <2> QED BY <1>1, <1>4, <1>5, <1>6, <1>8, <2>1 DEF Fallback
<1>11. ASSUME SameLists(graph, graph'), Paired(graph', func_acquires, caller, escape_claimed')
       PROVE  BuilderInv'
  <2>1. /\ ListIds(graph', func_acquires) /\ OtherIds(graph', func_acquires, func_escapes)
        /\ OtherIds(graph', func_acquires, func_reclaims)
    BY <1>3, <1>11, SameKeeps
  <2>2. ListHolds'
    BY <1>1, <1>11 DEF ListHolds
  <2>3. k' \in Nat \ {0} /\ Fallback'
    BY <1>1, <1>3, <1>10, <1>11
  <2> QED BY <1>1, <1>2, <1>11, <2>1, <2>2, <2>3, PairingKeeps
<1>12. CASE target \in 0 .. graph.next_instance_id - 1 /\ target \notin Ids(graph)
  <2>1. SameLists(graph, graph') /\ Live(graph') = Live(graph)
    BY <1>3, <1>8, <1>9, <1>12, NeutralKeeps
  <2>2. Paired(graph', func_acquires, caller, escape_claimed)
    BY <1>3, <1>4, <2>1, SameKeeps
  <2>3. \A n \in DOMAIN func_acquires : func_acquires[n].id # target
    <3>1. \A n \in DOMAIN func_acquires : func_acquires[n].id \in Ids(graph)
      BY <1>4 DEF Paired, EdgeFor, CallEdges, Ids
    <3> QED BY <1>12, <3>1
  <2>4. \A n \in DOMAIN func_acquires :
          func_acquires[n].id \in escape_claimed' <=> func_acquires[n].id \in escape_claimed
    BY <1>1, <2>3
  <2>5. Paired(graph', func_acquires, caller, escape_claimed')
    BY <2>2, <2>4 DEF Paired
  <2> QED BY <1>11, <2>1, <2>5
<1>13. ASSUME NEW n \in DOMAIN func_acquires, EldestLeft(func_acquires, escape_claimed, n),
              target = func_acquires[n].id
       PROVE  BuilderInv'
  <2>1. SameLists(graph, graph') /\ \E j \in CallEdges(graph) :
          Acquired(graph, j) = func_acquires[n].id /\ Live(graph') = Live(graph) \ {j}
    BY <1>3, <1>4, <1>8, <1>9, <1>13, EndPaired
  <2>2. PICK j \in CallEdges(graph) :
          Acquired(graph, j) = func_acquires[n].id /\ Live(graph') = Live(graph) \ {j}
    BY <2>1
  <2>3. Paired(graph', func_acquires, caller, escape_claimed \cup {func_acquires[n].id})
    BY <1>3, <1>4, <2>1, <2>2, PairedAfterEnd
  <2>4. target # r.id
    BY <1>5, <2>2, <1>13 DEF Ids, CallEdges
  <2>5. escape_claimed' = escape_claimed \cup {func_acquires[n].id}
    BY <1>1, <1>13, <2>4
  <2> QED BY <1>11, <2>1, <2>3, <2>5
<1> QED BY <1>7, <1>12, <1>13

LEMMA CallbackOneStep ==
  ASSUME BuilderInv, CallbackOne
  PROVE  BuilderInv'
<1>1. /\ pc = "callbacks" /\ pc' = "callbacks" /\ k' = k + 1
      /\ module' = module /\ caller' = caller /\ todo' = todo
      /\ func_acquires' = func_acquires /\ func_releases' = func_releases
      /\ func_escapes' = func_escapes /\ func_reclaims' = func_reclaims
  BY DEF CallbackOne, lists
<1>2. pc \in Pairing /\ pc' \in Pairing
  BY <1>1 DEF Pairing
<1>3. /\ Linear(graph) /\ k \in Nat \ {0} /\ ListIds(graph, func_acquires)
      /\ OtherIds(graph, func_acquires, func_escapes)
      /\ OtherIds(graph, func_acquires, func_reclaims)
  BY <1>2, ListsAre
<1>4. SameLists(graph, graph')
  <2> DEFINE borrowed == func_acquires = <<>>
             id == IF borrowed THEN graph.next_instance_id ELSE func_acquires[1].id
             e == ContractEdge(id, 0, "EscapesToCallback", 0, NoFamily, CallSite(Here, "call"))
  <2>1. CASE graph' = graph
    <3>1. graph.next_instance_id <= graph.next_instance_id
      BY <1>3 DEF Linear, GraphShape
    <3> QED BY <1>3, <2>1, <3>1 DEF SameLists
  <2>2. CASE graph' = add_edge(IF borrowed THEN alloc_instance(graph) ELSE graph, e)
    <3>1. e.effect # "Acquire" /\ e.effect \notin Ending
      BY DEF ContractEdge, Ending, ReleaseOrCross
    <3>2. Adds(graph, graph', e)
      <4> HIDE DEF e
      <4> QED BY <1>3, <2>2, GraphOps DEF Linear
    <3> HIDE DEF e
    <3> QED BY <1>3, <3>1, <3>2, NeutralKeeps
  <2> QED BY <2>1, <2>2 DEF CallbackOne
<1>5. /\ ListIds(graph', func_acquires) /\ OtherIds(graph', func_acquires, func_escapes)
      /\ OtherIds(graph', func_acquires, func_reclaims)
  BY <1>3, <1>4, SameKeeps
<1>6. ListHolds' /\ Fallback' /\ k' \in Nat \ {0}
  BY <1>1, <1>3 DEF ListHolds, Fallback
<1> QED BY <1>1, <1>2, <1>4, <1>5, <1>6, PairingKeeps

LEMMA CallersEndStep ==
  ASSUME BuilderInv, CallersEnd
  PROVE  BuilderInv'
<1>1. /\ pc = "callbacks" /\ k' = 1 /\ module' = module /\ graph' = graph
      /\ \/ pc' = "propagate"
         \/ pc' = "callers" /\ todo' = todo
  BY DEF CallersEnd, Continue
<1>2. \A i \in CallEdges(graph) : graph.edges[i].site.caller \notin todo
  BY <1>1 DEF BuilderInv, CallersOnce, InFunction
<1>3. CallersOnce'
  BY <1>1, <1>2 DEF CallersOnce, InFunction
<1>4. Linear(graph') /\ module' \in Modules
  BY <1>1 DEF BuilderInv
<1> QED BY <1>1, <1>3, <1>4 DEF BuilderInv, QueuesHold, ListsHold, InFunction, ScannedAcquires,
                               ListHolds, Fallback

-----------------------------------------------------------------------------
(***************************************************************************)
(* Releases of a callee with acquires of its caller.  An acquire that was  *)
(* made for such a pair is followed by its release, and its pair of        *)
(* functions is not met again.                                             *)
(***************************************************************************)
Crossed(g) == {i \in Acquires(g) : g.edges[i].site.by = "cross"}

Between(g, i) == <<g.edges[i + 1].site.caller, g.edges[i].site.caller>>

CrossedOnce(g) ==
  /\ \A i \in Crossed(g) : i + 1 \in DOMAIN g.edges
  /\ \A i, j \in Crossed(g) :
       i # j /\ Between(g, i) = Between(g, j) =>
         /\ g.edges[i].site.call # g.edges[j].site.call
         /\ g.edges[i + 1].site.call # g.edges[j + 1].site.call

Distinct(s) == \A m, n \in DOMAIN s : s[m] = s[n] => m = n

(* A pair of edges more, for the calls a and r. *)
CrossAdded(g, h, a, r) ==
  /\ Linear(h)
  /\ Acquires(h) = Acquires(g) \cup {Top(g)}
  /\ DOMAIN h.edges = DOMAIN g.edges \cup {Top(g), Top(g) + 1}
  /\ \A i \in DOMAIN g.edges : h.edges[i] = g.edges[i]
  /\ h.edges[Top(g)].site = CallSite(a, "cross")
  /\ h.edges[Top(g) + 1].site = CallSite(r, "cross")

(* The two edges are of a new instance. *)
CrossEdges(g, h) ==
  \E m, a, r :
    /\ Linear(m) /\ Adds(g, m, a) /\ Adds(m, h, r)
    /\ m.next_instance_id = g.next_instance_id + 1 /\ h.next_instance_id = m.next_instance_id
    /\ a.effect = "Acquire" /\ a.site.by = "cross"
    /\ a.source = 0 /\ a.target = g.next_instance_id /\ a.result = g.next_instance_id
    /\ r.effect \in Freeing /\ r.site.by = "cross"
    /\ r.source = g.next_instance_id /\ r.target = 0 /\ r.result = 0

LEMMA PairAcrossIs ==
  ASSUME NEW g, NEW as, NEW r, Linear(g), Listed(as), as # <<>>
  PROVE  \E h : \E j \in 1 .. Len(as) :
           /\ PairAcross([graph |-> g, acquires |-> as], r)
                = [graph |-> h, acquires |-> RemoveAt(as, j)]
           /\ CrossAdded(g, h, as[j], r) /\ CrossEdges(g, h)
<1> DEFINE pair == [graph |-> g, acquires |-> as]
           same == SelectInSeq(as, LAMBDA i : FamilyAt(i) = FamilyAt(r))
           j == IF same # 0 THEN same ELSE 1
           id == g.next_instance_id
           effect == IF FamilyAt(as[j]) = FamilyAt(r) THEN "Release" ELSE "ConditionalRelease"
           eA == AcquireEdge(id, FamilyAt(as[j]), CallSite(as[j], "cross"))
           eR == ReleaseEdge(id, effect, FamilyAt(r), CallSite(r, "cross"))
           m == add_edge(alloc_instance(g), eA)
           h == add_edge(m, eR)
<1>1. PairAcross(pair, r) = [graph |-> h, acquires |-> RemoveAt(as, j)]
  BY DEF PairAcross, Unpaired
<1>2. j \in 1 .. Len(as)
  <2> DEFINE I == {i \in 1 .. Len(as) : FamilyAt(as[i]) = FamilyAt(r)}
  <2>1. same = IF I # {} THEN Min(I) ELSE 0
    BY DEF SelectInSeq
  <2> DEFINE last == Len(as)
  <2>2. \A i \in I : i \in 1 .. last
    OBVIOUS
  <2>3. last \in Nat \ {0}
    BY ListedTail
  <2> HIDE DEF I, same, last
  <2>4. \A i \in I : i \in Nat /\ i # 0 /\ i \in 1 .. last
    BY <2>2, <2>3
  <2>5. I # {} => Min(I) \in I
    <3>1. I \subseteq Nat
      BY <2>4
    <3> QED BY <3>1, FirstOf
  <2>6. same = 0 \/ same \in 1 .. last
    BY <2>1, <2>4, <2>5
  <2>7. 1 \in 1 .. last
    BY <2>3
  <2>8. j \in 1 .. last
    BY <2>6, <2>7
  <2> QED BY <2>8 DEF last
<1>3. /\ eA.effect = "Acquire" /\ eA.result = id /\ eA.site = CallSite(as[j], "cross")
      /\ eA.site.by = "cross"
      /\ eR.effect \in Ending /\ eR.effect # "Acquire" /\ eR.source = id
      /\ eR.site = CallSite(r, "cross")
      /\ eA.source = 0 /\ eA.target = id
      /\ eR.effect \in Freeing /\ eR.site.by = "cross" /\ eR.target = 0 /\ eR.result = 0
  BY DEF AcquireEdge, ReleaseEdge, ContractEdge, CallSite, Site, Ending, ReleaseOrCross, Freeing
<1> HIDE DEF eA, eR, j, same, effect
<1>4. GraphShape(g) /\ Adds(g, m, eA) /\ m.next_instance_id = id + 1 /\ id \in Nat \ {0}
  <2>1. GraphShape(g)
    BY DEF Linear
  <2> QED BY <2>1, GraphOps
<1>5. /\ id \in 1 .. m.next_instance_id - 1 /\ id \notin Ids(g) /\ Ends(g, id) = {}
      /\ \A i \in Acquires(g) : Acquired(g, i) < id
  <2>1. id \notin Ids(g) /\ Ends(g, id) = {} /\ \A i \in Acquires(g) : Acquired(g, i) < id
    BY <1>4, Unused
  <2>2. id \in 1 .. id
    BY <1>4
  <2>3. (id + 1) - 1 = id
    BY <1>4
  <2> QED BY <1>4, <2>1, <2>2, <2>3
<1> HIDE DEF m, h, id
<1>6. /\ Linear(m) /\ Acquires(m) = Acquires(g) \cup {Top(g)} /\ Live(m) = Live(g) \cup {Top(g)}
  BY <1>3, <1>4, <1>5, BirthEdge
<1>7. /\ DOMAIN m.edges = DOMAIN g.edges \cup {Top(g)} /\ m.edges[Top(g)] = eA
      /\ \A i \in DOMAIN g.edges : m.edges[i] = g.edges[i]
      /\ Top(m) = Top(g) + 1 /\ Top(g) \notin DOMAIN g.edges
  BY <1>4, Added
<1>8. Adds(m, h, eR) /\ h.next_instance_id = m.next_instance_id
  BY <1>6, GraphOps DEF Linear, h
<1>9. Acquired(m, Top(g)) = id
  BY <1>3, <1>7 DEF Acquired
<1>10. \A i \in Live(m) : ~InOneList(m.edges[i], m.edges[Top(g)])
  BY <1>3, <1>7 DEF InOneList
<1>11. Linear(h) /\ Acquires(h) = Acquires(m)
  BY <1>3, <1>6, <1>8, <1>9, <1>10, EndEdge
<1>12. /\ DOMAIN h.edges = DOMAIN m.edges \cup {Top(m)} /\ h.edges[Top(m)] = eR
       /\ \A i \in DOMAIN m.edges : h.edges[i] = m.edges[i]
  BY <1>6, <1>8, Added DEF Linear
<1>13. CrossAdded(g, h, as[j], r)
  BY <1>3, <1>6, <1>7, <1>11, <1>12 DEF CrossAdded
<1>14. CrossEdges(g, h)
  BY <1>3, <1>4, <1>6, <1>8 DEF CrossEdges, id
<1> QED BY <1>1, <1>2, <1>13, <1>14

LEMMA OrderDistinct ==
  ASSUME NEW s, NEW calls, NEW m \in Nat, InOrderUpTo(s, calls, m)
  PROVE  Listed(s) /\ Len(s) \in Nat /\ DOMAIN s = 1 .. Len(s) /\ Distinct(s)
<1>1. Listed(s) /\ Ascending(s) /\ \A n \in DOMAIN s : s[n] \in Nat
  BY DEF InOrderUpTo
<1>2. Len(s) \in Nat /\ DOMAIN s = 1 .. Len(s)
  BY <1>1, ListedShape
<1>3. Distinct(s)
  <2> SUFFICES ASSUME NEW i \in DOMAIN s, NEW n \in DOMAIN s, s[i] = s[n], i # n PROVE FALSE
    BY DEF Distinct
  <2>1. i < n \/ n < i
    BY <1>2
  <2>2. s[i] < s[n] \/ s[n] < s[i]
    BY <1>1, <2>1 DEF Ascending
  <2>3. s[i] \in Nat /\ s[n] \in Nat
    BY <1>1
  <2> QED BY <2>2, <2>3
<1> QED BY <1>1, <1>2, <1>3

LEMMA RestDistinct ==
  ASSUME NEW s, Listed(s), Distinct(s), NEW n \in 1 .. Len(s)
  PROVE  /\ Listed(RemoveAt(s, n)) /\ Distinct(RemoveAt(s, n)) /\ n \in DOMAIN s
         /\ \A i \in DOMAIN RemoveAt(s, n) :
              \E m \in DOMAIN s : RemoveAt(s, n)[i] = s[m] /\ s[m] # s[n]
<1> DEFINE rest == RemoveAt(s, n)
           place(i) == IF i < n THEN i ELSE i + 1
<1>1. /\ Listed(rest) /\ Len(rest) = Len(s) - 1
      /\ \A i \in 1 .. n - 1 : rest[i] = s[i]
      /\ \A i \in n .. Len(s) - 1 : rest[i] = s[i + 1]
  BY ListedRemove
<1>2. Len(s) \in Nat /\ DOMAIN s = 1 .. Len(s)
  BY ListedShape
<1> HIDE DEF rest
<1>3. DOMAIN rest = 1 .. Len(s) - 1
  BY <1>1, ListedShape
<1>4. \A i \in DOMAIN rest : place(i) \in DOMAIN s /\ rest[i] = s[place(i)] /\ place(i) # n
  <2> SUFFICES ASSUME NEW i \in DOMAIN rest
               PROVE  place(i) \in DOMAIN s /\ rest[i] = s[place(i)] /\ place(i) # n
    OBVIOUS
  <2>1. CASE i < n
    <3>1. i \in 1 .. n - 1 /\ i \in 1 .. Len(s) /\ i # n
      BY <1>2, <1>3, <2>1
    <3> QED BY <1>1, <1>2, <2>1, <3>1
  <2>2. CASE ~(i < n)
    <3>1. i \in n .. Len(s) - 1 /\ i + 1 \in 1 .. Len(s) /\ i + 1 # n
      BY <1>2, <1>3, <2>2
    <3> QED BY <1>1, <1>2, <2>2, <3>1
  <2> QED BY <2>1, <2>2
<1>5. \A i, m \in DOMAIN rest : place(i) = place(m) => i = m
  BY <1>2, <1>3
<1> HIDE DEF place
<1>6. Distinct(rest)
  BY <1>4, <1>5 DEF Distinct
<1>7. \A i \in DOMAIN rest : \E m \in DOMAIN s : rest[i] = s[m] /\ s[m] # s[n]
  BY <1>2, <1>4 DEF Distinct
<1> QED BY <1>1, <1>2, <1>6, <1>7 DEF rest

(* The pair of functions p is met, and `n` of its releases are done. *)
Crossing(g, as, rs, p, left, n) ==
  /\ Linear(g) /\ CrossedOnce(g)
  /\ Listed(as) /\ Distinct(as)
  /\ \A m \in DOMAIN as : Calls[as[m]].caller = p[2]
  /\ \A i \in Crossed(g) :
       /\ Between(g, i) \notin left
       /\ Between(g, i) = p => /\ \A m \in DOMAIN as : as[m] # g.edges[i].site.call
                               /\ \E m \in 1 .. n : g.edges[i + 1].site.call = rs[m]

LEMMA CrossingStep ==
  ASSUME NEW g, NEW h, NEW as, NEW rs, NEW p, NEW left, NEW n \in DOMAIN rs, NEW j \in 1 .. Len(as),
         DOMAIN rs = 1 .. Len(rs), Len(rs) \in Nat, Distinct(rs),
         Calls[rs[n]].caller = p[1], p = <<p[1], p[2]>>, p \notin left,
         Crossing(g, as, rs, p, left, n - 1), CrossAdded(g, h, as[j], rs[n])
  PROVE  Crossing(h, RemoveAt(as, j), rs, p, left, n)
<1> DEFINE rest == RemoveAt(as, j)
<1>1. /\ Linear(g) /\ CrossedOnce(g) /\ Listed(as) /\ Distinct(as)
      /\ \A m \in DOMAIN as : Calls[as[m]].caller = p[2]
  BY DEF Crossing
<1>2. /\ Linear(h) /\ Acquires(h) = Acquires(g) \cup {Top(g)}
      /\ DOMAIN h.edges = DOMAIN g.edges \cup {Top(g), Top(g) + 1}
      /\ \A i \in DOMAIN g.edges : h.edges[i] = g.edges[i]
      /\ h.edges[Top(g)].site = CallSite(as[j], "cross")
      /\ h.edges[Top(g) + 1].site = CallSite(rs[n], "cross")
  BY DEF CrossAdded
<1>3. /\ Listed(rest) /\ Distinct(rest) /\ j \in DOMAIN as
      /\ \A i \in DOMAIN rest : \E m \in DOMAIN as : rest[i] = as[m] /\ as[m] # as[j]
  BY <1>1, RestDistinct
<1> HIDE DEF rest
<1>4. /\ h.edges[Top(g)].site.by = "cross" /\ h.edges[Top(g)].site.call = as[j]
      /\ h.edges[Top(g)].site.caller = p[2]
      /\ h.edges[Top(g) + 1].site.call = rs[n] /\ h.edges[Top(g) + 1].site.caller = p[1]
  <2>1. \A c, by : /\ CallSite(c, by).by = by /\ CallSite(c, by).call = c
                    /\ CallSite(c, by).caller = Calls[c].caller
    BY DEF CallSite, Site
  <2> DEFINE born == CallSite(as[j], "cross")
             gone == CallSite(rs[n], "cross")
  <2>2. /\ born.by = "cross" /\ born.call = as[j] /\ born.caller = Calls[as[j]].caller
        /\ gone.call = rs[n] /\ gone.caller = Calls[rs[n]].caller
    BY <2>1
  <2>3. h.edges[Top(g)].site = born /\ h.edges[Top(g) + 1].site = gone
    BY <1>2
  <2> HIDE DEF born, gone
  <2>4. Calls[as[j]].caller = p[2]
    BY <1>1, <1>3
  <2> QED BY <2>2, <2>3, <2>4
<1>5. Top(g) \notin DOMAIN g.edges /\ \A i \in DOMAIN g.edges : i \in Nat
  <2>1. Len(g.edges) \in Nat /\ DOMAIN g.edges = 1 .. Len(g.edges)
    BY <1>1, ListedShape DEF Linear, GraphShape
  <2> QED BY <2>1 DEF Top
<1>6. Crossed(h) = Crossed(g) \cup {Top(g)}
  BY <1>2, <1>4 DEF Crossed, Acquires
<1>7. \A i \in Crossed(g) : /\ i + 1 \in DOMAIN g.edges /\ Between(h, i) = Between(g, i)
                            /\ h.edges[i] = g.edges[i] /\ h.edges[i + 1] = g.edges[i + 1]
                            /\ i # Top(g)
  BY <1>1, <1>2, <1>5 DEF CrossedOnce, Crossed, Acquires, Between
<1>8. Between(h, Top(g)) = p
  BY <1>4 DEF Between
<1>9. ASSUME NEW i \in Crossed(g), Between(g, i) = p
      PROVE  g.edges[i].site.call # as[j] /\ g.edges[i + 1].site.call # rs[n]
  <2>1. PICK m \in 1 .. n - 1 : g.edges[i + 1].site.call = rs[m]
    BY <1>9 DEF Crossing
  <2>2. m \in DOMAIN rs /\ m # n
    OBVIOUS
  <2>3. g.edges[i].site.call # as[j]
    BY <1>3, <1>9 DEF Crossing
  <2> QED BY <2>1, <2>2, <2>3 DEF Distinct
<1>10. CrossedOnce(h)
  <2>1. \A i \in Crossed(h) : i + 1 \in DOMAIN h.edges
    BY <1>2, <1>6, <1>7
  <2>2. ASSUME NEW i \in Crossed(h), NEW l \in Crossed(h), i # l, Between(h, i) = Between(h, l)
        PROVE  /\ h.edges[i].site.call # h.edges[l].site.call
               /\ h.edges[i + 1].site.call # h.edges[l + 1].site.call
    <3>1. CASE i \in Crossed(g) /\ l \in Crossed(g)
      BY <1>1, <1>7, <2>2, <3>1 DEF CrossedOnce
    <3>2. CASE i \in Crossed(g) /\ l = Top(g)
      BY <1>4, <1>7, <1>8, <1>9, <2>2, <3>2
    <3>3. CASE l \in Crossed(g) /\ i = Top(g)
      BY <1>4, <1>7, <1>8, <1>9, <2>2, <3>3
    <3> QED BY <1>6, <2>2, <3>1, <3>2, <3>3
  <2> QED BY <2>1, <2>2 DEF CrossedOnce
<1>11. \A m \in DOMAIN rest : Calls[rest[m]].caller = p[2]
  BY <1>1, <1>3
<1>12. ASSUME NEW i \in Crossed(h)
       PROVE  /\ Between(h, i) \notin left
              /\ Between(h, i) = p => /\ \A m \in DOMAIN rest : rest[m] # h.edges[i].site.call
                                      /\ \E m \in 1 .. n : h.edges[i + 1].site.call = rs[m]
  <2>1. CASE i \in Crossed(g)
    <3>1. Between(h, i) \notin left
      BY <1>7, <2>1 DEF Crossing
    <3>2. ASSUME Between(h, i) = p
          PROVE  /\ \A m \in DOMAIN rest : rest[m] # h.edges[i].site.call
                 /\ \E m \in 1 .. n : h.edges[i + 1].site.call = rs[m]
      <4>1. /\ \A m \in DOMAIN as : as[m] # g.edges[i].site.call
            /\ \E m \in 1 .. n - 1 : g.edges[i + 1].site.call = rs[m]
        BY <1>7, <2>1, <3>2 DEF Crossing
      <4>2. \A m \in 1 .. n - 1 : m \in 1 .. n
        OBVIOUS
      <4>3. h.edges[i] = g.edges[i] /\ h.edges[i + 1] = g.edges[i + 1]
        BY <1>7, <2>1
      <4>4. \A m \in DOMAIN rest : rest[m] # g.edges[i].site.call
        BY <1>3, <4>1
      <4>5. \E m \in 1 .. n : g.edges[i + 1].site.call = rs[m]
        BY <4>1, <4>2
      <4> QED BY <4>3, <4>4, <4>5
    <3> QED BY <3>1, <3>2
  <2>2. CASE i = Top(g)
    <3>1. n \in 1 .. n
      OBVIOUS
    <3> QED BY <1>3, <1>4, <1>8, <2>2, <3>1
  <2> QED BY <1>6, <2>1, <2>2
<1> QED BY <1>2, <1>3, <1>10, <1>11, <1>12 DEF Crossing, rest

NoneCrossed(g) == \A i \in DOMAIN g.edges : g.edges[i].site.by # "cross"

(* What is said of the pairs of functions, besides BuilderInv.             *)
CrossInv ==
  /\ CrossedOnce(graph)
  /\ pc \in {"facts", "declared", "callers"} \cup InFunction => NoneCrossed(graph)
  /\ pc = "propagate" => /\ \A q \in todo : q = <<q[1], q[2]>>
                         /\ \A i \in Crossed(graph) : Between(graph, i) \notin todo

LEMMA PropagateStep ==
  ASSUME BuilderInv, CrossInv, Propagate
  PROVE  BuilderInv' /\ CrossInv'
<1>1. PICK p \in todo : /\ graph' = PairedAcross(ReleasesIn(p[1]), AcquiresBut(p[2], p[1]))
                        /\ todo' = todo \ {p}
  BY DEF Propagate
<1>2. pc = "propagate" /\ pc' = "propagate" /\ module' = module /\ k' = k
  BY DEF Propagate
<1>3. /\ module \in Modules /\ k \in Nat \ {0} /\ Linear(graph) /\ CrossedOnce(graph)
      /\ p = <<p[1], p[2]>> /\ \A i \in Crossed(graph) : Between(graph, i) \notin todo
  BY <1>1, <1>2 DEF BuilderInv, CrossInv
<1> DEFINE rs == ReleasesIn(p[1])
           as == AcquiresBut(p[2], p[1])
           left == todo \ {p}
<1>4. /\ Len(rs) \in Nat /\ DOMAIN rs = 1 .. Len(rs) /\ Distinct(rs)
      /\ \A n \in DOMAIN rs : Calls[rs[n]].caller = p[1]
  <2> DEFINE mine == {i \in DOMAIN Calls : /\ Calls[i].caller = p[1]
                                           /\ Role(Calls[i].callee) \in {"Release", "ConditionalRelease"}}
  <2>1. rs = InOrder(mine)
    BY DEF ReleasesIn, CallsWithRole
  <2>2. Listed(Calls) /\ Len(Calls) \in Nat
    BY <1>3, CallsListed, ListedShape
  <2>3. \A i \in mine : Calls[i].caller = p[1]
    OBVIOUS
  <2> HIDE DEF mine, rs
  <2>4. InOrderUpTo(rs, mine, Len(Calls))
    BY <2>1, <2>2, OrderLaw
  <2>5. \A n \in DOMAIN rs : Calls[rs[n]].caller = p[1]
    BY <2>3, <2>4 DEF InOrderUpTo
  <2> QED BY <2>2, <2>4, <2>5, OrderDistinct
<1>5. Listed(as) /\ Distinct(as) /\ \A m \in DOMAIN as : Calls[as[m]].caller = p[2]
  <2> DEFINE mine == {i \in DOMAIN Calls : /\ Calls[i].caller = p[2] /\ Calls[i].callee # p[1]
                                           /\ Role(Calls[i].callee) \in AcquireFact}
  <2>1. as = InOrder(mine)
    BY DEF AcquiresBut
  <2>2. Listed(Calls) /\ Len(Calls) \in Nat
    BY <1>3, CallsListed, ListedShape
  <2>3. \A i \in mine : Calls[i].caller = p[2]
    OBVIOUS
  <2> HIDE DEF mine, as
  <2>4. InOrderUpTo(as, mine, Len(Calls))
    BY <2>1, <2>2, OrderLaw
  <2>5. \A m \in DOMAIN as : Calls[as[m]].caller = p[2]
    BY <2>3, <2>4 DEF InOrderUpTo
  <2> QED BY <2>2, <2>4, <2>5, OrderDistinct
<1>6. graph' = PairedAcross(rs, as)
  BY <1>1
<1>7. p \notin left /\ todo' = left
      /\ \A i \in Crossed(graph) : Between(graph, i) \notin left /\ Between(graph, i) # p
  BY <1>1, <1>3
<1> HIDE DEF rs, as, left
<1>8. PICK f : /\ f[0] = [graph |-> graph, acquires |-> as]
               /\ \A n \in 1 .. Len(rs) : f[n] = PairAcross(f[n - 1], rs[n])
               /\ PairedAcross(rs, as) = f[Len(rs)].graph
  BY <1>4, PairSteps
<1> DEFINE Met(n) == \E g, s : f[n] = [graph |-> g, acquires |-> s] /\ Crossing(g, s, rs, p, left, n)
           T == {n \in Nat : Met(n)}
<1>9. 0 \in T
  <2>1. Crossing(graph, as, rs, p, left, 0)
    BY <1>3, <1>5, <1>7 DEF Crossing
  <2> QED BY <1>8, <2>1
<1>10. ASSUME NEW m \in 0 .. Len(rs) - 1, m \in T PROVE m + 1 \in T
  <2>1. m \in Nat /\ m + 1 \in 1 .. Len(rs) /\ (m + 1) - 1 = m /\ m + 1 \in Nat
    BY <1>4
  <2>2. PICK g, s : f[m] = [graph |-> g, acquires |-> s] /\ Crossing(g, s, rs, p, left, m)
    BY <1>10
  <2> DEFINE n == m + 1
  <2>3. n \in DOMAIN rs /\ n - 1 = m /\ f[n] = PairAcross([graph |-> g, acquires |-> s], rs[n])
    BY <1>4, <1>8, <2>1, <2>2
  <2>4. Linear(g) /\ Listed(s)
    BY <2>2 DEF Crossing
  <2>5. n \in Nat
    BY <2>1
  <2> HIDE DEF n
  <2>6. CASE s = <<>>
    <3>1. f[n] = [graph |-> g, acquires |-> s]
      BY <2>3, <2>6 DEF PairAcross
    <3>2. \A l \in 1 .. m : l \in 1 .. n
      BY <2>1, <2>3, <2>5
    <3>3. Crossing(g, s, rs, p, left, n)
      BY <2>2, <3>2 DEF Crossing
    <3> QED BY <2>5, <3>1, <3>3 DEF n
  <2>7. CASE s # <<>>
    <3>1. PICK h : \E j \in 1 .. Len(s) :
            /\ PairAcross([graph |-> g, acquires |-> s], rs[n]) = [graph |-> h, acquires |-> RemoveAt(s, j)]
            /\ CrossAdded(g, h, s[j], rs[n])
      BY <2>4, <2>7, PairAcrossIs
    <3>2. PICK j \in 1 .. Len(s) :
            /\ f[n] = [graph |-> h, acquires |-> RemoveAt(s, j)]
            /\ CrossAdded(g, h, s[j], rs[n])
      BY <2>3, <3>1
    <3>3. Crossing(g, s, rs, p, left, n - 1)
      BY <2>2, <2>3
    <3>4. Crossing(h, RemoveAt(s, j), rs, p, left, n)
      BY <1>3, <1>4, <1>7, <2>3, <3>2, <3>3, CrossingStep
    <3> QED BY <2>5, <3>2, <3>4 DEF n
  <2> QED BY <2>6, <2>7
<1>11. Len(rs) \in T
  <2> HIDE DEF T
  <2>1. \A n \in 0 .. Len(rs) : n \in T
    BY <1>4, <1>9, <1>10, Ascend
  <2> QED BY <1>4, <2>1
<1>12. PICK g, s : f[Len(rs)] = [graph |-> g, acquires |-> s] /\ Crossing(g, s, rs, p, left, Len(rs))
  BY <1>11
<1>13. graph' = g
  BY <1>6, <1>8, <1>12
<1>14. /\ Linear(graph') /\ CrossedOnce(graph')
       /\ \A i \in Crossed(graph') : Between(graph', i) \notin todo'
  BY <1>7, <1>12, <1>13 DEF Crossing
<1>15. BuilderInv'
  BY <1>2, <1>3, <1>14 DEF BuilderInv, QueuesHold, CallersOnce, ListsHold, InFunction,
                           ScannedAcquires, ListHolds, Fallback
<1>16. CrossInv'
  <2>1. \A q \in todo' : q = <<q[1], q[2]>>
    BY <1>1, <1>2 DEF CrossInv
  <2> QED BY <1>2, <1>14, <2>1 DEF CrossInv, InFunction
<1> QED BY <1>15, <1>16

-----------------------------------------------------------------------------
(* Uses of freed registers. *)

(* The calls of a function that frees, one by one. *)
LEMMA PostFreeSteps ==
  ASSUME NEW func, ReleasedIds(func) # <<>>, WorthALook(func), Len(CallsOf(func)) \in Nat
  PROVE  \E f : /\ f[0] = [freed |-> <<>>, next |-> 1, found |-> <<>>]
                /\ \A n \in 1 .. Len(CallsOf(func)) :
                     f[n] = PostFree(ReleasedIds(func), f[n - 1], CallsOf(func)[n])
                /\ PostFreeUses(func) = f[Len(CallsOf(func))].found
<1> DEFINE Rec(f, m) == f = [n \in 0 .. m |-> IF n = 0 THEN [freed |-> <<>>, next |-> 1, found |-> <<>>]
                                              ELSE PostFree(ReleasedIds(func), f[n - 1], CallsOf(func)[n])]
           T == {m \in Nat : \E f : Rec(f, m)}
<1>1. 0 \in T
  <2>1. Rec([n \in 0 .. 0 |-> [freed |-> <<>>, next |-> 1, found |-> <<>>]], 0)
    OBVIOUS
  <2> QED BY <2>1
<1>2. ASSUME NEW m \in 0 .. Len(CallsOf(func)) - 1, m \in T PROVE m + 1 \in T
  <2>1. PICK f : Rec(f, m)
    BY <1>2
  <2> DEFINE top == PostFree(ReleasedIds(func), f[m], CallsOf(func)[m + 1])
             h == [n \in 0 .. m + 1 |-> IF n = m + 1 THEN top ELSE f[n]]
             next(n) == IF n = 0 THEN [freed |-> <<>>, next |-> 1, found |-> <<>>]
                        ELSE PostFree(ReleasedIds(func), h[n - 1], CallsOf(func)[n])
  <2>2. m \in Nat /\ m + 1 \in Nat /\ h[m] = f[m]
    OBVIOUS
  <2>3. ASSUME NEW n \in 0 .. m + 1 PROVE h[n] = next(n)
    <3>1. CASE n = m + 1
      <4>1. n # 0 /\ n - 1 = m /\ h[n] = top
        BY <2>2, <3>1
      <4> HIDE DEF h, top
      <4>2. top = PostFree(ReleasedIds(func), h[n - 1], CallsOf(func)[n])
        BY <2>2, <3>1, <4>1 DEF top
      <4> QED BY <4>1, <4>2
    <3>2. CASE n # m + 1 /\ n # 0
      <4>1. n \in 0 .. m /\ n - 1 \in 0 .. m /\ n # m + 1 /\ n - 1 # m + 1
        BY <2>2, <3>2
      <4>2. h[n] = f[n] /\ h[n - 1] = f[n - 1]
        BY <4>1, <2>2
      <4>3. f[n] = PostFree(ReleasedIds(func), f[n - 1], CallsOf(func)[n])
        BY <2>1, <3>2, <4>1
      <4> HIDE DEF h
      <4> QED BY <3>2, <4>2, <4>3
    <3>3. CASE n = 0
      <4>1. n \in 0 .. m /\ n # m + 1
        BY <2>2, <3>3
      <4> QED BY <2>1, <3>3, <4>1
    <3> QED BY <3>1, <3>2, <3>3
  <2>4. Rec(h, m + 1)
    <3>1. h = [n \in 0 .. m + 1 |-> h[n]]
      OBVIOUS
    <3> HIDE DEF h
    <3>2. [n \in 0 .. m + 1 |-> h[n]] = [n \in 0 .. m + 1 |-> next(n)]
      BY <2>3
    <3> QED BY <3>1, <3>2
  <2> HIDE DEF Rec, h
  <2> QED BY <2>2, <2>4
<1>3. Len(CallsOf(func)) \in Nat
  OBVIOUS
<1>4. \E f : Rec(f, Len(CallsOf(func)))
  <2> HIDE DEF T
  <2>1. \A m \in 0 .. Len(CallsOf(func)) : m \in T
    BY <1>1, <1>2, <1>3, Ascend
  <2>2. Len(CallsOf(func)) \in T
    BY <1>3, <2>1
  <2> QED BY <2>2 DEF T
<1> DEFINE f == CHOOSE f : Rec(f, Len(CallsOf(func)))
<1>5. Rec(f, Len(CallsOf(func)))
  BY <1>4, Zenon
<1>6. PostFreeUses(func) = f[Len(CallsOf(func))].found
  BY DEF PostFreeUses
<1> HIDE DEF f
<1>7. f[0] = [freed |-> <<>>, next |-> 1, found |-> <<>>]
  BY <1>3, <1>5
<1>8. ASSUME NEW n \in 1 .. Len(CallsOf(func))
      PROVE  f[n] = PostFree(ReleasedIds(func), f[n - 1], CallsOf(func)[n])
  <2>1. n \in 0 .. Len(CallsOf(func)) /\ n # 0
    BY <1>3
  <2> QED BY <1>5, <2>1
<1> QED BY <1>6, <1>7, <1>8
UsesOnly(s, from) ==
  Listed(s) /\ \A n \in DOMAIN s : /\ s[n].effect = "ConsumesArg" /\ s[n].site.by = "use"
                                   /\ s[n].source \in from /\ s[n].target = 0 /\ s[n].result = 0

(* A freed register has one of the ids, or none. *)
FreedIn(m, from) == \A x \in DOMAIN m : m[x] \in from \cup {0}

Looking(at, from) ==
  /\ at = [freed |-> at.freed, next |-> at.next, found |-> at.found]
  /\ FreedIn(at.freed, from) /\ at.next \in Nat \ {0} /\ UsesOnly(at.found, from)

LEMMA WithOneMore ==
  ASSUME NEW m, NEW x, NEW value, NEW from, FreedIn(m, from), value \in from \cup {0}
  PROVE  FreedIn(With(m, x, value), from)
BY DEF FreedIn, With

LEMMA PostFreeLooks ==
  ASSUME NEW ids, Listed(ids), ids # <<>>, NEW from, \A n \in DOMAIN ids : ids[n] \in from,
         NEW at, NEW i, Looking(at, from)
  PROVE  Looking(PostFree(ids, at, i), from)
<1> DEFINE c == Calls[i]
           isFreed == c.arg \in DOMAIN at.freed
           id == IF at.freed[c.arg] = 0 THEN ids[1] ELSE at.freed[c.arg]
           known == at.next <= Len(ids)
           old == IF isFreed THEN at.freed[c.arg] ELSE 0
           e == ContractEdge(id, 0, "ConsumesArg", 0, "C_HEAP", CallSite(i, "use"))
           freed1 == With(at.freed, c.arg, IF known THEN ids[at.next] ELSE old)
           next1 == IF known THEN at.next + 1 ELSE at.next
           freed2 == With(at.freed, i, at.freed[c.arg])
           more == Append(at.found, e)
<1>1. /\ at = [freed |-> at.freed, next |-> at.next, found |-> at.found]
      /\ FreedIn(at.freed, from) /\ at.next \in Nat \ {0} /\ UsesOnly(at.found, from)
  BY DEF Looking
<1>2. Len(ids) \in Nat \ {0} /\ DOMAIN ids = 1 .. Len(ids)
  BY ListedTail, ListedShape
<1>3. FreedIn(freed1, from) /\ next1 \in Nat \ {0}
  <2> DEFINE value == IF known THEN ids[at.next] ELSE old
  <2>1. known => at.next \in DOMAIN ids
    BY <1>1, <1>2
  <2>2. isFreed => at.freed[c.arg] \in from \cup {0}
    BY <1>1 DEF FreedIn
  <2>3. value \in from \cup {0}
    BY <2>1, <2>2
  <2> HIDE DEF value
  <2>4. FreedIn(With(at.freed, c.arg, value), from)
    BY <1>1, <2>3, WithOneMore
  <2> QED BY <1>1, <2>4 DEF value
<1>4. isFreed => FreedIn(freed2, from)
  <2>1. ASSUME isFreed PROVE FreedIn(With(at.freed, i, at.freed[c.arg]), from)
    <3>1. at.freed[c.arg] \in from \cup {0}
      BY <1>1, <2>1 DEF FreedIn
    <3> QED BY <1>1, <3>1, WithOneMore
  <2> QED BY <2>1
<1> DEFINE freed == at.freed
           next == at.next
           found == at.found
<1>5. at = [freed |-> freed, next |-> next, found |-> found]
  BY <1>1
<1>6. \/ PostFree(ids, at, i) = [at EXCEPT !.freed = freed1, !.next = next1]
      \/ isFreed /\ PostFree(ids, at, i) = [at EXCEPT !.freed = freed2]
      \/ isFreed /\ PostFree(ids, at, i) = [at EXCEPT !.found = more]
      \/ PostFree(ids, at, i) = at
  <2>1. CASE c.callee \in FreeCall
    BY <2>1 DEF PostFree
  <2>2. CASE c.callee \notin FreeCall /\ c.callee = Gep /\ isFreed
    BY <2>2 DEF PostFree
  <2>3. CASE c.callee \notin FreeCall \cup {Gep} /\ isFreed
    BY <2>3 DEF PostFree
  <2>4. CASE c.callee \notin FreeCall /\ ~isFreed
    BY <2>4 DEF PostFree
  <2> QED BY <2>1, <2>2, <2>3, <2>4
<1>7. isFreed => UsesOnly(more, from)
  <2> SUFFICES ASSUME isFreed PROVE UsesOnly(more, from)
    OBVIOUS
  <2>1. /\ e.effect = "ConsumesArg" /\ e.site.by = "use" /\ e.source = id
        /\ e.target = 0 /\ e.result = 0
    BY DEF ContractEdge, CallSite, Site
  <2>2. id \in from
    <3>1. at.freed[c.arg] \in from \cup {0} /\ ids[1] \in from
      BY <1>1, <1>2 DEF FreedIn
    <3> QED BY <3>1
  <2> HIDE DEF e, id
  <2>3. /\ Listed(found) /\ Len(found) \in Nat /\ DOMAIN found = 1 .. Len(found)
        /\ UsesOnly(found, from)
    BY <1>1, ListedShape DEF UsesOnly
  <2> HIDE DEF found
  <2>4. /\ Listed(Append(found, e)) /\ Len(Append(found, e)) = Len(found) + 1
        /\ \A n \in 1 .. Len(found) : Append(found, e)[n] = found[n]
        /\ Append(found, e)[Len(found) + 1] = e
    BY <2>3, ListedAppend
  <2>5. more = Append(found, e)
    BY DEF found
  <2> HIDE DEF more
  <2>6. DOMAIN more = 1 .. Len(found) + 1
    BY <2>4, <2>5, ListedShape
  <2>7. \A n \in DOMAIN more : more[n] = e \/ (n \in DOMAIN found /\ more[n] = found[n])
    <3> SUFFICES ASSUME NEW n \in DOMAIN more
                 PROVE  more[n] = e \/ (n \in DOMAIN found /\ more[n] = found[n])
      OBVIOUS
    <3>1. CASE n = Len(found) + 1
      BY <2>4, <2>5, <3>1
    <3>2. CASE n \in 1 .. Len(found)
      BY <2>3, <2>4, <2>5, <3>2
    <3> QED BY <2>3, <2>6, <3>1, <3>2
  <2> QED BY <2>1, <2>2, <2>3, <2>4, <2>5, <2>7 DEF UsesOnly
<1>8. FreedIn(freed, from) /\ next \in Nat \ {0} /\ UsesOnly(found, from)
  BY <1>1
<1> DEFINE b == PostFree(ids, at, i)
<1> HIDE DEF freed, next, found, freed1, next1, freed2, more, b, isFreed
<1>9. \/ b = [freed |-> freed1, next |-> next1, found |-> found]
      \/ isFreed /\ b = [freed |-> freed2, next |-> next, found |-> found]
      \/ isFreed /\ b = [freed |-> freed, next |-> next, found |-> more]
      \/ b = [freed |-> freed, next |-> next, found |-> found]
  BY <1>5, <1>6 DEF b
<1>10. /\ b = [freed |-> b.freed, next |-> b.next, found |-> b.found]
       /\ \/ b.freed = freed1 /\ b.next = next1 /\ b.found = found
          \/ isFreed /\ b.freed = freed2 /\ b.next = next /\ b.found = found
          \/ isFreed /\ b.freed = freed /\ b.next = next /\ b.found = more
          \/ b.freed = freed /\ b.next = next /\ b.found = found
  BY <1>9
<1>11. FreedIn(b.freed, from) /\ b.next \in Nat \ {0} /\ UsesOnly(b.found, from)
  BY <1>3, <1>4, <1>7, <1>8, <1>10
<1>12. Looking(b, from)
  BY <1>10, <1>11 DEF Looking
<1> QED BY <1>12 DEF b

(* The ids that the uses are of: acquired and released. *)
ReleasedBefore(g, x) ==
  \E a, r \in DOMAIN g.edges : /\ g.edges[a].effect = "Acquire" /\ g.edges[a].result = x
                               /\ g.edges[r].effect \in Freeing /\ g.edges[r].source = x

LEMMA ReleasedLaw ==
  ASSUME Linear(graph), NEW func
  PROVE  /\ Listed(ReleasedIds(func))
         /\ \A n \in DOMAIN ReleasedIds(func) : ReleasedBefore(graph, ReleasedIds(func)[n])
<1> DEFINE es == graph.edges
           acquired == {e.result : e \in {d \in Range(es) : d.effect = "Acquire"}}
           released == {e.source : e \in {d \in Range(es) : d.effect \in {"Release", "ConditionalRelease"}}}
           those == {n \in DOMAIN es : /\ es[n].effect \in ReleaseOrCross
                                       /\ es[n].source \in acquired \cap released
                                       /\ es[n].site.caller = func}
           ofF == Upward(those, Len(es))
           ids == [n \in DOMAIN ofF |-> es[ofF[n]].source]
<1>1. ReleasedIds(func) = ids
  BY DEF ReleasedIds
<1>2. Len(es) \in Nat
  BY ListedShape DEF Linear, GraphShape
<1>3. InOrderUpTo(ofF, those, Len(es))
  <2> HIDE DEF those
  <2> QED BY <1>2, UpwardLaw
<1>4. \A x \in acquired : \E a \in DOMAIN es : es[a].effect = "Acquire" /\ es[a].result = x
  BY DEF Range
<1>5. \A x \in released : \E r \in DOMAIN es : es[r].effect \in Freeing /\ es[r].source = x
  BY DEF Range, Freeing
<1>6. \A n \in those : es[n].source \in acquired /\ es[n].source \in released
  OBVIOUS
<1> HIDE DEF acquired, released, those, ofF
<1>7. /\ Listed(ofF) /\ Len(ofF) \in Nat /\ DOMAIN ofF = 1 .. Len(ofF)
      /\ \A n \in DOMAIN ofF : ofF[n] \in those
  BY <1>3, ListedShape DEF InOrderUpTo
<1>8. Listed(ids)
  <2> DEFINE V == {ids[n] : n \in DOMAIN ids}
  <2>1. ids = [n \in 1 .. Len(ofF) |-> ids[n]]
    BY <1>7
  <2> HIDE DEF ids
  <2>2. \A n \in 1 .. Len(ofF) : ids[n] \in V
    BY <2>1
  <2> HIDE DEF V
  <2>3. ids \in [1 .. Len(ofF) -> V]
    BY <2>1, <2>2
  <2>4. ids \in Seq(V)
    BY <1>7, <2>3
  <2> QED BY <2>4, ListedWhen
<1>9. ASSUME NEW n \in DOMAIN ids PROVE ReleasedBefore(graph, ids[n])
  <2>1. ids[n] \in acquired /\ ids[n] \in released
    BY <1>6, <1>7
  <2> QED BY <1>4, <1>5, <2>1 DEF ReleasedBefore
<1> QED BY <1>1, <1>8, <1>9

LEMMA UsesLaw ==
  ASSUME module \in Modules, Linear(graph), NEW func
  PROVE  UsesOnly(PostFreeUses(func), {x \in Ids(graph) : ReleasedBefore(graph, x)})
<1> DEFINE from == {x \in Ids(graph) : ReleasedBefore(graph, x)}
<1>1. DOMAIN <<>> = {} /\ UsesOnly(<<>>, from)
  <2>1. <<>> \in Seq(Nat) /\ Len(<<>>) = 0
    BY EmptySeq
  <2>2. Listed(<<>>)
    BY <2>1, ListedWhen
  <2>3. DOMAIN <<>> = 1 .. 0
    BY <2>1, <2>2, ListedShape
  <2> HIDE DEF from
  <2>4. DOMAIN <<>> = {}
    BY <2>3
  <2> QED BY <2>2, <2>4 DEF UsesOnly
<1>2. CASE ReleasedIds(func) = <<>> \/ ~WorthALook(func)
  BY <1>1, <1>2 DEF PostFreeUses
<1>3. CASE ReleasedIds(func) # <<>> /\ WorthALook(func)
  <2>1. Len(CallsOf(func)) \in Nat
    <3>1. InOrderUpTo(CallsOf(func), {i \in DOMAIN Calls : Calls[i].caller = func}, Len(Calls))
      BY CallsListed, OrderLaw DEF CallsOf
    <3> QED BY <3>1, ListedShape DEF InOrderUpTo
  <2>2. PICK f : /\ f[0] = [freed |-> <<>>, next |-> 1, found |-> <<>>]
                 /\ \A n \in 1 .. Len(CallsOf(func)) :
                      f[n] = PostFree(ReleasedIds(func), f[n - 1], CallsOf(func)[n])
                 /\ PostFreeUses(func) = f[Len(CallsOf(func))].found
    BY <1>3, <2>1, PostFreeSteps
  <2> DEFINE T == {m \in Nat : Looking(f[m], from)}
             M == Len(CallsOf(func))
  <2>7. /\ Listed(ReleasedIds(func))
        /\ \A n \in DOMAIN ReleasedIds(func) : ReleasedIds(func)[n] \in from
    BY ReleasedLaw DEF ReleasedBefore, Ids, Acquires, Acquired
  <2> HIDE DEF from
  <2>3. 0 \in T
    <3>1. /\ f[0].found = <<>> /\ f[0].freed = <<>> /\ f[0].next = 1
          /\ f[0] = [freed |-> f[0].freed, next |-> f[0].next, found |-> f[0].found]
      BY <2>2
    <3>2. FreedIn(f[0].freed, from)
      BY <1>1, <3>1 DEF FreedIn
    <3> QED BY <1>1, <3>1, <3>2 DEF Looking
  <2>4. ASSUME NEW m \in 0 .. M - 1, m \in T PROVE m + 1 \in T
    <3>1. m + 1 \in 1 .. M /\ m + 1 \in Nat /\ (m + 1) - 1 = m
      BY <2>1
    <3>2. f[m + 1] = PostFree(ReleasedIds(func), f[m], CallsOf(func)[m + 1])
      BY <2>2, <3>1
    <3>3. Looking(f[m + 1], from)
      BY <1>3, <2>4, <2>7, <3>2, PostFreeLooks
    <3> QED BY <3>1, <3>3
  <2>5. M \in Nat
    BY <2>1
  <2> HIDE DEF T, M
  <2>6. M \in T
    <3>1. \A n \in 0 .. M : n \in T
      BY <2>3, <2>4, <2>5, Ascend
    <3> QED BY <2>5, <3>1
  <2> QED BY <2>2, <2>6 DEF T, M, Looking, from
<1> QED BY <1>2, <1>3

LEMMA UsesAdded ==
  ASSUME NEW g, NEW es, NEW from, Linear(g), UsesOnly(es, from)
  PROVE  LET h == add_edges(g, es) IN
         /\ Linear(h) /\ Acquires(h) = Acquires(g)
         /\ \A i \in DOMAIN g.edges : i \in DOMAIN h.edges /\ h.edges[i] = g.edges[i]
<1> DEFINE h == add_edges(g, es)
<1>1. GraphShape(g) /\ Listed(es) /\ \A n \in DOMAIN es : es[n].effect = "ConsumesArg"
  BY DEF Linear, UsesOnly
<1>2. PICK f : /\ f[0] = g /\ f[Len(es)] = h
               /\ \A n \in 0 .. Len(es) : Grown(g, f[n], es, n)
               /\ \A n \in 1 .. Len(es) : Adds(f[n - 1], f[n], es[n])
  BY <1>1, OneByOne
<1> HIDE DEF h
<1>3. Len(es) \in Nat /\ DOMAIN es = 1 .. Len(es)
  BY <1>1, ListedShape
<1> DEFINE Same(l) == /\ Linear(l) /\ Acquires(l) = Acquires(g)
                      /\ \A i \in DOMAIN g.edges : i \in DOMAIN l.edges /\ l.edges[i] = g.edges[i]
           T == {m \in Nat : Same(f[m])}
<1>4. 0 \in T
  BY <1>2
<1>5. ASSUME NEW m \in 0 .. Len(es) - 1, m \in T PROVE m + 1 \in T
  <2>1. m + 1 \in 1 .. Len(es) /\ m + 1 \in Nat /\ (m + 1) - 1 = m
    BY <1>3
  <2>2. Adds(f[m], f[m + 1], es[m + 1])
    BY <1>2, <2>1
  <2>3. es[m + 1].effect # "Acquire" /\ es[m + 1].effect \notin Ending
    BY <1>1, <1>3, <2>1 DEF Ending, ReleaseOrCross
  <2>4. Same(f[m])
    BY <1>5
  <2>5. Linear(f[m + 1]) /\ Acquires(f[m + 1]) = Acquires(f[m])
    BY <2>2, <2>3, <2>4, NeutralEdge
  <2>6. \A i \in DOMAIN f[m].edges : i \in DOMAIN f[m + 1].edges /\ f[m + 1].edges[i] = f[m].edges[i]
    BY <2>2, <2>4, Added DEF Linear
  <2>7. Same(f[m + 1])
    BY <2>4, <2>5, <2>6
  <2> QED BY <2>1, <2>7
<1>6. Len(es) \in T
  <2> HIDE DEF T
  <2>1. \A n \in 0 .. Len(es) : n \in T
    BY <1>3, <1>4, <1>5, Ascend
  <2> QED BY <1>3, <2>1
<1> QED BY <1>2, <1>6 DEF h

LEMMA CrossedSame ==
  ASSUME NEW g, NEW h, CrossedOnce(g), Acquires(h) = Acquires(g),
         \A i \in DOMAIN g.edges : i \in DOMAIN h.edges /\ h.edges[i] = g.edges[i]
  PROVE  CrossedOnce(h)
<1>1. \A i \in Acquires(g) : i \in DOMAIN g.edges /\ h.edges[i] = g.edges[i]
  BY DEF Acquires
<1>2. Crossed(h) = Crossed(g)
  BY <1>1 DEF Crossed
<1>3. \A i \in Crossed(g) : /\ i + 1 \in DOMAIN g.edges /\ i + 1 \in DOMAIN h.edges
                            /\ h.edges[i] = g.edges[i] /\ h.edges[i + 1] = g.edges[i + 1]
  BY <1>1 DEF CrossedOnce, Crossed
<1>4. \A i \in Crossed(g) : Between(h, i) = Between(g, i)
  BY <1>3 DEF Between
<1> QED BY <1>2, <1>3, <1>4 DEF CrossedOnce

LEMMA PostFreeOneStep ==
  ASSUME BuilderInv, CrossInv, PostFreeOne
  PROVE  BuilderInv' /\ CrossInv'
<1>1. PICK func \in todo : graph' = add_edges(graph, PostFreeUses(func))
  BY DEF PostFreeOne
<1>2. pc = "postfree" /\ pc' = "postfree" /\ module' = module /\ k' = k
  BY DEF PostFreeOne
<1>3. module \in Modules /\ k \in Nat \ {0} /\ Linear(graph) /\ CrossedOnce(graph)
  BY DEF BuilderInv, CrossInv
<1>4. UsesOnly(PostFreeUses(func), {x \in Ids(graph) : ReleasedBefore(graph, x)})
  BY <1>3, UsesLaw
<1>5. /\ Linear(graph') /\ Acquires(graph') = Acquires(graph)
      /\ \A i \in DOMAIN graph.edges : i \in DOMAIN graph'.edges /\ graph'.edges[i] = graph.edges[i]
  BY <1>1, <1>3, <1>4, UsesAdded
<1>6. CrossedOnce(graph')
  BY <1>3, <1>5, CrossedSame
<1>7. BuilderInv'
  BY <1>2, <1>3, <1>5 DEF BuilderInv, QueuesHold, CallersOnce, ListsHold, InFunction,
                          ScannedAcquires, ListHolds, Fallback
<1>8. CrossInv'
  BY <1>2, <1>6 DEF CrossInv, InFunction
<1> QED BY <1>7, <1>8

(* What follows the builder leaves the graph as it is. *)
LEMMA AfterSteps ==
  ASSUME BuilderInv, CrossInv,
         PropagateEnd \/ FillMemoryGraph \/ SolveAcquire \/ SolverTurns \/ SolveEffect
           \/ SolverStores \/ FindCandidates \/ UNCHANGED vars
  PROVE  BuilderInv' /\ CrossInv'
<1>1. CASE UNCHANGED vars
  <2>1. /\ module' = module /\ pc' = pc /\ k' = k /\ todo' = todo /\ graph' = graph
        /\ acquire_instances' = acquire_instances /\ caller' = caller
        /\ func_acquires' = func_acquires /\ func_releases' = func_releases
        /\ func_escapes' = func_escapes /\ func_reclaims' = func_reclaims
        /\ escape_claimed' = escape_claimed /\ reclaim_fallback_id' = reclaim_fallback_id
    BY <1>1 DEF vars, builderVars, lists, claims
  <2> QED BY <2>1 DEF BuilderInv, QueuesHold, CallersOnce, ListsHold, ScannedAcquires,
                      ListHolds, Fallback, CrossInv, Calls
<1>2. CASE ~UNCHANGED vars
  <2>1. module \in Modules /\ k \in Nat \ {0} /\ Linear(graph) /\ CrossedOnce(graph)
    BY DEF BuilderInv, CrossInv
  <2>2. /\ module' = module /\ graph' = graph /\ pc' \in {"postfree", "built", "done"}
        /\ k' \in {1, k, k + 1}
    <3>1. CASE PropagateEnd \/ FillMemoryGraph
      BY <3>1 DEF PropagateEnd, FillMemoryGraph, Continue
    <3>2. CASE SolveAcquire \/ SolveEffect
      BY <3>2 DEF SolveAcquire, SolveEffect, Solving
    <3>3. CASE SolverTurns \/ SolverStores \/ FindCandidates
      BY <3>3 DEF SolverTurns, SolverStores, FindCandidates, builderVars
    <3> QED BY <1>2, <3>1, <3>2, <3>3
  <2>3. k' \in Nat \ {0}
    BY <2>1, <2>2
  <2> QED BY <2>1, <2>2, <2>3 DEF BuilderInv, QueuesHold, CallersOnce, ListsHold, InFunction,
                                  ScannedAcquires, ListHolds, Fallback, CrossInv
<1> QED BY <1>1, <1>2

(***************************************************************************)
(* Before the pairs of functions are met, no edge is for one of them.      *)
(***************************************************************************)
Before == {"facts", "declared", "callers"} \cup InFunction

LEMMA NoneMore ==
  ASSUME NEW g, NEW h, NEW e, GraphShape(g), NoneCrossed(g), Adds(g, h, e), e.site.by # "cross"
  PROVE  NoneCrossed(h)
BY Added DEF NoneCrossed

LEMMA NoneByOps ==
  ASSUME NEW g, NEW e, Linear(g), NoneCrossed(g)
  PROVE  /\ NoneCrossed(alloc_instance(g))
         /\ e.site.by # "cross" => /\ NoneCrossed(add_edge(g, e))
                                   /\ NoneCrossed(add_edge(alloc_instance(g), e))
<1>1. GraphShape(g) /\ alloc_instance(g).edges = g.edges
  BY Allocated DEF Linear
<1>2. Adds(g, add_edge(g, e), e) /\ Adds(g, add_edge(alloc_instance(g), e), e)
  BY <1>1, GraphOps
<1>3. NoneCrossed(alloc_instance(g))
  BY <1>1 DEF NoneCrossed
<1> QED BY <1>1, <1>2, <1>3, NoneMore

LEMMA NoneBySummary ==
  ASSUME NEW g, NEW effects, NEW site, Linear(g), NoneCrossed(g), Len(effects) \in Nat,
         site.by = "summary"
  PROVE  NoneCrossed(SummaryEdges(g, effects, site))
<1>1. PICK f : /\ f[0] = g
               /\ \A n \in 1 .. Len(effects) : f[n] = SummaryEdge(f[n - 1], effects[n], site)
               /\ SummaryEdges(g, effects, site) = f[Len(effects)]
  BY SummarySteps
<1> DEFINE T == {m \in Nat : Linear(f[m]) /\ NoneCrossed(f[m])}
<1>2. 0 \in T
  BY <1>1
<1>3. ASSUME NEW m \in 0 .. Len(effects) - 1, m \in T PROVE m + 1 \in T
  <2>1. m + 1 \in 1 .. Len(effects) /\ m + 1 \in Nat /\ (m + 1) - 1 = m
    OBVIOUS
  <2> DEFINE l == f[m]
             e == effects[m + 1]
  <2>2. Linear(l) /\ NoneCrossed(l) /\ f[m + 1] = SummaryEdge(l, e, site)
    BY <1>1, <1>3, <2>1
  <2> HIDE DEF l, e
  <2>3. Linear(SummaryEdge(l, e, site))
    BY <2>2, SummaryGrows DEF Grows
  <2>4. NoneCrossed(SummaryEdge(l, e, site))
    <3> DEFINE id == l.next_instance_id
               e1 == AcquireEdge(id, e.family, site)
               e2 == ContractEdge(0, id, e.effect, 0, e.family, site)
               e3 == ContractEdge(0, 0, e.effect, id, e.family, site)
               e4 == ContractEdge(id, id, e.effect, id, e.family, site)
               e5 == ContractEdge(0, 0, e.effect, 0, e.family, site)
    <3>1. /\ e1.site.by # "cross" /\ e2.site.by # "cross" /\ e3.site.by # "cross"
          /\ e4.site.by # "cross" /\ e5.site.by # "cross"
      BY DEF AcquireEdge, ContractEdge
    <3>2. \/ SummaryEdge(l, e, site) = add_edge(alloc_instance(l), e1)
          \/ SummaryEdge(l, e, site) = add_edge(alloc_instance(l), e2)
          \/ SummaryEdge(l, e, site) = add_edge(alloc_instance(l), e3)
          \/ SummaryEdge(l, e, site) = add_edge(alloc_instance(l), e4)
          \/ SummaryEdge(l, e, site) = add_edge(l, e5)
      BY DEF SummaryEdge
    <3> HIDE DEF e1, e2, e3, e4, e5
    <3> QED BY <2>2, <3>1, <3>2, NoneByOps
  <2> QED BY <2>1, <2>2, <2>3, <2>4
<1>4. Len(effects) \in T
  <2> HIDE DEF T
  <2>1. \A m \in 0 .. Len(effects) : m \in T
    BY <1>2, <1>3, Ascend
  <2> QED BY <2>1
<1> QED BY <1>1, <1>4

LEMMA NoneByFacts ==
  ASSUME NEW site, site.by = "fact", Linear(graph), NoneCrossed(graph),
         RawAcquire(site) \/ RawRelease(site) \/ NoFact(site)
  PROVE  NoneCrossed(graph')
<1>1. CASE graph' = graph
  BY <1>1
<1>2. CASE RawAcquire(site) /\ graph' # graph
  <2> DEFINE e == AcquireEdge(graph.next_instance_id, Registry[site.callee].family, site)
  <2>1. graph' = add_edge(alloc_instance(graph), e)
    BY <1>2 DEF RawAcquire
  <2>2. e.site.by # "cross"
    BY DEF AcquireEdge, ContractEdge
  <2> HIDE DEF e
  <2> QED BY <2>1, <2>2, NoneByOps
<1>3. CASE RawRelease(site)
  <2> DEFINE family == Registry[site.callee].family
             matched == MatchedQueue(Scope(site), family)
             born == ReleaseEdge(graph.next_instance_id, "Release", family, site)
             ended(q) == ReleaseEdge(Head(Queue(q)), RawReleaseEffect(q[2], family), family, site)
  <2>1. \/ \E q \in matched : graph' = add_edge(graph, ended(q))
        \/ graph' = add_edge(alloc_instance(graph), born)
    BY <1>3 DEF RawRelease
  <2>2. born.site.by # "cross" /\ \A q : ended(q).site.by # "cross"
    BY DEF ReleaseEdge, ContractEdge
  <2> HIDE DEF matched, born, ended
  <2>3. CASE graph' = add_edge(alloc_instance(graph), born)
    BY <2>2, <2>3, NoneByOps
  <2>4. CASE \E q \in matched : graph' = add_edge(graph, ended(q))
    BY <2>2, <2>4, NoneByOps
  <2> QED BY <2>1, <2>3, <2>4
<1> QED BY <1>1, <1>2, <1>3 DEF NoFact

LEMMA NoneByAcquires ==
  ASSUME module \in Modules, Linear(graph), NoneCrossed(graph), Listed(func_acquires), AcquireEdges
  PROVE  NoneCrossed(graph')
<1> DEFINE as == func_acquires
           es == [i \in DOMAIN as |->
                    AcquireEdge(as[i].id, as[i].family, CallSite(as[i].call, "call"))]
<1>1. graph' = add_edges(graph, es)
  BY DEF AcquireEdges
<1>2. Listed(es) /\ \A i \in DOMAIN es : es[i].site.by # "cross"
  <2>1. Len(as) \in Nat /\ DOMAIN as = 1 .. Len(as)
    BY ListedShape
  <2> DEFINE T == {es[i] : i \in DOMAIN es}
  <2>2. es = [i \in 1 .. Len(as) |-> es[i]] /\ DOMAIN es = 1 .. Len(as)
    BY <2>1
  <2>3. \A i \in DOMAIN es : es[i].site.by # "cross"
    BY DEF AcquireEdge, ContractEdge, CallSite, Site
  <2> HIDE DEF es
  <2>4. \A i \in 1 .. Len(as) : es[i] \in T
    BY <2>2
  <2> HIDE DEF T
  <2>5. es \in [1 .. Len(as) -> T]
    BY <2>2, <2>4
  <2>6. es \in Seq(T)
    BY <2>1, <2>5
  <2> QED BY <2>3, <2>6, ListedWhen
<1>3. GraphShape(graph)
  BY DEF Linear
<1>4. PICK f : /\ f[0] = graph /\ f[Len(es)] = graph'
               /\ \A n \in 0 .. Len(es) : Grown(graph, f[n], es, n)
               /\ \A n \in 1 .. Len(es) : Adds(f[n - 1], f[n], es[n])
  <2> HIDE DEF es
  <2> QED BY <1>1, <1>2, <1>3, OneByOne
<1>5. Len(es) \in Nat /\ DOMAIN es = 1 .. Len(es)
  <2> HIDE DEF es
  <2> QED BY <1>2, ListedShape
<1> HIDE DEF es
<1> DEFINE T == {m \in Nat : NoneCrossed(f[m])}
<1>6. 0 \in T
  BY <1>4
<1>7. ASSUME NEW m \in 0 .. Len(es) - 1, m \in T PROVE m + 1 \in T
  <2>1. m + 1 \in 1 .. Len(es) /\ m + 1 \in Nat /\ (m + 1) - 1 = m /\ m \in 0 .. Len(es)
    BY <1>5
  <2>2. Adds(f[m], f[m + 1], es[m + 1]) /\ GraphShape(f[m])
    BY <1>4, <2>1 DEF Grown
  <2>3. NoneCrossed(f[m + 1])
    BY <1>2, <1>5, <1>7, <2>1, <2>2, NoneMore
  <2> QED BY <2>1, <2>3
<1>8. Len(es) \in T
  <2> HIDE DEF T
  <2>1. \A n \in 0 .. Len(es) : n \in T
    BY <1>5, <1>6, <1>7, Ascend
  <2> QED BY <1>5, <2>1
<1> QED BY <1>4, <1>8

LEMMA BeforeSteps ==
  ASSUME BuilderInv, CrossInv,
         \/ CallFact \/ CallFactsEnd \/ DeclaredFact \/ DeclaredFactsEnd \/ NextCaller
         \/ ScanAcquire \/ ScanReclaim \/ ScanRelease \/ ScanEscape \/ ScanOther \/ ScanSummary
         \/ AcquireEdges
         \/ ReleaseOne \/ ReleasesEnd \/ EscapeOne \/ EscapesEnd \/ ReclaimOne \/ ReclaimsEnd
         \/ CallbackOne
  PROVE  CrossInv'
<1>1. pc \in Before /\ pc' \in Before
  <2>1. CASE CallFact \/ CallFactsEnd \/ DeclaredFact \/ DeclaredFactsEnd \/ NextCaller \/ AcquireEdges
    BY <2>1 DEF CallFact, CallFactsEnd, DeclaredFact, DeclaredFactsEnd, NextCaller, AcquireEdges,
                Continue, Before, InFunction
  <2>2. CASE ScanAcquire \/ ScanReclaim \/ ScanRelease \/ ScanEscape \/ ScanOther \/ ScanSummary
    BY <2>2 DEF ScanAcquire, ScanReclaim, ScanRelease, ScanEscape, ScanOther, ScanSummary, Scanning,
                Before, InFunction
  <2>3. CASE ReleaseOne \/ ReleasesEnd \/ EscapeOne \/ EscapesEnd \/ ReclaimOne \/ ReclaimsEnd
             \/ CallbackOne
    BY <2>3 DEF ReleaseOne, ReleasesEnd, EscapeOne, EscapesEnd, ReclaimOne, ReclaimsEnd, CallbackOne,
                Continue, Before, InFunction
  <2> QED BY <2>1, <2>2, <2>3
<1>2. module \in Modules /\ Linear(graph) /\ NoneCrossed(graph)
  BY <1>1 DEF BuilderInv, CrossInv, Before
<1>3. \A c, by : CallSite(c, by).by = by
  BY DEF CallSite, Site
<1>4. NoneCrossed(graph')
  <2>1. CASE CallFact
    <3> DEFINE site == CallSite(k, "fact")
    <3>1. site.by = "fact"
      BY <1>3
    <3>2. RawAcquire(site) \/ RawRelease(site) \/ NoFact(site)
      BY <2>1 DEF CallFact
    <3> HIDE DEF site
    <3> QED BY <1>2, <3>1, <3>2, NoneByFacts
  <2>2. CASE DeclaredFact
    <3>1. PICK s \in todo : RawAcquire(Site("", s, 0, "fact")) \/ RawRelease(Site("", s, 0, "fact"))
      BY <2>2 DEF DeclaredFact
    <3> DEFINE site == Site("", s, 0, "fact")
    <3>2. site.by = "fact" /\ (RawAcquire(site) \/ RawRelease(site))
      BY <3>1 DEF Site
    <3> HIDE DEF site
    <3> QED BY <1>2, <3>2, NoneByFacts
  <2>3. CASE \/ CallFactsEnd \/ DeclaredFactsEnd \/ NextCaller
             \/ ReleasesEnd \/ EscapesEnd \/ ReclaimsEnd \/ ScanRelease \/ ScanOther
    <3>1. graph' = graph
      BY <2>3 DEF CallFactsEnd, DeclaredFactsEnd, NextCaller, ReleasesEnd, EscapesEnd, ReclaimsEnd,
                  ScanRelease, ScanOther
    <3> QED BY <1>2, <3>1
  <2>4. CASE ScanAcquire \/ ScanReclaim \/ ScanEscape
    <3>1. graph' = graph \/ graph' = alloc_instance(graph)
      BY <2>4 DEF ScanAcquire, ScanReclaim, ScanEscape
    <3> QED BY <1>2, <3>1, NoneByOps
  <2>5. CASE ScanSummary
    <3> DEFINE site == CallSite(Here, "summary")
               s == Calls[Here].callee
    <3>1. s \in DOMAIN Summary /\ graph' = SummaryEdges(graph, Summary[s], site)
      BY <2>5 DEF ScanSummary
    <3>2. site.by = "summary"
      BY <1>3
    <3> HIDE DEF site, s
    <3>3. Len(Summary[s]) \in Nat
      BY <1>2, <3>1, CallsListed
    <3> QED BY <1>2, <3>1, <3>2, <3>3, NoneBySummary
  <2>6. CASE AcquireEdges
    <3>1. Listed(func_acquires)
      <4>1. pc \in InFunction
        BY <2>6 DEF AcquireEdges, InFunction
      <4> QED BY <4>1 DEF BuilderInv, ListsHold, ListIds
    <3> QED BY <1>2, <2>6, <3>1, NoneByAcquires
  <2>7. CASE ReleaseOne
    <3> DEFINE r == func_releases[k]
               e == ReleaseEdge(MatchedId(ReleaseMatch(r.family), 0), r.effect, r.family,
                                CallSite(r.call, "call"))
    <3>1. graph' = add_edge(graph, e)
      BY <2>7 DEF ReleaseOne
    <3>2. e.site.by # "cross"
      BY <1>3 DEF ReleaseEdge, ContractEdge
    <3> HIDE DEF e
    <3> QED BY <1>2, <3>1, <3>2, NoneByOps
  <2>8. CASE EscapeOne
    <3> DEFINE x == func_escapes[k]
               e == ContractEdge(MatchedId(OfFamily(x.family), x.id), 0, "OwnershipEscape", x.id,
                                 x.family, CallSite(x.call, "call"))
    <3>1. graph' = add_edge(graph, e)
      BY <2>8 DEF EscapeOne
    <3>2. e.site.by # "cross"
      BY <1>3 DEF ContractEdge
    <3> HIDE DEF e
    <3> QED BY <1>2, <3>1, <3>2, NoneByOps
  <2>9. CASE ReclaimOne
    <3> DEFINE r == func_reclaims[k]
               e == ContractEdge(ReclaimTarget(r), r.id, "OwnershipReclaim", r.id, r.family,
                                 CallSite(r.call, "call"))
    <3>1. graph' = add_edge(graph, e)
      BY <2>9 DEF ReclaimOne
    <3>2. e.site.by # "cross"
      BY <1>3 DEF ContractEdge
    <3> HIDE DEF e
    <3> QED BY <1>2, <3>1, <3>2, NoneByOps
  <2>10. CASE CallbackOne
    <3> DEFINE borrowed == func_acquires = <<>>
               id == IF borrowed THEN graph.next_instance_id ELSE func_acquires[1].id
               e == ContractEdge(id, 0, "EscapesToCallback", 0, NoFamily, CallSite(Here, "call"))
    <3>1. \/ graph' = graph
          \/ graph' = add_edge(alloc_instance(graph), e)
          \/ graph' = add_edge(graph, e)
      BY <2>10 DEF CallbackOne
    <3>2. e.site.by # "cross"
      BY <1>3 DEF ContractEdge
    <3> HIDE DEF e
    <3> QED BY <1>2, <3>1, <3>2, NoneByOps
  <2> QED BY <2>1, <2>2, <2>3, <2>4, <2>5, <2>6, <2>7, <2>8, <2>9, <2>10
<1>5. CrossedOnce(graph')
  <2>1. Crossed(graph') = {}
    BY <1>4 DEF NoneCrossed, Crossed, Acquires
  <2> QED BY <2>1 DEF CrossedOnce
<1>6. pc' # "propagate"
  BY <1>1 DEF Before, InFunction
<1> QED BY <1>4, <1>5, <1>6 DEF CrossInv

LEMMA CallersEndCross ==
  ASSUME CrossInv, CallersEnd
  PROVE  CrossInv'
<1>1. /\ pc = "callbacks" /\ graph' = graph
      /\ \/ pc' = "propagate" /\ todo' = OrphanPairs
         \/ pc' = "callers"
  BY DEF CallersEnd, Continue
<1>2. NoneCrossed(graph) /\ CrossedOnce(graph)
  BY <1>1 DEF CrossInv, InFunction
<1>3. Crossed(graph') = {}
  BY <1>1, <1>2 DEF NoneCrossed, Crossed, Acquires
<1>4. \A q \in OrphanPairs : q = <<q[1], q[2]>>
  BY DEF OrphanPairs
<1>5. CASE pc' = "propagate" /\ todo' = OrphanPairs
  BY <1>1, <1>2, <1>3, <1>4, <1>5 DEF CrossInv, InFunction
<1>6. CASE pc' = "callers"
  BY <1>1, <1>2, <1>6 DEF CrossInv
<1> QED BY <1>1, <1>5, <1>6

-----------------------------------------------------------------------------
(* The results. *)

LEMMA GraphInit ==
  ASSUME Init
  PROVE  BuilderInv /\ CrossInv
<1>1. /\ module \in Modules /\ pc = "facts" /\ k = 1 /\ graph = EmptyGraph
      /\ acquire_instances = <<>>
  BY DEF Init, BuilderInit
<1>2. Listed(<<>>) /\ DOMAIN <<>> = {}
  <2>1. <<>> \in Seq(Nat) /\ Len(<<>>) = 0
    BY EmptySeq
  <2>2. Listed(<<>>)
    BY <2>1, ListedWhen
  <2>3. DOMAIN <<>> = 1 .. 0
    BY <2>1, <2>2, ListedShape
  <2> QED BY <2>2, <2>3
<1>3. graph.edges = <<>> /\ graph.next_instance_id = 1 /\ GraphShape(graph)
  BY <1>1, <1>2 DEF EmptyGraph, GraphShape
<1>4. Acquires(graph) = {}
  BY <1>2, <1>3 DEF Acquires
<1>5. Linear(graph)
  BY <1>2, <1>3, <1>4 DEF Linear, InUse, OneBirth, OneEnd, Fifo
<1>6. Queues(graph, acquire_instances)
  BY <1>1, <1>2, <1>4 DEF Queues, Live
<1>7. BuilderInv
  BY <1>1, <1>5, <1>6 DEF BuilderInv, QueuesHold, CallersOnce, ListsHold, InFunction,
                          ScannedAcquires, ListHolds, Fallback
<1>8. CrossInv
  BY <1>1, <1>2, <1>3, <1>4 DEF CrossInv, NoneCrossed, CrossedOnce, Crossed, InFunction
<1> QED BY <1>7, <1>8

LEMMA GraphStep ==
  ASSUME BuilderInv, CrossInv, [Next]_vars
  PROVE  BuilderInv' /\ CrossInv'
<1>1. CASE CallFact \/ CallFactsEnd \/ DeclaredFact \/ DeclaredFactsEnd
  BY <1>1, FactSteps, BeforeSteps
<1>2. CASE NextCaller
  BY <1>2, NextCallerStep, BeforeSteps
<1>3. CASE ScanAcquire \/ ScanReclaim \/ ScanRelease \/ ScanEscape \/ ScanOther \/ ScanSummary
  BY <1>3, ScanSteps, BeforeSteps
<1>4. CASE AcquireEdges
  BY <1>4, AcquireEdgesStep, BeforeSteps
<1>5. CASE ReleaseOne
  BY <1>5, ReleaseOneStep, BeforeSteps
<1>6. CASE EscapeOne
  BY <1>6, EscapeOneStep, BeforeSteps
<1>7. CASE ReclaimOne
  BY <1>7, ReclaimOneStep, BeforeSteps
<1>8. CASE ReleasesEnd \/ EscapesEnd \/ ReclaimsEnd
  BY <1>8, PhaseEnds, BeforeSteps
<1>9. CASE CallbackOne
  BY <1>9, CallbackOneStep, BeforeSteps
<1>10. CASE CallersEnd
  BY <1>10, CallersEndStep, CallersEndCross
<1>11. CASE Propagate
  BY <1>11, PropagateStep
<1>12. CASE PostFreeOne
  BY <1>12, PostFreeOneStep
<1>13. CASE \/ PropagateEnd \/ FillMemoryGraph \/ SolveAcquire \/ SolverTurns \/ SolveEffect
            \/ SolverStores \/ FindCandidates \/ UNCHANGED vars
  BY <1>13, AfterSteps
<1> QED BY <1>1, <1>2, <1>3, <1>4, <1>5, <1>6, <1>7, <1>8, <1>9, <1>10, <1>11, <1>12, <1>13
        DEF Next, Build, BuilderNext

(***************************************************************************)
(* ContractGraphBuilderPass::run keeps the graph linear, for any calls and *)
(* tables: ids below the counter, one acquire and one end at most for each *)
(* instance, lists and queues in the order of allocation; and no pair of   *)
(* functions is propagated twice.                                          *)
(***************************************************************************)
THEOREM GraphInvariant == Spec => [](BuilderInv /\ CrossInv)
<1>1. Init => BuilderInv /\ CrossInv
  BY GraphInit
<1>2. BuilderInv /\ CrossInv /\ [Next]_vars => (BuilderInv /\ CrossInv)'
  BY GraphStep
<1> QED BY <1>1, <1>2, PTL DEF Spec

LEMMA LinearInOrder ==
  ASSUME Linear(graph)
  PROVE  ConsumedInOrder
<1>1. \A x : Consumers(x) = Ends(graph, x)
  BY DEF Consumers, Ends, EdgeIs
<1>2. AcquireEdgesOf = Acquires(graph)
  BY DEF AcquireEdgesOf, Acquires, EdgeIs
<1>3. \A i : InstanceOf(i) = Acquired(graph, i)
  BY DEF InstanceOf, Acquired
<1>4. ASSUME NEW i \in AcquireEdgesOf PROVE Cardinality(Consumers(InstanceOf(i))) <= 1
  <2> DEFINE ends == Consumers(InstanceOf(i))
  <2>1. \A c, d \in ends : c = d
    BY <1>1, <1>2, <1>3, <1>4 DEF Linear, OneEnd
  <2> HIDE DEF ends
  <2>2. CASE ends = {}
    <3>1. Cardinality(ends) = 0
      BY <2>2, FS_EmptySet
    <3> QED BY <3>1 DEF ends
  <2>3. CASE ends # {}
    <3>1. PICK c : ends = {c}
      BY <2>1, <2>3
    <3>2. Cardinality(ends) = 1
      BY <3>1, FS_Singleton
    <3> QED BY <3>2 DEF ends
  <2> QED BY <2>2, <2>3
<1>5. ASSUME NEW i \in AcquireEdgesOf, NEW j \in AcquireEdgesOf, i < j, By(i) = By(j),
             By(i) # "cross", ListOf(i) = ListOf(j), graph.edges[i].family = graph.edges[j].family,
             NEW c \in Consumers(InstanceOf(j))
      PROVE  \E d \in Consumers(InstanceOf(i)) : d < c
  <2>1. InOneList(graph.edges[i], graph.edges[j])
    BY <1>5 DEF InOneList, ListFor, ListOf, By, SiteOf
  <2> QED BY <1>1, <1>2, <1>3, <1>5, <2>1 DEF Linear, Fifo
<1> QED BY <1>4, <1>5 DEF ConsumedInOrder

(***************************************************************************)
(* An instance is released, escaped or reclaimed once at most, and those   *)
(* of a family in one list or queue in the order of their allocation:      *)
(* ConsumedInOrder of the run, for modules, tables and summaries of any    *)
(* size.                                                                   *)
(***************************************************************************)
THEOREM InstancesConsumedInOrder == Spec => []ConsumedInOrder
<1>1. BuilderInv => ConsumedInOrder
  BY LinearInOrder DEF BuilderInv
<1> QED BY <1>1, GraphInvariant, PTL

(***************************************************************************)
(* The releases of a callee and the acquires of its caller are paired once *)
(* each (propagate_ptr_lifetime_across_functions), however many functions  *)
(* call each other.                                                        *)
(***************************************************************************)
THEOREM CrossPairsOnce == Spec => []PairedAcrossOnce
<1>1. CrossInv => PairedAcrossOnce
  <2> SUFFICES ASSUME CrossInv, NEW i \in CrossPairs, NEW j \in CrossPairs, i # j,
                      SiteOf(i + 1).caller = SiteOf(j + 1).caller, SiteOf(i).caller = SiteOf(j).caller
               PROVE  CallOf(i) # CallOf(j) /\ CallOf(i + 1) # CallOf(j + 1)
    BY DEF PairedAcrossOnce
  <2>1. i \in Crossed(graph) /\ j \in Crossed(graph)
    BY DEF CrossPairs, Crossed, AcquireEdgesOf, Acquires, EdgeIs, By, SiteOf
  <2>2. Between(graph, i) = Between(graph, j)
    BY DEF Between, SiteOf
  <2> QED BY <2>1, <2>2 DEF CrossInv, CrossedOnce, CallOf, SiteOf
<1> QED BY <1>1, GraphInvariant, PTL

-----------------------------------------------------------------------------
(***************************************************************************)
(* The graph only grows: an edge stays where it is.                        *)
(***************************************************************************)
Keeps(g, h) == \A i \in DOMAIN g.edges : i \in DOMAIN h.edges /\ h.edges[i] = g.edges[i]

LEMMA KeptOn ==
  ASSUME NEW g, NEW h, NEW l, Keeps(g, h), Keeps(h, l)
  PROVE  Keeps(g, l)
BY DEF Keeps

LEMMA KeptByOps ==
  ASSUME NEW g, NEW e, Linear(g)
  PROVE  /\ Keeps(g, g) /\ Keeps(g, alloc_instance(g))
         /\ Keeps(g, add_edge(g, e)) /\ Keeps(g, add_edge(alloc_instance(g), e))
<1>1. GraphShape(g) /\ alloc_instance(g).edges = g.edges
  BY Allocated DEF Linear
<1>2. Adds(g, add_edge(g, e), e) /\ Adds(g, add_edge(alloc_instance(g), e), e)
  BY <1>1, GraphOps
<1>3. \A h : Adds(g, h, e) => Keeps(g, h)
  BY <1>1, Added DEF Keeps
<1>4. Keeps(g, g) /\ Keeps(g, alloc_instance(g))
  BY <1>1 DEF Keeps
<1> QED BY <1>2, <1>3, <1>4

LEMMA KeptByList ==
  ASSUME NEW g, NEW es, Linear(g), Listed(es)
  PROVE  Keeps(g, add_edges(g, es))
<1>1. Listed(g.edges)
  BY DEF Linear, GraphShape
<1> DEFINE old == g.edges
           whole == old \o es
<1>2. /\ Listed(whole) /\ Len(whole) = Len(old) + Len(es)
      /\ \A i \in 1 .. Len(old) : whole[i] = old[i]
  BY <1>1, ListedConcat
<1>3. /\ Len(old) \in Nat /\ DOMAIN old = 1 .. Len(old)
      /\ Len(es) \in Nat /\ DOMAIN whole = 1 .. Len(whole)
  BY <1>1, <1>2, ListedShape
<1>4. add_edges(g, es).edges = whole
  BY DEF add_edges, Linear, GraphShape
<1> HIDE DEF whole
<1>5. \A i \in DOMAIN old : i \in DOMAIN whole /\ whole[i] = old[i]
  BY <1>2, <1>3
<1> QED BY <1>4, <1>5 DEF Keeps

LEMMA KeptBySummary ==
  ASSUME NEW g, NEW effects, NEW site, Linear(g), Len(effects) \in Nat, site.by = "summary"
  PROVE  Keeps(g, SummaryEdges(g, effects, site))
<1>1. PICK f : /\ f[0] = g
               /\ \A n \in 1 .. Len(effects) : f[n] = SummaryEdge(f[n - 1], effects[n], site)
               /\ SummaryEdges(g, effects, site) = f[Len(effects)]
  BY SummarySteps
<1> DEFINE T == {m \in Nat : Linear(f[m]) /\ Keeps(g, f[m])}
<1>2. 0 \in T
  BY <1>1 DEF Keeps
<1>3. ASSUME NEW m \in 0 .. Len(effects) - 1, m \in T PROVE m + 1 \in T
  <2>1. m + 1 \in 1 .. Len(effects) /\ m + 1 \in Nat /\ (m + 1) - 1 = m
    OBVIOUS
  <2> DEFINE l == f[m]
             e == effects[m + 1]
  <2>2. Linear(l) /\ Keeps(g, l) /\ f[m + 1] = SummaryEdge(l, e, site)
    BY <1>1, <1>3, <2>1
  <2> HIDE DEF l, e
  <2>3. Linear(SummaryEdge(l, e, site))
    BY <2>2, SummaryGrows DEF Grows
  <2>4. \E d : \/ SummaryEdge(l, e, site) = add_edge(alloc_instance(l), d)
               \/ SummaryEdge(l, e, site) = add_edge(l, d)
    BY DEF SummaryEdge
  <2>5. Keeps(l, SummaryEdge(l, e, site))
    BY <2>2, <2>4, KeptByOps
  <2>6. Keeps(g, SummaryEdge(l, e, site))
    BY <2>2, <2>5, KeptOn
  <2> QED BY <2>1, <2>2, <2>3, <2>6
<1>4. Len(effects) \in T
  <2> HIDE DEF T
  <2>1. \A m \in 0 .. Len(effects) : m \in T
    BY <1>2, <1>3, Ascend
  <2> QED BY <2>1
<1> QED BY <1>1, <1>4

LEMMA KeptAcross ==
  ASSUME NEW rs, NEW as, Len(rs) \in Nat, Listed(as), Linear(graph)
  PROVE  Keeps(graph, PairedAcross(rs, as))
<1>1. PICK f : /\ f[0] = [graph |-> graph, acquires |-> as]
               /\ \A n \in 1 .. Len(rs) : f[n] = PairAcross(f[n - 1], rs[n])
               /\ PairedAcross(rs, as) = f[Len(rs)].graph
  BY PairSteps
<1> DEFINE Met(n) == \E g, s : /\ f[n] = [graph |-> g, acquires |-> s]
                               /\ Linear(g) /\ Listed(s) /\ Keeps(graph, g)
           T == {n \in Nat : Met(n)}
<1>2. 0 \in T
  <2>1. Keeps(graph, graph)
    BY DEF Keeps
  <2> QED BY <1>1, <2>1
<1>3. ASSUME NEW m \in 0 .. Len(rs) - 1, m \in T PROVE m + 1 \in T
  <2>1. m \in Nat /\ m + 1 \in 1 .. Len(rs) /\ (m + 1) - 1 = m /\ m + 1 \in Nat
    OBVIOUS
  <2>2. PICK g, s : /\ f[m] = [graph |-> g, acquires |-> s]
                    /\ Linear(g) /\ Listed(s) /\ Keeps(graph, g)
    BY <1>3
  <2>3. f[m + 1] = PairAcross([graph |-> g, acquires |-> s], rs[m + 1])
    BY <1>1, <2>1, <2>2
  <2>4. CASE s = <<>>
    <3>1. f[m + 1] = [graph |-> g, acquires |-> s]
      BY <2>3, <2>4 DEF PairAcross
    <3> QED BY <2>1, <2>2, <3>1
  <2>5. CASE s # <<>>
    <3>1. PICK h : \E j \in 1 .. Len(s) :
            /\ PairAcross([graph |-> g, acquires |-> s], rs[m + 1])
                 = [graph |-> h, acquires |-> RemoveAt(s, j)]
            /\ CrossAdded(g, h, s[j], rs[m + 1])
      BY <2>2, <2>5, PairAcrossIs
    <3>2. PICK j \in 1 .. Len(s) : /\ f[m + 1] = [graph |-> h, acquires |-> RemoveAt(s, j)]
                                   /\ CrossAdded(g, h, s[j], rs[m + 1])
      BY <2>3, <3>1
    <3>3. Linear(h) /\ Keeps(g, h)
      BY <3>2 DEF CrossAdded, Keeps
    <3>4. Keeps(graph, h)
      BY <2>2, <3>3, KeptOn
    <3>5. Listed(RemoveAt(s, j))
      BY <2>2, ListedRemove
    <3> QED BY <2>1, <3>2, <3>3, <3>4, <3>5
  <2> QED BY <2>4, <2>5
<1>4. Len(rs) \in T
  <2> HIDE DEF T
  <2>1. \A n \in 0 .. Len(rs) : n \in T
    BY <1>2, <1>3, Ascend
  <2> QED BY <2>1
<1>5. PICK g, s : f[Len(rs)] = [graph |-> g, acquires |-> s] /\ Keeps(graph, g)
  BY <1>4
<1> QED BY <1>1, <1>5

LEMMA KeptByFact ==
  ASSUME NEW site, Linear(graph), RawAcquire(site) \/ RawRelease(site) \/ NoFact(site)
  PROVE  Keeps(graph, graph')
<1>1. \E e : \/ graph' = graph
             \/ graph' = add_edge(graph, e)
             \/ graph' = add_edge(alloc_instance(graph), e)
  BY DEF RawAcquire, RawRelease, NoFact
<1> QED BY <1>1, KeptByOps

LEMMA EdgesKept ==
  ASSUME BuilderInv, [Next]_vars
  PROVE  Keeps(graph, graph')
<1>1. module \in Modules /\ Linear(graph)
  BY DEF BuilderInv
<1>2. CASE CallFact \/ DeclaredFact
  <2>1. \E site : RawAcquire(site) \/ RawRelease(site) \/ NoFact(site)
    BY <1>2 DEF CallFact, DeclaredFact
  <2> QED BY <1>1, <2>1, KeptByFact
<1>3. CASE ScanAcquire \/ ScanReclaim \/ ScanRelease \/ ScanEscape \/ ScanOther
  <2>1. graph' = graph \/ graph' = alloc_instance(graph)
    BY <1>3 DEF ScanAcquire, ScanReclaim, ScanRelease, ScanEscape, ScanOther
  <2> QED BY <1>1, <2>1, KeptByOps
<1>4. CASE ScanSummary
  <2> DEFINE site == CallSite(Here, "summary")
             s == Calls[Here].callee
  <2>1. s \in DOMAIN Summary /\ graph' = SummaryEdges(graph, Summary[s], site)
    BY <1>4 DEF ScanSummary
  <2>2. site.by = "summary"
    BY DEF CallSite, Site
  <2> HIDE DEF site, s
  <2>3. Len(Summary[s]) \in Nat
    BY <1>1, <2>1, CallsListed
  <2> QED BY <1>1, <2>1, <2>2, <2>3, KeptBySummary
<1>5. CASE AcquireEdges
  <2> DEFINE as == func_acquires
             es == [i \in DOMAIN as |->
                      AcquireEdge(as[i].id, as[i].family, CallSite(as[i].call, "call"))]
  <2>1. graph' = add_edges(graph, es)
    BY <1>5 DEF AcquireEdges
  <2>2. Listed(as)
    <3>1. pc \in InFunction
      BY <1>5 DEF AcquireEdges, InFunction
    <3> QED BY <3>1 DEF BuilderInv, ListsHold, ListIds
  <2>3. Listed(es)
    <3>1. Len(as) \in Nat /\ DOMAIN as = 1 .. Len(as)
      BY <2>2, ListedShape
    <3> DEFINE T == {es[i] : i \in DOMAIN es}
    <3>2. es = [i \in 1 .. Len(as) |-> es[i]] /\ DOMAIN es = 1 .. Len(as)
      BY <3>1
    <3> HIDE DEF es
    <3>3. \A i \in 1 .. Len(as) : es[i] \in T
      BY <3>2
    <3> HIDE DEF T
    <3>4. es \in [1 .. Len(as) -> T]
      BY <3>2, <3>3
    <3>5. es \in Seq(T)
      BY <3>1, <3>4
    <3> QED BY <3>5, ListedWhen
  <2> HIDE DEF es
  <2> QED BY <1>1, <2>1, <2>3, KeptByList
<1>6. CASE ReleaseOne \/ EscapeOne \/ ReclaimOne \/ CallbackOne
  <2>1. \E e : \/ graph' = graph
               \/ graph' = add_edge(graph, e)
               \/ graph' = add_edge(alloc_instance(graph), e)
    BY <1>6 DEF ReleaseOne, EscapeOne, ReclaimOne, CallbackOne
  <2> QED BY <1>1, <2>1, KeptByOps
<1>7. CASE Propagate
  <2>1. PICK p \in todo : graph' = PairedAcross(ReleasesIn(p[1]), AcquiresBut(p[2], p[1]))
    BY <1>7 DEF Propagate
  <2>2. Listed(Calls)
    BY <1>1, CallsListed
  <2>3. Len(ReleasesIn(p[1])) \in Nat
    BY <2>2, OrderLaw, ListedShape DEF ReleasesIn, CallsWithRole, InOrderUpTo
  <2>4. Listed(AcquiresBut(p[2], p[1]))
    BY <2>2, OrderLaw DEF AcquiresBut, InOrderUpTo
  <2> QED BY <1>1, <2>1, <2>3, <2>4, KeptAcross
<1>8. CASE PostFreeOne
  <2>1. PICK func \in todo : graph' = add_edges(graph, PostFreeUses(func))
    BY <1>8 DEF PostFreeOne
  <2>2. Listed(PostFreeUses(func))
    BY <1>1, UsesLaw DEF UsesOnly
  <2> QED BY <1>1, <2>1, <2>2, KeptByList
<1>9. CASE \/ CallFactsEnd \/ DeclaredFactsEnd \/ NextCaller \/ ReleasesEnd \/ EscapesEnd \/ ReclaimsEnd
           \/ CallersEnd \/ PropagateEnd \/ FillMemoryGraph \/ SolveAcquire \/ SolverTurns \/ SolveEffect
           \/ SolverStores \/ FindCandidates \/ UNCHANGED vars
  <2>1. CASE \/ CallFactsEnd \/ DeclaredFactsEnd \/ NextCaller \/ ReleasesEnd \/ EscapesEnd
             \/ ReclaimsEnd \/ CallersEnd \/ PropagateEnd \/ FillMemoryGraph
    BY <2>1 DEF CallFactsEnd, DeclaredFactsEnd, NextCaller, ReleasesEnd, EscapesEnd, ReclaimsEnd,
                CallersEnd, PropagateEnd, FillMemoryGraph, Keeps
  <2>2. CASE SolveAcquire \/ SolverTurns \/ SolveEffect \/ SolverStores \/ FindCandidates \/ UNCHANGED vars
    BY <2>2 DEF SolveAcquire, SolverTurns, SolveEffect, SolverStores, FindCandidates, Solving,
                builderVars, vars, Keeps
  <2> QED BY <1>9, <2>1, <2>2
<1> QED BY <1>2, <1>3, <1>4, <1>5, <1>6, <1>7, <1>8, <1>9 DEF Next, Build, BuilderNext

(* Nothing of a set of calls is left out. *)
LEMMA OrderWhole ==
  ASSUME Listed(Calls), NEW calls, NEW i \in calls, i \in 1 .. Len(Calls)
  PROVE  \E n \in DOMAIN InOrder(calls) : InOrder(calls)[n] = i
<1>1. Len(Calls) \in Nat
  BY ListedShape
<1>2. PICK f : /\ f[0] = <<>>
               /\ \A n \in 1 .. Len(Calls) :
                    f[n] = (IF n \in calls THEN Append(f[n - 1], n) ELSE f[n - 1])
               /\ InOrder(calls) = f[Len(Calls)]
  BY <1>1, UpwardSteps DEF InOrder
<1> DEFINE Has(s) == \E n \in DOMAIN s : s[n] = i
           T == {m \in Nat : Listed(f[m]) /\ (i <= m => Has(f[m]))}
<1>3. 0 \in T
  <2>1. <<>> \in Seq(Nat)
    BY EmptySeq
  <2>2. Listed(f[0])
    BY <1>2, <2>1, ListedWhen
  <2> QED BY <1>1, <2>2
<1>4. ASSUME NEW m \in 0 .. Len(Calls) - 1, m \in T PROVE m + 1 \in T
  <2>1. m \in Nat /\ m + 1 \in 1 .. Len(Calls) /\ (m + 1) - 1 = m /\ m + 1 \in Nat /\ i \in Nat
    BY <1>1
  <2> DEFINE s == f[m]
             t == f[m + 1]
  <2>2. Listed(s) /\ (i <= m => Has(s)) /\ t = (IF m + 1 \in calls THEN Append(s, m + 1) ELSE s)
    BY <1>2, <1>4, <2>1
  <2> HIDE DEF s, t
  <2>3. CASE m + 1 \notin calls
    <3>1. i <= m + 1 => i <= m
      BY <2>1, <2>3
    <3> QED BY <2>1, <2>2, <2>3, <3>1 DEF t
  <2>4. CASE m + 1 \in calls
    <3>1. Len(s) \in Nat /\ DOMAIN s = 1 .. Len(s)
      BY <2>2, ListedShape
    <3>2. /\ Listed(t) /\ Len(t) = Len(s) + 1
          /\ \A n \in DOMAIN s : t[n] = s[n]
          /\ t[Len(s) + 1] = m + 1
      BY <2>2, <2>4, <3>1, ListedAppend
    <3>3. DOMAIN t = 1 .. Len(s) + 1
      BY <3>2, ListedShape
    <3>4. ASSUME i <= m + 1 PROVE Has(t)
      <4>1. CASE i = m + 1
        <5>1. Len(s) + 1 \in DOMAIN t
          BY <3>1, <3>3
        <5> QED BY <3>2, <4>1, <5>1
      <4>2. CASE i <= m
        <5>1. PICK n \in DOMAIN s : s[n] = i
          BY <2>2, <4>2
        <5>2. n \in DOMAIN t
          BY <3>1, <3>3
        <5> QED BY <3>2, <5>1, <5>2
      <4> QED BY <2>1, <3>4, <4>1, <4>2
    <3> QED BY <2>1, <3>2, <3>4 DEF t
  <2> QED BY <2>3, <2>4
<1>5. Len(Calls) \in T
  <2> HIDE DEF T
  <2>1. \A m \in 0 .. Len(Calls) : m \in T
    BY <1>1, <1>3, <1>4, Ascend
  <2> QED BY <1>1, <2>1
<1> QED BY <1>1, <1>2, <1>5

-----------------------------------------------------------------------------
(***************************************************************************)
(* No release is lost on the way to the graph: one the scan has met waits  *)
(* in func_releases, and has an edge once its function is left.            *)
(***************************************************************************)
ReleaseCall(calls, i) ==
  i \in DOMAIN calls /\ calls[i].callee \notin DOMAIN Summary /\ Role(calls[i].callee) \in Freeing

HasRelease(g, calls, i) ==
  \E n \in DOMAIN g.edges :
    /\ g.edges[n].effect \in Freeing /\ g.edges[n].family = Lookup(calls[i].callee).family
    /\ g.edges[n].site.caller = calls[i].caller /\ g.edges[n].site.callee = calls[i].callee

Awaits(releases, calls, i, from) ==
  \E n \in DOMAIN releases :
    /\ from <= n /\ releases[n].call = i
    /\ releases[n].effect \in Freeing /\ releases[n].family = Lookup(calls[i].callee).family

Left == {"propagate", "postfree", "built", "done"}

ReleasesMet ==
  /\ pc \in InFunction \cup {"callers"} =>
       \A i : /\ ReleaseCall(Calls, i) /\ Calls[i].caller \notin todo
              /\ (pc \in {"scan", "releases"} => Calls[i].caller # caller)
              => HasRelease(graph, Calls, i)
  /\ pc = "scan" =>
       \A m \in 1 .. k - 1 :
         m <= Len(CallsOf(caller)) /\ ReleaseCall(Calls, CallsOf(caller)[m])
           => Awaits(func_releases, Calls, CallsOf(caller)[m], 1)
  /\ pc = "releases" =>
       \A i : ReleaseCall(Calls, i) /\ Calls[i].caller = caller
                => Awaits(func_releases, Calls, i, k) \/ HasRelease(graph, Calls, i)
  /\ pc \in Left => \A i : ReleaseCall(Calls, i) => HasRelease(graph, Calls, i)

LEMMA HasKept ==
  ASSUME NEW g, NEW h, NEW calls, NEW i, Keeps(g, h), HasRelease(g, calls, i)
  PROVE  HasRelease(h, calls, i)
BY DEF Keeps, HasRelease

LEMMA AwaitsMore ==
  ASSUME NEW s, NEW r, NEW calls, NEW i, NEW from, ReleasesListed(s)
  PROVE  /\ Awaits(s, calls, i, from) => Awaits(Append(s, r), calls, i, from)
         /\ r.call = i /\ r.effect \in Freeing /\ r.family = Lookup(calls[i].callee).family
              => Awaits(Append(s, r), calls, i, 1)
<1> DEFINE t == Append(s, r)
<1>1. /\ Listed(t) /\ Len(t) = Len(s) + 1
      /\ \A n \in 1 .. Len(s) : t[n] = s[n]
      /\ t[Len(s) + 1] = r
  BY ListedAppend DEF ReleasesListed
<1>2. Len(s) \in Nat /\ DOMAIN s = 1 .. Len(s) /\ DOMAIN t = 1 .. Len(t)
  BY <1>1, ListedShape DEF ReleasesListed
<1> HIDE DEF t
<1>3. DOMAIN s \subseteq DOMAIN t /\ Len(s) + 1 \in DOMAIN t /\ 1 <= Len(s) + 1
  BY <1>1, <1>2
<1>4. Awaits(s, calls, i, from) => Awaits(t, calls, i, from)
  BY <1>1, <1>2, <1>3 DEF Awaits
<1>5. r.call = i /\ r.effect \in Freeing /\ r.family = Lookup(calls[i].callee).family
        => Awaits(t, calls, i, 1)
  BY <1>1, <1>3 DEF Awaits
<1> QED BY <1>4, <1>5 DEF t

LEMMA MetBefore ==
  ASSUME ReleasesMet, CallFact \/ CallFactsEnd \/ DeclaredFact \/ DeclaredFactsEnd \/ NextCaller
  PROVE  ReleasesMet'
<1>1. CASE CallFact \/ CallFactsEnd \/ DeclaredFact
  <2>1. pc' \in {"facts", "declared"}
    BY <1>1 DEF CallFact, CallFactsEnd, DeclaredFact, Continue
  <2> QED BY <2>1 DEF ReleasesMet, InFunction, Left
<1>2. CASE DeclaredFactsEnd
  <2>1. pc' = "callers" /\ todo' = Callers /\ module' = module
    BY <1>2 DEF DeclaredFactsEnd, Continue
  <2>2. \A i : ReleaseCall(Calls, i) => Calls[i].caller \in Callers
    BY DEF ReleaseCall, Callers
  <2> QED BY <2>1, <2>2 DEF ReleasesMet, InFunction, Left, Calls
<1>3. CASE NextCaller
  <2>1. /\ pc = "callers" /\ pc' = "scan" /\ k' = 1
        /\ todo' = todo \ {caller'} /\ module' = module /\ graph' = graph
    BY <1>3 DEF NextCaller, Continue
  <2>2. \A m : ~(m \in 1 .. k' - 1)
    BY <2>1
  <2>3. \A i : ReleaseCall(Calls, i) /\ Calls[i].caller \notin todo => HasRelease(graph, Calls, i)
    BY <2>1 DEF ReleasesMet
  <2>4. Calls' = Calls
    BY <2>1 DEF Calls
  <2> QED BY <2>1, <2>2, <2>3, <2>4 DEF ReleasesMet, Left
<1> QED BY <1>1, <1>2, <1>3

LEMMA MetInScan ==
  ASSUME BuilderInv, ReleasesMet, Keeps(graph, graph'),
         ScanAcquire \/ ScanReclaim \/ ScanRelease \/ ScanEscape \/ ScanOther \/ ScanSummary
  PROVE  ReleasesMet'
<1>1. /\ pc = "scan" /\ pc' = "scan" /\ k' = k + 1 /\ k <= Len(CallsOf(caller))
      /\ todo' = todo /\ module' = module /\ caller' = caller /\ k \in Nat \ {0}
  BY DEF ScanAcquire, ScanReclaim, ScanRelease, ScanEscape, ScanOther, ScanSummary, Scanning, BuilderInv
<1>2. Calls' = Calls /\ CallsOf(caller)' = CallsOf(caller)
  BY <1>1 DEF Calls, CallsOf, InOrder
<1>3. ReleasesListed(func_releases)
  BY <1>1 DEF BuilderInv, ListsHold, InFunction
<1> DEFINE r == [effect |-> Found.effect, family |-> Found.family, call |-> Here]
<1>4. func_releases' = func_releases \/ func_releases' = Append(func_releases, r)
  BY DEF ScanAcquire, ScanReclaim, ScanRelease, ScanEscape, ScanOther, ScanSummary, lists
<1>5. ASSUME ReleaseCall(Calls, Here) PROVE Awaits(func_releases', Calls, Here, 1)
  <2>1. Calls[Here].callee \notin DOMAIN Summary /\ Found.family # NoFamily /\ Found.effect \in Freeing
    BY <1>5 DEF ReleaseCall, Role, Found, Freeing
  <2>2. func_releases' = Append(func_releases, r)
    BY <2>1 DEF ScanAcquire, ScanReclaim, ScanRelease, ScanEscape, ScanOther, ScanSummary, Scanning, Freeing
  <2>3. r.call = Here /\ r.effect \in Freeing /\ r.family = Lookup(Calls[Here].callee).family
    BY <2>1 DEF Found
  <2> HIDE DEF r
  <2> QED BY <1>3, <2>2, <2>3, AwaitsMore
<1> HIDE DEF r
<1>6. \A i : Awaits(func_releases, Calls, i, 1) => Awaits(func_releases', Calls, i, 1)
  BY <1>3, <1>4, AwaitsMore
<1>7. ASSUME NEW m \in 1 .. k' - 1, m <= Len(CallsOf(caller)), ReleaseCall(Calls, CallsOf(caller)[m])
      PROVE  Awaits(func_releases', Calls, CallsOf(caller)[m], 1)
  <2>1. m = k \/ m \in 1 .. k - 1
    BY <1>1
  <2>2. CASE m = k
    BY <1>5, <1>7, <2>2 DEF Here
  <2>3. CASE m \in 1 .. k - 1
    BY <1>1, <1>6, <1>7, <2>3 DEF ReleasesMet
  <2> QED BY <2>1, <2>2, <2>3
<1>8. \A i : ReleaseCall(Calls, i) /\ Calls[i].caller \notin todo /\ Calls[i].caller # caller
               => HasRelease(graph', Calls, i)
  <2>1. \A i : ReleaseCall(Calls, i) /\ Calls[i].caller \notin todo /\ Calls[i].caller # caller
                 => HasRelease(graph, Calls, i)
    BY <1>1 DEF ReleasesMet, InFunction
  <2> QED BY <2>1, HasKept
<1> QED BY <1>1, <1>2, <1>7, <1>8 DEF ReleasesMet, Left

(* The scan is over: every release of the function is in its list. *)
LEMMA MetAtScanEnd ==
  ASSUME BuilderInv, ReleasesMet, Keeps(graph, graph'), AcquireEdges
  PROVE  ReleasesMet'
<1>1. /\ pc = "scan" /\ pc' = "releases" /\ k > Len(CallsOf(caller)) /\ k' = 1 /\ todo' = todo
      /\ module' = module /\ caller' = caller /\ func_releases' = func_releases
      /\ k \in Nat \ {0} /\ module \in Modules
  BY DEF AcquireEdges, Continue, lists, BuilderInv
<1>2. Calls' = Calls
  BY <1>1 DEF Calls
<1>3. ASSUME NEW i, ReleaseCall(Calls, i), Calls[i].caller = caller
      PROVE  Awaits(func_releases, Calls, i, 1)
  <2> DEFINE own == {c \in DOMAIN Calls : Calls[c].caller = caller}
  <2>1. Listed(Calls) /\ i \in own
    BY <1>1, <1>3, CallsListed DEF ReleaseCall
  <2>2. CallsOf(caller) = InOrder(own)
    BY DEF CallsOf
  <2>3. i \in 1 .. Len(Calls)
    BY <2>1, ListedShape
  <2> HIDE DEF own
  <2>4. PICK m \in DOMAIN InOrder(own) : InOrder(own)[m] = i
    BY <2>1, <2>3, OrderWhole
  <2>5. DOMAIN InOrder(own) = 1 .. Len(InOrder(own)) /\ Len(InOrder(own)) \in Nat
    BY <2>1, OrderLaw, ListedShape DEF InOrderUpTo
  <2>6. m \in 1 .. k - 1 /\ m <= Len(CallsOf(caller))
    BY <1>1, <2>2, <2>4, <2>5
  <2> QED BY <1>1, <1>3, <2>2, <2>4, <2>6 DEF ReleasesMet
<1>4. \A i : ReleaseCall(Calls, i) /\ Calls[i].caller \notin todo /\ Calls[i].caller # caller
               => HasRelease(graph', Calls, i)
  <2>1. \A i : ReleaseCall(Calls, i) /\ Calls[i].caller \notin todo /\ Calls[i].caller # caller
                 => HasRelease(graph, Calls, i)
    BY <1>1 DEF ReleasesMet, InFunction
  <2> QED BY <2>1, HasKept
<1> QED BY <1>1, <1>2, <1>3, <1>4 DEF ReleasesMet, Left

(* A release of the list gets its edge. *)
LEMMA MetByEdge ==
  ASSUME BuilderInv, ReleaseOne
  PROVE  \A i : Awaits(func_releases, Calls, i, k)
                  => Awaits(func_releases, Calls, i, k + 1) \/ HasRelease(graph', Calls, i)
<1> DEFINE r == func_releases[k]
           e == ReleaseEdge(MatchedId(ReleaseMatch(r.family), 0), r.effect, r.family,
                            CallSite(r.call, "call"))
<1>1. graph' = add_edge(graph, e)
  BY DEF ReleaseOne
<1>2. /\ e.effect = r.effect /\ e.family = r.family
      /\ e.site.caller = Calls[r.call].caller /\ e.site.callee = Calls[r.call].callee
  BY DEF ReleaseEdge, ContractEdge, CallSite, Site
<1> HIDE DEF e
<1>3. Top(graph) \in DOMAIN graph'.edges /\ graph'.edges[Top(graph)] = e
  BY <1>1, GraphOps, Added DEF BuilderInv, Linear
<1>4. k \in Nat
  BY DEF BuilderInv
<1> SUFFICES ASSUME NEW i, Awaits(func_releases, Calls, i, k)
             PROVE  Awaits(func_releases, Calls, i, k + 1) \/ HasRelease(graph', Calls, i)
  OBVIOUS
<1>5. PICK n \in DOMAIN func_releases :
        /\ k <= n /\ func_releases[n].call = i
        /\ func_releases[n].effect \in Freeing
        /\ func_releases[n].family = Lookup(Calls[i].callee).family
  BY DEF Awaits
<1>6. n \in Nat
  <2>1. ReleasesListed(func_releases)
    BY DEF BuilderInv, ListsHold, InFunction, ReleaseOne
  <2> QED BY <1>5, <2>1, ListedShape DEF ReleasesListed
<1>7. CASE n = k
  <2>1. e.effect \in Freeing /\ e.family = Lookup(Calls[i].callee).family
    BY <1>2, <1>5, <1>7
  <2>2. e.site.caller = Calls[i].caller /\ e.site.callee = Calls[i].callee
    BY <1>2, <1>5, <1>7
  <2> QED BY <1>3, <2>1, <2>2 DEF HasRelease
<1>8. CASE n # k
  <2>1. k + 1 <= n
    BY <1>4, <1>5, <1>6, <1>8
  <2> QED BY <1>5, <2>1 DEF Awaits
<1> QED BY <1>7, <1>8

LEMMA MetInReleases ==
  ASSUME BuilderInv, ReleasesMet, Keeps(graph, graph'), ReleaseOne \/ ReleasesEnd
  PROVE  ReleasesMet'
<1>1. /\ pc = "releases" /\ todo' = todo /\ module' = module /\ caller' = caller
      /\ func_releases' = func_releases /\ k \in Nat \ {0}
  BY DEF ReleaseOne, ReleasesEnd, Continue, lists, BuilderInv
<1>2. Calls' = Calls
  BY <1>1 DEF Calls
<1>3. \A i : ReleaseCall(Calls, i) /\ Calls[i].caller \notin todo /\ Calls[i].caller # caller
               => HasRelease(graph', Calls, i)
  <2>1. \A i : ReleaseCall(Calls, i) /\ Calls[i].caller \notin todo /\ Calls[i].caller # caller
                 => HasRelease(graph, Calls, i)
    BY <1>1 DEF ReleasesMet, InFunction
  <2> QED BY <2>1, HasKept
<1>4. \A i : ReleaseCall(Calls, i) /\ Calls[i].caller = caller
               => Awaits(func_releases, Calls, i, k) \/ HasRelease(graph', Calls, i)
  <2>1. \A i : ReleaseCall(Calls, i) /\ Calls[i].caller = caller
                 => Awaits(func_releases, Calls, i, k) \/ HasRelease(graph, Calls, i)
    BY <1>1 DEF ReleasesMet
  <2> QED BY <2>1, HasKept
<1>5. CASE ReleaseOne
  <2>1. pc' = "releases" /\ k' = k + 1
    BY <1>1, <1>5 DEF ReleaseOne
  <2>2. \A i : ReleaseCall(Calls, i) /\ Calls[i].caller = caller
                 => Awaits(func_releases, Calls, i, k + 1) \/ HasRelease(graph', Calls, i)
    BY <1>4, <1>5, MetByEdge
  <2> QED BY <1>1, <1>2, <1>3, <2>1, <2>2 DEF ReleasesMet, Left
<1>6. CASE ReleasesEnd
  <2>1. pc' = "escapes" /\ k > Len(func_releases)
    BY <1>6 DEF ReleasesEnd, Continue
  <2>2. ReleasesListed(func_releases)
    BY <1>1 DEF BuilderInv, ListsHold, InFunction
  <2>3. Len(func_releases) \in Nat /\ DOMAIN func_releases = 1 .. Len(func_releases)
    BY <2>2, ListedShape DEF ReleasesListed
  <2>4. \A i : ~Awaits(func_releases, Calls, i, k)
    BY <1>1, <2>1, <2>3 DEF Awaits
  <2>5. \A i : ReleaseCall(Calls, i) /\ Calls[i].caller \notin todo => HasRelease(graph', Calls, i)
    BY <1>3, <1>4, <2>4
  <2> QED BY <1>1, <1>2, <2>1, <2>5 DEF ReleasesMet, Left
<1> QED BY <1>5, <1>6

LEMMA MetInFunction ==
  ASSUME BuilderInv, ReleasesMet, Keeps(graph, graph'),
         EscapeOne \/ EscapesEnd \/ ReclaimOne \/ ReclaimsEnd \/ CallbackOne \/ CallersEnd
  PROVE  ReleasesMet'
<1>1. pc \in {"escapes", "reclaims", "callbacks"} /\ module' = module
  BY DEF EscapeOne, EscapesEnd, ReclaimOne, ReclaimsEnd, CallbackOne, CallersEnd
<1>2. Calls' = Calls
  BY <1>1 DEF Calls
<1>3. \A i : ReleaseCall(Calls, i) /\ Calls[i].caller \notin todo => HasRelease(graph', Calls, i)
  <2>1. \A i : ReleaseCall(Calls, i) /\ Calls[i].caller \notin todo => HasRelease(graph, Calls, i)
    BY <1>1 DEF ReleasesMet, InFunction
  <2> QED BY <2>1, HasKept
<1>4. CASE EscapeOne \/ EscapesEnd \/ ReclaimOne \/ ReclaimsEnd \/ CallbackOne
  <2>1. todo' = todo
    BY <1>4 DEF EscapeOne, EscapesEnd, ReclaimOne, ReclaimsEnd, CallbackOne, Continue
  <2>2. pc' \in {"escapes", "reclaims", "callbacks"}
    BY <1>4 DEF EscapeOne, EscapesEnd, ReclaimOne, ReclaimsEnd, CallbackOne, Continue
  <2> QED BY <1>2, <1>3, <2>1, <2>2 DEF ReleasesMet, Left
<1>5. CASE CallersEnd
  <2>1. \/ pc' = "propagate" /\ todo = {}
        \/ pc' = "callers" /\ todo' = todo
    BY <1>5 DEF CallersEnd, Continue
  <2>2. CASE pc' = "propagate" /\ todo = {}
    BY <1>2, <1>3, <2>2 DEF ReleasesMet, InFunction
  <2>3. CASE pc' = "callers" /\ todo' = todo
    BY <1>2, <1>3, <2>3 DEF ReleasesMet, Left
  <2> QED BY <2>1, <2>2, <2>3
<1> QED BY <1>4, <1>5

LEMMA MetAfter ==
  ASSUME ReleasesMet, Keeps(graph, graph'),
         \/ Propagate \/ PropagateEnd \/ PostFreeOne \/ FillMemoryGraph
         \/ SolveAcquire \/ SolverTurns \/ SolveEffect \/ SolverStores \/ FindCandidates
         \/ UNCHANGED vars
  PROVE  ReleasesMet'
<1>1. CASE UNCHANGED vars
  <2>1. UNCHANGED <<module, pc, k, todo, graph, caller, func_releases>>
    BY <1>1 DEF vars, builderVars, lists
  <2>2. Calls' = Calls /\ CallsOf(caller)' = CallsOf(caller)
    BY <2>1 DEF Calls, CallsOf, InOrder
  <2> QED BY <2>1, <2>2 DEF ReleasesMet
<1>2. CASE ~UNCHANGED vars
  <2>1. pc \in Left /\ pc' \in Left /\ module' = module
    <3>1. CASE Propagate \/ PropagateEnd \/ PostFreeOne \/ FillMemoryGraph
      BY <3>1 DEF Propagate, PropagateEnd, PostFreeOne, FillMemoryGraph, Continue, Left
    <3>2. CASE SolveAcquire \/ SolveEffect
      <4>1. \E pass : Solving(pass)
        BY <3>2 DEF SolveAcquire, SolveEffect
      <4> QED BY <4>1 DEF Solving, Left
    <3>3. CASE SolverTurns \/ SolverStores \/ FindCandidates
      BY <3>3 DEF SolverTurns, SolverStores, FindCandidates, builderVars, Left
    <3> QED BY <1>2, <3>1, <3>2, <3>3
  <2>2. Calls' = Calls
    BY <2>1 DEF Calls
  <2>3. \A i : ReleaseCall(Calls, i) => HasRelease(graph', Calls, i)
    BY <2>1, HasKept DEF ReleasesMet
  <2> QED BY <2>1, <2>2, <2>3 DEF ReleasesMet, Left, InFunction
<1> QED BY <1>1, <1>2

LEMMA ReleasesMetInit == Init => ReleasesMet
BY DEF Init, BuilderInit, ReleasesMet, InFunction, Left

LEMMA ReleasesMetStep ==
  ASSUME BuilderInv, ReleasesMet, [Next]_vars
  PROVE  ReleasesMet'
<1>1. Keeps(graph, graph')
  BY EdgesKept
<1>2. CASE CallFact \/ CallFactsEnd \/ DeclaredFact \/ DeclaredFactsEnd \/ NextCaller
  BY <1>2, MetBefore
<1>3. CASE ScanAcquire \/ ScanReclaim \/ ScanRelease \/ ScanEscape \/ ScanOther \/ ScanSummary
  BY <1>1, <1>3, MetInScan
<1>4. CASE AcquireEdges
  BY <1>1, <1>4, MetAtScanEnd
<1>5. CASE ReleaseOne \/ ReleasesEnd
  BY <1>1, <1>5, MetInReleases
<1>6. CASE EscapeOne \/ EscapesEnd \/ ReclaimOne \/ ReclaimsEnd \/ CallbackOne \/ CallersEnd
  BY <1>1, <1>6, MetInFunction
<1>7. CASE \/ Propagate \/ PropagateEnd \/ PostFreeOne \/ FillMemoryGraph
           \/ SolveAcquire \/ SolverTurns \/ SolveEffect \/ SolverStores \/ FindCandidates
           \/ UNCHANGED vars
  BY <1>1, <1>7, MetAfter
<1> QED BY <1>2, <1>3, <1>4, <1>5, <1>6, <1>7 DEF Next, Build, BuilderNext

-----------------------------------------------------------------------------
(***************************************************************************)
(* What the depth-limited search finds: when no call path needs more than  *)
(* MAX_DEPTH calls to reach all it can, the functions are closed.          *)
(***************************************************************************)
ShallowCalls == \A f \in Callers : Reaches(reachable_functions(f))

LEMMA ReachSteps ==
  ASSUME NEW func
  PROVE  \E w : /\ w[0] = {func}
                /\ \A d \in 1 .. MAX_DEPTH : w[d] = w[d - 1] \cup CalledFrom(w[d - 1])
                /\ reachable_functions(func) = w[MAX_DEPTH]
<1> DEFINE Rec(w, m) == w = [d \in 0 .. m |-> IF d = 0 THEN {func} ELSE w[d - 1] \cup CalledFrom(w[d - 1])]
           T == {m \in Nat : \E w : Rec(w, m)}
<1>1. 0 \in T
  <2>1. Rec([d \in 0 .. 0 |-> {func}], 0)
    OBVIOUS
  <2> QED BY <2>1
<1>2. ASSUME NEW m \in 0 .. MAX_DEPTH - 1, m \in T PROVE m + 1 \in T
  <2>1. PICK w : Rec(w, m)
    BY <1>2
  <2> DEFINE top == w[m] \cup CalledFrom(w[m])
             h == [d \in 0 .. m + 1 |-> IF d = m + 1 THEN top ELSE w[d]]
             next(d) == IF d = 0 THEN {func} ELSE h[d - 1] \cup CalledFrom(h[d - 1])
  <2>2. m \in Nat /\ m + 1 \in Nat /\ h[m] = w[m]
    BY DEF MAX_DEPTH
  <2>3. ASSUME NEW d \in 0 .. m + 1 PROVE h[d] = next(d)
    <3>1. CASE d = m + 1
      <4>1. d # 0 /\ d - 1 = m /\ h[d] = top
        BY <2>2, <3>1
      <4> HIDE DEF h, top
      <4>2. top = h[d - 1] \cup CalledFrom(h[d - 1])
        BY <2>2, <3>1, <4>1 DEF top
      <4> QED BY <4>1, <4>2
    <3>2. CASE d # m + 1 /\ d # 0
      <4>1. d \in 0 .. m /\ d - 1 \in 0 .. m /\ d # m + 1 /\ d - 1 # m + 1
        BY <2>2, <3>2
      <4>2. h[d] = w[d] /\ h[d - 1] = w[d - 1]
        BY <4>1, <2>2
      <4>3. w[d] = w[d - 1] \cup CalledFrom(w[d - 1])
        BY <2>1, <3>2, <4>1
      <4> HIDE DEF h
      <4> QED BY <3>2, <4>2, <4>3
    <3>3. CASE d = 0
      <4>1. d \in 0 .. m /\ d # m + 1
        BY <2>2, <3>3
      <4> QED BY <2>1, <3>3, <4>1
    <3> QED BY <3>1, <3>2, <3>3
  <2>4. Rec(h, m + 1)
    <3>1. h = [d \in 0 .. m + 1 |-> h[d]]
      OBVIOUS
    <3> HIDE DEF h
    <3>2. [d \in 0 .. m + 1 |-> h[d]] = [d \in 0 .. m + 1 |-> next(d)]
      BY <2>3
    <3> QED BY <3>1, <3>2
  <2> HIDE DEF Rec, h
  <2> QED BY <2>2, <2>4
<1>3. MAX_DEPTH \in Nat
  BY DEF MAX_DEPTH
<1>4. \E w : Rec(w, MAX_DEPTH)
  <2> HIDE DEF T
  <2>1. \A m \in 0 .. MAX_DEPTH : m \in T
    BY <1>1, <1>2, <1>3, Ascend
  <2>2. MAX_DEPTH \in T
    BY <1>3, <2>1
  <2> QED BY <2>2 DEF T
<1> DEFINE w == CHOOSE w : Rec(w, MAX_DEPTH)
<1>5. Rec(w, MAX_DEPTH)
  BY <1>4, Zenon
<1>6. reachable_functions(func) = w[MAX_DEPTH]
  BY DEF reachable_functions
<1> HIDE DEF w
<1>7. w[0] = {func}
  BY <1>3, <1>5
<1>8. ASSUME NEW d \in 1 .. MAX_DEPTH PROVE w[d] = w[d - 1] \cup CalledFrom(w[d - 1])
  <2>1. d \in 0 .. MAX_DEPTH /\ d # 0
    BY <1>3
  <2> QED BY <1>5, <2>1
<1> QED BY <1>6, <1>7, <1>8

(* A function reaches itself, and nothing that nobody calls. *)
LEMMA ReachLaw ==
  ASSUME NEW func \in Callers
  PROVE  /\ func \in reachable_functions(func)
         /\ reachable_functions(func) \subseteq Callers \cup Called
<1>1. PICK w : /\ w[0] = {func}
               /\ \A d \in 1 .. MAX_DEPTH : w[d] = w[d - 1] \cup CalledFrom(w[d - 1])
               /\ reachable_functions(func) = w[MAX_DEPTH]
  BY ReachSteps
<1> DEFINE T == {d \in Nat : func \in w[d] /\ w[d] \subseteq Callers \cup Called}
<1>2. 0 \in T
  BY <1>1
<1>3. ASSUME NEW d \in 0 .. MAX_DEPTH - 1, d \in T PROVE d + 1 \in T
  <2>1. d + 1 \in Nat /\ d + 1 \in 1 .. MAX_DEPTH /\ (d + 1) - 1 = d
    BY DEF MAX_DEPTH
  <2>2. w[d + 1] = w[d] \cup CalledFrom(w[d])
    BY <1>1, <2>1
  <2>3. CalledFrom(w[d]) \subseteq Called
    BY DEF CalledFrom, Called
  <2> QED BY <1>3, <2>1, <2>2, <2>3
<1>4. MAX_DEPTH \in T
  <2> HIDE DEF T
  <2>1. MAX_DEPTH \in Nat
    BY DEF MAX_DEPTH
  <2>2. \A d \in 0 .. MAX_DEPTH : d \in T
    BY <1>2, <1>3, <2>1, Ascend
  <2> QED BY <2>1, <2>2
<1> QED BY <1>1, <1>4

LEMMA FewNames ==
  ASSUME module \in Modules
  PROVE  IsFiniteSet(Callers \cup Called)
<1> DEFINE I == DOMAIN Calls
           by == [i \in I |-> Calls[i].caller]
           to == [i \in I |-> Calls[i].callee]
<1>1. IsFiniteSet(I)
  <2>1. Len(Calls) \in Nat /\ DOMAIN Calls = 1 .. Len(Calls)
    BY CallsListed, ListedShape
  <2> QED BY <2>1, FS_Interval
<1>2. by \in Surjection(I, Callers) /\ to \in Surjection(I, Called)
  BY DEF Surjection, Callers, Called
<1> HIDE DEF I, by, to
<1>3. IsFiniteSet(Callers) /\ IsFiniteSet(Called)
  BY <1>1, <1>2, FS_Surjection
<1> QED BY <1>3, FS_Union

(* A module of MAX_DEPTH + 1 functions has no deeper call path. *)
LEMMA FewFunctionsShallow ==
  ASSUME module \in Modules, Cardinality(Callers \cup Called) <= MAX_DEPTH + 1
  PROVE  ShallowCalls
<1> DEFINE Names == Callers \cup Called
<1>1. IsFiniteSet(Names) /\ Cardinality(Names) \in Nat /\ Cardinality(Names) <= MAX_DEPTH + 1
  BY FewNames, FS_CardinalityType
<1> SUFFICES ASSUME NEW func \in Callers PROVE Reaches(reachable_functions(func))
  BY DEF ShallowCalls
<1>2. \A fs : CalledFrom(fs) \subseteq Names
  BY DEF CalledFrom, Called
<1>3. func \in Names
  OBVIOUS
<1> HIDE DEF Names
<1>4. PICK w : /\ w[0] = {func}
               /\ \A d \in 1 .. MAX_DEPTH : w[d] = w[d - 1] \cup CalledFrom(w[d - 1])
               /\ reachable_functions(func) = w[MAX_DEPTH]
  BY ReachSteps
<1> DEFINE Large(d) == Reaches(w[d]) \/ Cardinality(w[d]) >= d + 1
           T == {d \in Nat : w[d] \subseteq Names /\ Large(d)}
<1>5. 0 \in T
  <2>1. Cardinality(w[0]) = 1
    BY <1>4, FS_Singleton
  <2> QED BY <1>3, <1>4, <2>1
<1>6. ASSUME NEW d \in 0 .. MAX_DEPTH - 1, d \in T PROVE d + 1 \in T
  <2>1. d \in Nat /\ d + 1 \in Nat /\ d + 1 \in 1 .. MAX_DEPTH /\ (d + 1) - 1 = d
    BY DEF MAX_DEPTH
  <2>2. w[d + 1] = w[d] \cup CalledFrom(w[d])
    BY <1>4, <2>1
  <2>3. w[d + 1] \subseteq Names /\ w[d] \subseteq Names /\ Large(d)
    BY <1>2, <1>6, <2>2
  <2>4. CASE Reaches(w[d])
    <3>1. w[d + 1] = w[d]
      BY <2>2, <2>4 DEF Reaches
    <3> QED BY <2>1, <2>3, <2>4, <3>1
  <2>5. CASE ~Reaches(w[d])
    <3>1. PICK x \in CalledFrom(w[d]) : x \notin w[d]
      BY <2>5 DEF Reaches
    <3>2. IsFiniteSet(w[d]) /\ IsFiniteSet(w[d + 1])
      BY <1>1, <2>3, FS_Subset
    <3>3. Cardinality(w[d]) \in Nat /\ Cardinality(w[d + 1]) \in Nat
      BY <3>2, FS_CardinalityType
    <3>4. IsFiniteSet(w[d] \cup {x}) /\ Cardinality(w[d] \cup {x}) = Cardinality(w[d]) + 1
      BY <3>1, <3>2, FS_AddElement
    <3>5. w[d] \cup {x} \subseteq w[d + 1]
      BY <2>2, <3>1
    <3>6. Cardinality(w[d] \cup {x}) <= Cardinality(w[d + 1])
      BY <3>2, <3>5, FS_Subset
    <3>7. Cardinality(w[d + 1]) >= (d + 1) + 1
      BY <2>1, <2>3, <2>5, <3>3, <3>4, <3>6
    <3> QED BY <2>1, <2>3, <3>7
  <2> QED BY <2>4, <2>5
<1>7. MAX_DEPTH \in T
  <2> HIDE DEF T
  <2>1. MAX_DEPTH \in Nat
    BY DEF MAX_DEPTH
  <2>2. \A d \in 0 .. MAX_DEPTH : d \in T
    BY <1>5, <1>6, <2>1, Ascend
  <2> QED BY <2>1, <2>2
<1>8. CASE Cardinality(w[MAX_DEPTH]) >= MAX_DEPTH + 1
  <2>1. IsFiniteSet(w[MAX_DEPTH]) /\ Cardinality(w[MAX_DEPTH]) <= Cardinality(Names)
    BY <1>1, <1>7, FS_Subset
  <2>2. Cardinality(w[MAX_DEPTH]) \in Nat
    BY <2>1, FS_CardinalityType
  <2>3. Cardinality(w[MAX_DEPTH]) = Cardinality(Names)
    BY <1>1, <1>8, <2>1, <2>2 DEF MAX_DEPTH
  <2>4. w[MAX_DEPTH] = Names
    BY <1>1, <1>7, <2>3, FS_Subset
  <2> QED BY <1>2, <1>4, <2>4 DEF Reaches
<1> QED BY <1>4, <1>7, <1>8

-----------------------------------------------------------------------------
(* An allocation called a definite leak. *)
LEMMA DefiniteMeans ==
  ASSUME Linear(graph), NEW slots, NEW i, LeakCandidateOf(i, slots) = "DefiniteLeak"
  PROVE  ReachableReleases(i) = {} /\ Calls[i].caller \notin OnlyAborts
<1>1. LeakType(i, slots) = "Definite" /\ Cardinality(ReachableReleases(i)) = 0
  BY DEF LeakCandidateOf
<1>2. ReachableReleases(i) \subseteq DOMAIN graph.edges
  BY DEF ReachableReleases, release_call_sites_in, ReleasesOf
<1>3. IsFiniteSet(DOMAIN graph.edges)
  <2>1. Len(graph.edges) \in Nat /\ DOMAIN graph.edges = 1 .. Len(graph.edges)
    BY ListedShape DEF Linear, GraphShape
  <2>2. 1 \in Int /\ Len(graph.edges) \in Int
    BY <2>1
  <2>3. IsFiniteSet(1 .. Len(graph.edges))
    BY <2>2, FS_Interval
  <2> QED BY <2>1, <2>3
<1>4. ReachableReleases(i) = {}
  <2>1. IsFiniteSet(ReachableReleases(i))
    BY <1>2, <1>3, FS_Subset
  <2> QED BY <1>1, <2>1, FS_EmptySet
<1>5. ASSUME Calls[i].caller \in OnlyAborts PROVE FALSE
  <2>1. \A type : WithTermination(i, type) = "Safe"
    BY <1>5 DEF WithTermination
  <2>2. \A type : WithCallers(i, type) \in {"Safe", type}
    BY DEF WithCallers
  <2>3. LeakType(i, slots) = "Safe"
    BY <2>1, <2>2 DEF LeakType
  <2> QED BY <1>1, <2>3
<1> QED BY <1>4, <1>5

(* It has no release of its family in any function it leads to. *)
LEMMA NoReleaseMissed ==
  ASSUME Linear(graph), ReleasesMet, pc \in Left, ShallowCalls,
         NEW i \in AllocSites, ReachableReleases(i) = {}
  PROVE  ~ReleasedFrom(Calls[i].caller, FactFamily(i))
<1> DEFINE func == Calls[i].caller
           fs == reachable_functions(func)
<1>1. func \in Callers
  BY DEF AllocSites, Facts, Callers
<1>2. func \in fs /\ fs \in SUBSET (Callers \cup Called) /\ Reaches(fs)
  BY <1>1, ReachLaw DEF ShallowCalls
<1>3. ReachableReleases(i) = release_call_sites_in(graph, FactFamily(i), fs)
  BY DEF ReachableReleases
<1> HIDE DEF fs
<1> SUFFICES ASSUME ReleasedFrom(func, FactFamily(i)) PROVE FALSE
  OBVIOUS
<1>4. PICK j \in DOMAIN Calls : /\ Calls[j].caller \in fs /\ Calls[j].callee \notin DOMAIN Summary
                                /\ Role(Calls[j].callee) \in Freeing
                                /\ Lookup(Calls[j].callee).family = FactFamily(i)
  BY <1>2 DEF ReleasedFrom
<1>5. HasRelease(graph, Calls, j)
  BY <1>4 DEF ReleasesMet, ReleaseCall
<1>6. PICK n \in DOMAIN graph.edges :
        /\ graph.edges[n].effect \in Freeing /\ graph.edges[n].family = FactFamily(i)
        /\ graph.edges[n].site.caller = Calls[j].caller /\ graph.edges[n].site.callee = Calls[j].callee
  BY <1>4, <1>5 DEF HasRelease
<1>7. Calls[j].callee \in fs
  BY <1>2, <1>4 DEF Reaches, CalledFrom
<1>8. release_call_site(graph.edges[n]) \in fs
  BY <1>4, <1>6, <1>7 DEF release_call_site
<1>9. n \in ReleasesOf(graph, FactFamily(i))
  BY <1>6 DEF ReleasesOf, ReleaseEffect, Freeing
<1> QED BY <1>3, <1>8, <1>9 DEF release_call_sites_in

LEMMA LeaksWhenFound ==
  ASSUME BuilderInv, ReleasesMet, ShallowCalls, FindCandidates
  PROVE  \A c \in leak_candidates' :
           c.kind = "DefiniteLeak" => /\ ~ReleasedFrom(Calls[c.call].caller, FactFamily(c.call))
                                      /\ Calls[c.call].caller \notin OnlyAborts
<1>1. pc \in Left /\ leak_candidates' = LeakCandidates(KnownSlots) /\ Linear(graph)
  BY DEF FindCandidates, Left, BuilderInv
<1> SUFFICES ASSUME NEW c \in LeakCandidates(KnownSlots), c.kind = "DefiniteLeak"
             PROVE  /\ ~ReleasedFrom(Calls[c.call].caller, FactFamily(c.call))
                    /\ Calls[c.call].caller \notin OnlyAborts
  BY <1>1
<1>2. PICK i \in AllocSites : c = [call |-> i, kind |-> LeakCandidateOf(i, KnownSlots)]
  BY DEF LeakCandidates
<1>3. c.call = i /\ LeakCandidateOf(i, KnownSlots) = "DefiniteLeak"
  BY <1>2
<1>4. ReachableReleases(i) = {} /\ Calls[i].caller \notin OnlyAborts
  BY <1>1, <1>3, DefiniteMeans
<1>5. ~ReleasedFrom(Calls[i].caller, FactFamily(i))
  BY <1>1, <1>4, NoReleaseMissed
<1> QED BY <1>3, <1>4, <1>5

(* What is said of a module's calls does not change. *)
LEMMA CallsStay ==
  ASSUME module' = module
  PROVE  /\ ShallowCalls' <=> ShallowCalls
         /\ Calls' = Calls
         /\ \A func, family : ReleasedFrom(func, family)' <=> ReleasedFrom(func, family)
         /\ \A i : FactFamily(i)' = FactFamily(i)
<1>1. Calls' = Calls
  BY DEF Calls
<1>2. Callers' = Callers /\ Called' = Called
  BY <1>1 DEF Callers, Called
<1>3. \A fs : CalledFrom(fs)' = CalledFrom(fs)
  BY <1>1 DEF CalledFrom
<1>4. \A fs : Reaches(fs)' <=> Reaches(fs)
  BY <1>3 DEF Reaches
<1>5. \A func : reachable_functions(func)' = reachable_functions(func)
  BY <1>1 DEF reachable_functions, CalledFrom
<1>6. ShallowCalls' <=> ShallowCalls
  <2>1. \A func : Reaches(reachable_functions(func))' <=> Reaches(reachable_functions(func))
    BY <1>3, <1>5 DEF Reaches
  <2> QED BY <1>2, <2>1 DEF ShallowCalls
<1>7. \A func, family : ReleasedFrom(func, family)' <=> ReleasedFrom(func, family)
  BY <1>1, <1>2, <1>4 DEF ReleasedFrom
<1>8. \A i : FactFamily(i)' = FactFamily(i)
  BY <1>1 DEF FactFamily
<1> QED BY <1>1, <1>6, <1>7, <1>8

LEMMA ModuleStays == [Next]_vars => module' = module
BY DEF Next, Build, BuilderNext, CallFact, CallFactsEnd, DeclaredFact, DeclaredFactsEnd, NextCaller,
       ScanAcquire, ScanReclaim, ScanRelease, ScanEscape, ScanOther, ScanSummary, Scanning, AcquireEdges,
       ReleaseOne, ReleasesEnd, EscapeOne, EscapesEnd, ReclaimOne, ReclaimsEnd, CallbackOne, CallersEnd,
       Propagate, PropagateEnd, PostFreeOne, FillMemoryGraph, SolveAcquire, SolverTurns, SolveEffect,
       SolverStores, FindCandidates, Solving, builderVars, vars

LEMMA LeaksFoundOnce == [Next]_vars /\ ~FindCandidates => leak_candidates' = leak_candidates
BY DEF Next, Build, SolveAcquire, SolverTurns, SolveEffect, SolverStores, Solving, vars

LEMMA LeaksStep ==
  ASSUME BuilderInv, ReleasesMet, ShallowCalls => DefiniteLeaksHaveNoRelease, [Next]_vars, ShallowCalls'
  PROVE  DefiniteLeaksHaveNoRelease'
<1>1. module' = module
  BY ModuleStays
<1>2. ShallowCalls
  BY <1>1, CallsStay
<1>3. \A c \in leak_candidates' :
        c.kind = "DefiniteLeak" => /\ ~ReleasedFrom(Calls[c.call].caller, FactFamily(c.call))
                                   /\ Calls[c.call].caller \notin OnlyAborts
  <2>1. CASE FindCandidates
    BY <1>2, <2>1, LeaksWhenFound
  <2>2. CASE ~FindCandidates
    <3>1. leak_candidates' = leak_candidates
      BY <2>2, LeaksFoundOnce
    <3> QED BY <1>2, <3>1 DEF DefiniteLeaksHaveNoRelease
  <2> QED BY <2>1, <2>2
<1> QED BY <1>1, <1>3, CallsStay DEF DefiniteLeaksHaveNoRelease

(***************************************************************************)
(* LeakDetectionPass calls an allocation a definite leak only where no     *)
(* call path leads to a release of its family, and never in a function     *)
(* that does not return: DefiniteLeaksHaveNoRelease of the run, for any    *)
(* calls, tables and slots of the solver.  The code follows MAX_DEPTH      *)
(* calls; ShallowCalls says that this is all there is to follow, as it is  *)
(* in every module of MAX_DEPTH + 1 functions at most                      *)
(* (FewFunctionsShallow); past it, a release 17 calls away is missed.      *)
(***************************************************************************)
THEOREM DefiniteLeaksAreReal == Spec => [](ShallowCalls => DefiniteLeaksHaveNoRelease)
<1> DEFINE NoneMissed == ShallowCalls => DefiniteLeaksHaveNoRelease
<1>1. Init => ReleasesMet /\ NoneMissed
  BY ReleasesMetInit DEF Init, DefiniteLeaksHaveNoRelease
<1>2. BuilderInv /\ ReleasesMet /\ NoneMissed /\ [Next]_vars => ReleasesMet' /\ NoneMissed'
  BY ReleasesMetStep, LeaksStep
<1> QED BY <1>1, <1>2, GraphInvariant, PTL DEF Spec

-----------------------------------------------------------------------------
(***************************************************************************)
(* What is said of the names of instances.  An edge brings a name: that of *)
(* an instance it creates, of what an escape makes of one, of the userdata *)
(* of a callback.                                                          *)
(***************************************************************************)
Birth == {"Acquire", "OwnershipReclaim", "OutParamOwnedOnSuccess"}

Using == {"ConsumesArg", "EscapesToCallback"}

Passing == Ending \cup Using

NameOf(e) == IF e.effect = "OutParamOwnedOnSuccess" THEN e.target ELSE e.result

Bears(e, x) == e.effect \in Birth /\ NameOf(e) = x

Brings(e, x) ==
  \/ Bears(e, x)
  \/ e.effect = "OwnershipEscape" /\ e.result = x
  \/ e.effect = "EscapesToCallback" /\ e.source = x

Uses(e, x) == e.effect \in Using /\ e.source = x

(* An edge by itself: only what passes an instance on has a source. *)
Proper(e) ==
  /\ e.effect \in Effect
  /\ e.effect \notin Passing => e.source = 0
  /\ e.effect \in Birth => NameOf(e) # 0
  /\ e.effect = "OwnershipEscape" => e.result # 0

Within(e, next) ==
  e.source \in 0 .. next - 1 /\ e.target \in 0 .. next - 1 /\ e.result \in 0 .. next - 1

(***************************************************************************)
(* An edge e and one before it: an instance is created under a new name,   *)
(* only an acquired one is the userdata of a callback, nothing ends before *)
(* it is acquired, nor after it was passed on.                             *)
(***************************************************************************)
Apart(d, e) ==
  /\ e.effect \in Birth => ~Brings(d, NameOf(e))
  /\ e.effect = "OwnershipEscape" => ~Bears(d, e.result)
  /\ e.effect = "EscapesToCallback" /\ d.effect # "Acquire" => ~Bears(d, e.source)
  /\ e.effect \in Ending /\ e.source # 0 => ~Uses(d, e.source)
  /\ e.effect = "Acquire" /\ d.effect \in Ending => d.source # e.result

(* A late use is of an acquired instance that was released before. *)
LateUse(g, i) ==
  /\ g.edges[i].effect = "ConsumesArg"
  /\ \E a \in DOMAIN g.edges : /\ a < i /\ g.edges[a].effect = "Acquire"
                               /\ g.edges[a].result = g.edges[i].source
  /\ \E r \in DOMAIN g.edges : /\ r < i /\ g.edges[r].effect \in Freeing
                               /\ g.edges[r].source = g.edges[i].source

Named(g) ==
  /\ \A i \in DOMAIN g.edges : /\ Proper(g.edges[i])
                               /\ Within(g.edges[i], g.next_instance_id)
                               /\ (g.edges[i].site.by = "use" => LateUse(g, i))
  /\ \A i, j \in DOMAIN g.edges : i < j => Apart(g.edges[i], g.edges[j])

Unnamed(g, x) == \A i \in DOMAIN g.edges : ~Brings(g.edges[i], x)

NotBorn(g, x) == \A i \in DOMAIN g.edges : ~Bears(g.edges[i], x)

NotUsed(g, x) == \A i \in DOMAIN g.edges : ~Uses(g.edges[i], x)

(* One edge more. *)
LEMMA NamedMore ==
  ASSUME NEW g, NEW h, NEW e, GraphShape(g), Named(g), Adds(g, h, e),
         Proper(e), Within(e, h.next_instance_id),
         e.site.by = "use" => LateUse(h, Top(g)),
         \A i \in DOMAIN g.edges : Apart(g.edges[i], e)
  PROVE  /\ Named(h)
         /\ \A x : /\ Unnamed(g, x) /\ ~Brings(e, x) => Unnamed(h, x)
                   /\ NotBorn(g, x) /\ ~Bears(e, x) => NotBorn(h, x)
                   /\ NotUsed(g, x) /\ ~Uses(e, x) => NotUsed(h, x)
<1>1. /\ DOMAIN g.edges = 1 .. Len(g.edges) /\ Len(g.edges) \in Nat
      /\ Top(g) \notin DOMAIN g.edges /\ DOMAIN h.edges = DOMAIN g.edges \cup {Top(g)}
      /\ \A i \in DOMAIN g.edges : h.edges[i] = g.edges[i] /\ i < Top(g)
      /\ h.edges[Top(g)] = e
  BY Added
<1>2. /\ g.next_instance_id \in Nat /\ h.next_instance_id \in Nat
      /\ g.next_instance_id <= h.next_instance_id
  BY DEF Adds, GraphShape
<1>3. ASSUME NEW i \in DOMAIN h.edges
      PROVE  /\ Proper(h.edges[i]) /\ Within(h.edges[i], h.next_instance_id)
             /\ (h.edges[i].site.by = "use" => LateUse(h, i))
  <2>1. CASE i = Top(g)
    BY <1>1, <2>1
  <2>2. CASE i \in DOMAIN g.edges
    <3>1. h.edges[i] = g.edges[i]
      BY <1>1, <2>2
    <3>2. Proper(g.edges[i]) /\ Within(g.edges[i], g.next_instance_id)
      BY <2>2 DEF Named
    <3>3. Within(g.edges[i], h.next_instance_id)
      BY <1>2, <3>2 DEF Within
    <3>4. g.edges[i].site.by = "use" => LateUse(h, i)
      <4>1. g.edges[i].site.by = "use" => LateUse(g, i)
        BY <2>2 DEF Named
      <4>2. LateUse(g, i) => LateUse(h, i)
        BY <1>1, <3>1 DEF LateUse
      <4> QED BY <4>1, <4>2
    <3> QED BY <3>1, <3>2, <3>3, <3>4
  <2> QED BY <1>1, <2>1, <2>2
<1>4. ASSUME NEW i \in DOMAIN h.edges, NEW j \in DOMAIN h.edges, i < j
      PROVE  Apart(h.edges[i], h.edges[j])
  <2>1. i \in DOMAIN g.edges
    <3>1. i # Top(g)
      BY <1>1, <1>4 DEF Top
    <3> QED BY <1>1, <3>1
  <2>2. CASE j = Top(g)
    BY <1>1, <2>1, <2>2
  <2>3. CASE j \in DOMAIN g.edges
    BY <1>1, <1>4, <2>1, <2>3 DEF Named
  <2> QED BY <1>1, <2>2, <2>3
<1>5. Named(h)
  BY <1>3, <1>4 DEF Named
<1>6. \A x : /\ Unnamed(g, x) /\ ~Brings(e, x) => Unnamed(h, x)
             /\ NotBorn(g, x) /\ ~Bears(e, x) => NotBorn(h, x)
             /\ NotUsed(g, x) /\ ~Uses(e, x) => NotUsed(h, x)
  BY <1>1 DEF Unnamed, NotBorn, NotUsed
<1> QED BY <1>5, <1>6

(* A number that is not an id yet is no name. *)
LEMMA NoName ==
  ASSUME NEW g, GraphShape(g), Named(g), NEW x \in Nat \ {0}, x >= g.next_instance_id
  PROVE  Unnamed(g, x) /\ NotBorn(g, x) /\ NotUsed(g, x)
<1>1. g.next_instance_id \in Nat
  BY DEF GraphShape
<1>2. ASSUME NEW i \in DOMAIN g.edges
      PROVE  g.edges[i].source # x /\ g.edges[i].target # x /\ g.edges[i].result # x
  <2>1. Within(g.edges[i], g.next_instance_id)
    BY DEF Named
  <2> QED BY <1>1, <2>1 DEF Within
<1> QED BY <1>2 DEF Unnamed, NotBorn, NotUsed, Brings, Bears, Uses, NameOf

(* What was no name stays none. *)
NameGrows(g, h) ==
  /\ Named(h) /\ g.next_instance_id <= h.next_instance_id
  /\ \A x \in 1 .. g.next_instance_id - 1 : /\ Unnamed(g, x) => Unnamed(h, x)
                                            /\ NotBorn(g, x) => NotBorn(h, x)
                                            /\ NotUsed(g, x) => NotUsed(h, x)

LEMMA NameGrowsOn ==
  ASSUME NEW g, NEW h, NEW l, GraphShape(g), GraphShape(h), GraphShape(l),
         NameGrows(g, h), NameGrows(h, l)
  PROVE  NameGrows(g, l)
<1>1. /\ g.next_instance_id \in Nat /\ h.next_instance_id \in Nat /\ l.next_instance_id \in Nat
      /\ g.next_instance_id <= h.next_instance_id /\ h.next_instance_id <= l.next_instance_id
  BY DEF NameGrows, GraphShape
<1>2. \A x \in 1 .. g.next_instance_id - 1 : x \in 1 .. h.next_instance_id - 1
  BY <1>1
<1>3. g.next_instance_id <= l.next_instance_id
  BY <1>1
<1> QED BY <1>2, <1>3 DEF NameGrows

LEMMA NameGrowsByNone ==
  ASSUME NEW g, Linear(g), Named(g)
  PROVE  NameGrows(g, g) /\ NameGrows(g, alloc_instance(g))
<1>1. /\ alloc_instance(g).edges = g.edges
      /\ alloc_instance(g).next_instance_id = g.next_instance_id + 1
      /\ g.next_instance_id \in Nat \ {0}
  BY Allocated
<1> DEFINE h == alloc_instance(g)
<1>2. h.edges = g.edges /\ g.next_instance_id <= h.next_instance_id
      /\ g.next_instance_id <= g.next_instance_id
  BY <1>1
<1>3. Named(h)
  <2>1. \A i \in DOMAIN g.edges : /\ Proper(g.edges[i]) /\ Within(g.edges[i], h.next_instance_id)
                                  /\ (g.edges[i].site.by = "use" => LateUse(g, i))
    BY <1>1 DEF Named, Within
  <2> HIDE DEF h
  <2> QED BY <1>2, <2>1 DEF Named, LateUse
<1> HIDE DEF h
<1>4. NameGrows(g, h)
  BY <1>2, <1>3 DEF NameGrows, Unnamed, NotBorn, NotUsed
<1> QED BY <1>2, <1>4 DEF NameGrows, h

(* An edge all of whose names are new. *)
Fresh(g, h, e) ==
  /\ e.source \in {0, g.next_instance_id} /\ e.target \in {0, g.next_instance_id}
  /\ e.result \in {0, g.next_instance_id}
  /\ Within(e, h.next_instance_id) /\ e.site.by # "use"

LEMMA FreshEdge ==
  ASSUME NEW g, NEW h, NEW e, GraphShape(g), Named(g), Adds(g, h, e), Proper(e), Fresh(g, h, e)
  PROVE  /\ NameGrows(g, h)
         /\ e.effect \notin Using => NotUsed(h, g.next_instance_id)
<1> DEFINE id == g.next_instance_id
<1>1. id \in Nat \ {0} /\ id <= h.next_instance_id
  BY DEF GraphShape, Adds
<1>2. Unnamed(g, id) /\ NotBorn(g, id) /\ NotUsed(g, id)
  BY <1>1, NoName
<1>3. e.source \in {0, id} /\ e.target \in {0, id} /\ e.result \in {0, id}
  BY DEF Fresh
<1> HIDE DEF id
<1>4. ASSUME NEW i \in DOMAIN g.edges PROVE Apart(g.edges[i], e)
  <2> DEFINE d == g.edges[i]
  <2>1. Proper(d) /\ ~Brings(d, id) /\ ~Bears(d, id) /\ ~Uses(d, id)
    BY <1>2 DEF Named, Unnamed, NotBorn, NotUsed
  <2>2. d.source # id
    <3>1. Within(d, g.next_instance_id)
      BY DEF Named
    <3> QED BY <1>1, <3>1 DEF Within, id
  <2>3. ~Bears(d, 0)
    BY <2>1 DEF Proper, Bears
  <2> HIDE DEF d
  <2>4. e.effect \in Birth => NameOf(e) = id
    BY <1>3 DEF Proper, NameOf
  <2>5. e.effect = "OwnershipEscape" => e.result = id
    BY <1>3 DEF Proper
  <2>6. e.effect \in Ending /\ e.source # 0 => e.source = id
    BY <1>3
  <2>7. e.effect = "Acquire" => e.result = id
    BY <2>4 DEF Birth, NameOf
  <2>8. Apart(d, e)
    BY <1>3, <2>1, <2>2, <2>3, <2>4, <2>5, <2>6, <2>7 DEF Apart
  <2> QED BY <2>8 DEF d
<1>5. /\ Named(h)
      /\ \A x : /\ Unnamed(g, x) /\ ~Brings(e, x) => Unnamed(h, x)
                /\ NotBorn(g, x) /\ ~Bears(e, x) => NotBorn(h, x)
                /\ NotUsed(g, x) /\ ~Uses(e, x) => NotUsed(h, x)
  BY <1>4, NamedMore DEF Fresh
<1>6. ASSUME NEW x \in 1 .. id - 1 PROVE ~Brings(e, x) /\ ~Bears(e, x) /\ ~Uses(e, x)
  <2>1. x # 0 /\ x # id
    BY <1>1
  <2> QED BY <1>3, <2>1 DEF Brings, Bears, Uses, NameOf
<1>7. NameGrows(g, h)
  BY <1>1, <1>5, <1>6 DEF NameGrows, id
<1>8. e.effect \notin Using => NotUsed(h, id)
  BY <1>2, <1>5 DEF Uses
<1> QED BY <1>7, <1>8 DEF id

-----------------------------------------------------------------------------
(***************************************************************************)
(* What is said of the builder's lists: the ids of acquires that wait for  *)
(* their edges, and of reclaims, are no names yet, those of the escapes    *)
(* are nobody's birth, and none was used.                                  *)
(***************************************************************************)
NoUsing(g) == \A i \in DOMAIN g.edges : g.edges[i].effect \notin Using

ToName(g, s, from) == \A n \in DOMAIN s : from <= n => Unnamed(g, s[n].id)

ToEscape(g, s) == \A n \in DOMAIN s : NotBorn(g, s[n].id)

ToUse(g, s) == \A n \in DOMAIN s : NotUsed(g, s[n].id)

IdsApart(es, rs) ==
  /\ \A m \in DOMAIN es, n \in DOMAIN rs : es[m].id # rs[n].id
  /\ \A m, n \in DOMAIN rs : rs[m].id = rs[n].id => m = n

AcquiredIds(g, as) == \A n \in DOMAIN as : as[n].id \in Ids(g)

Nobodys(id, rs) == id = 0 \/ \E n \in DOMAIN rs : rs[n].id = id

Matching == {"scan", "releases", "escapes", "reclaims"}

ListNames ==
  /\ pc = "scan" => ToName(graph, func_acquires, 1)
  /\ pc \in Matching \ {"reclaims"} => /\ ToEscape(graph, func_escapes)
                                       /\ ToName(graph, func_reclaims, 1)
  /\ pc = "reclaims" => /\ ToName(graph, func_reclaims, k)
                        /\ Nobodys(reclaim_fallback_id, func_reclaims)
  /\ pc \in Matching => /\ ToUse(graph, func_acquires)
                        /\ ToUse(graph, func_escapes) /\ ToUse(graph, func_reclaims)
                        /\ IdsApart(func_escapes, func_reclaims)
  /\ pc = "callbacks" => AcquiredIds(graph, func_acquires)

NameInv ==
  /\ Named(graph)
  /\ pc \in {"facts", "declared"} => NoUsing(graph)
  /\ ListNames

(* An edge that ends an instance. *)
LEMMA EndApart ==
  ASSUME NEW g, NEW e, Named(g), e.effect \in Ending, e.source # 0 => NotUsed(g, e.source),
         e.effect = "OwnershipEscape" => NotBorn(g, e.result),
         e.effect = "OwnershipReclaim" => Unnamed(g, e.result)
  PROVE  \A i \in DOMAIN g.edges : Apart(g.edges[i], e)
<1>1. ASSUME NEW i \in DOMAIN g.edges PROVE Apart(g.edges[i], e)
  <2> DEFINE d == g.edges[i]
  <2>1. e.effect \in Birth => e.effect = "OwnershipReclaim" /\ NameOf(e) = e.result
    BY DEF Birth, Ending, ReleaseOrCross, NameOf
  <2>2. e.effect \notin {"Acquire", "EscapesToCallback"}
    BY DEF Ending, ReleaseOrCross
  <2>3. /\ e.source # 0 => ~Uses(d, e.source)
        /\ e.effect = "OwnershipEscape" => ~Bears(d, e.result)
        /\ e.effect = "OwnershipReclaim" => ~Brings(d, e.result)
    BY DEF NotUsed, NotBorn, Unnamed
  <2> HIDE DEF d
  <2>4. Apart(d, e)
    BY <2>1, <2>2, <2>3 DEF Apart
  <2> QED BY <2>4 DEF d
<1> QED BY <1>1

LEMMA EndNamed ==
  ASSUME NEW g, NEW h, NEW e, Linear(g), Linear(h), Named(g), Adds(g, h, e),
         e.effect \in Ending, e.source # 0 => NotUsed(g, e.source),
         e.target \in 0 .. h.next_instance_id - 1, e.result \in 0 .. h.next_instance_id - 1,
         e.effect = "OwnershipEscape" => e.result # 0 /\ NotBorn(g, e.result),
         e.effect = "OwnershipReclaim" => e.result # 0 /\ Unnamed(g, e.result),
         e.site.by # "use"
  PROVE  /\ Named(h)
         /\ \A x : /\ Unnamed(g, x) /\ ~Brings(e, x) => Unnamed(h, x)
                   /\ NotBorn(g, x) /\ ~Bears(e, x) => NotBorn(h, x)
                   /\ NotUsed(g, x) => NotUsed(h, x)
<1>1. GraphShape(g) /\ InUse(h)
  BY DEF Linear
<1>2. Top(g) \in DOMAIN h.edges /\ h.edges[Top(g)] = e
  BY <1>1, Added
<1>3. e.source \in 0 .. h.next_instance_id - 1
  BY <1>1, <1>2 DEF InUse
<1>4. Within(e, h.next_instance_id)
  BY <1>3 DEF Within
<1>5. Proper(e)
  <2>1. e.effect \in Effect /\ e.effect \in Passing
    BY DEF Ending, ReleaseOrCross, Effect, Passing
  <2>2. e.effect \in Birth => NameOf(e) # 0
    BY DEF Birth, Ending, ReleaseOrCross, NameOf
  <2> QED BY <2>1, <2>2 DEF Proper
<1>6. \A i \in DOMAIN g.edges : Apart(g.edges[i], e)
  BY EndApart
<1>7. \A x : ~Uses(e, x)
  BY DEF Uses, Using, Ending, ReleaseOrCross
<1> QED BY <1>1, <1>4, <1>5, <1>6, <1>7, NamedMore

(* The facts. *)
LEMMA NamedByFact ==
  ASSUME NEW site, site.by = "fact", RawAcquire(site) \/ RawRelease(site) \/ NoFact(site),
         Linear(graph), Linear(graph'), Named(graph), NoUsing(graph)
  PROVE  Named(graph') /\ NoUsing(graph')
<1> DEFINE id == graph.next_instance_id
           family == Registry[site.callee].family
<1>1. GraphShape(graph) /\ id \in Nat \ {0}
  BY Unused DEF Linear
<1>2. CASE graph' = graph
  BY <1>2
<1>3. ASSUME NEW e, graph' = add_edge(alloc_instance(graph), e), e.site = site,
             e = AcquireEdge(id, family, site) \/ e = ReleaseEdge(id, "Release", family, site)
      PROVE  Named(graph') /\ NoUsing(graph')
  <2>1. Adds(graph, graph', e) /\ graph'.next_instance_id = id + 1
    BY <1>1, <1>3, GraphOps
  <2>2. e.effect \in {"Acquire", "Release"} /\ e.source \in {0, id} /\ e.target \in {0, id}
        /\ e.result \in {0, id} /\ (e.effect = "Acquire" => e.source = 0 /\ e.result = id)
    BY <1>3 DEF AcquireEdge, ReleaseEdge, ContractEdge
  <2>3. Proper(e)
    <3>1. e.effect \in Effect /\ e.effect # "OwnershipEscape" /\ e.effect \notin Using
      BY <2>2 DEF Effect, Using
    <3>2. e.effect \notin Passing => e.effect = "Acquire"
      BY <2>2 DEF Passing, Ending, ReleaseOrCross
    <3>3. e.effect \in Birth => e.effect = "Acquire" /\ NameOf(e) = e.result
      BY <2>2 DEF Birth, NameOf
    <3> QED BY <1>1, <2>2, <3>1, <3>2, <3>3 DEF Proper
  <2>4. Fresh(graph, graph', e)
    BY <1>1, <1>3, <2>1, <2>2 DEF Fresh, Within
  <2>5. Named(graph')
    BY <1>1, <2>1, <2>3, <2>4, FreshEdge DEF NameGrows
  <2>6. e.effect \notin Using
    BY <2>2 DEF Using
  <2>7. NoUsing(graph')
    BY <1>1, <2>1, <2>6, Added DEF NoUsing
  <2> QED BY <2>5, <2>7
<1>4. ASSUME NEW e, graph' = add_edge(graph, e), e.site = site, e.effect \in ReleaseOrCross,
             e.target = 0, e.result = 0
      PROVE  Named(graph') /\ NoUsing(graph')
  <2>1. Adds(graph, graph', e) /\ graph'.next_instance_id = id
    BY <1>1, <1>4, GraphOps
  <2>2. e.effect \in Ending /\ e.effect \notin {"OwnershipEscape", "OwnershipReclaim"} /\ e.effect \notin Using
    BY <1>4 DEF Ending, ReleaseOrCross, Using
  <2>3. NotUsed(graph, e.source)
    BY DEF NoUsing, NotUsed, Uses
  <2>4. 0 \in 0 .. graph'.next_instance_id - 1
    BY <1>1, <2>1
  <2>5. Named(graph')
    BY <1>4, <2>1, <2>2, <2>3, <2>4, EndNamed
  <2>6. NoUsing(graph')
    BY <1>1, <2>1, <2>2, Added DEF NoUsing
  <2> QED BY <2>5, <2>6
<1>5. CASE RawAcquire(site)
  <2>1. AcquireEdge(id, family, site).site = site
    BY DEF AcquireEdge, ContractEdge
  <2>2. graph' = graph \/ graph' = add_edge(alloc_instance(graph), AcquireEdge(id, family, site))
    BY <1>5 DEF RawAcquire
  <2> HIDE DEF id, family
  <2> QED BY <1>2, <1>3, <2>1, <2>2
<1>6. CASE RawRelease(site)
  <2>1. ReleaseEdge(id, "Release", family, site).site = site
    BY DEF ReleaseEdge, ContractEdge
  <2>2. \/ graph' = add_edge(alloc_instance(graph), ReleaseEdge(id, "Release", family, site))
        \/ \E x, alloc : graph' = add_edge(graph, ReleaseEdge(x, RawReleaseEffect(alloc, family), family, site))
    BY <1>6 DEF RawRelease
  <2>3. \A x, alloc : LET e == ReleaseEdge(x, RawReleaseEffect(alloc, family), family, site) IN
          e.site = site /\ e.effect \in ReleaseOrCross /\ e.target = 0 /\ e.result = 0
    BY DEF ReleaseEdge, ContractEdge, RawReleaseEffect, ReleaseOrCross
  <2> HIDE DEF id, family
  <2> QED BY <1>3, <1>4, <2>1, <2>2, <2>3
<1>7. CASE NoFact(site)
  BY <1>2, <1>7 DEF NoFact
<1> QED BY <1>5, <1>6, <1>7

LEMMA NamesByFacts ==
  ASSUME BuilderInv, BuilderInv', NameInv,
         CallFact \/ CallFactsEnd \/ DeclaredFact \/ DeclaredFactsEnd
  PROVE  NameInv'
<1>1. Linear(graph) /\ Linear(graph') /\ Named(graph) /\ NoUsing(graph)
  BY DEF BuilderInv, NameInv, CallFact, CallFactsEnd, DeclaredFact, DeclaredFactsEnd
<1>2. \A site : site.by = "fact" /\ (RawAcquire(site) \/ RawRelease(site) \/ NoFact(site))
        => Named(graph') /\ NoUsing(graph')
  BY <1>1, NamedByFact
<1>3. CallSite(k, "fact").by = "fact" /\ \A s : Site("", s, 0, "fact").by = "fact"
  BY DEF CallSite, Site
<1>4. CASE CallFact
  <2>1. \/ RawAcquire(CallSite(k, "fact")) \/ RawRelease(CallSite(k, "fact"))
        \/ NoFact(CallSite(k, "fact"))
    BY <1>4 DEF CallFact
  <2>2. pc' = "facts"
    BY <1>4 DEF CallFact
  <2> QED BY <1>2, <1>3, <2>1, <2>2 DEF NameInv, ListNames, Matching
<1>5. CASE DeclaredFact
  <2>1. /\ pc' = "declared"
        /\ \E s : RawAcquire(Site("", s, 0, "fact")) \/ RawRelease(Site("", s, 0, "fact"))
    BY <1>5 DEF DeclaredFact
  <2> QED BY <1>2, <1>3, <2>1 DEF NameInv, ListNames, Matching
<1>6. CASE CallFactsEnd \/ DeclaredFactsEnd
  <2>1. pc' \in {"declared", "callers"} /\ graph' = graph
    BY <1>6 DEF CallFactsEnd, DeclaredFactsEnd, Continue
  <2> QED BY <1>1, <2>1 DEF NameInv, ListNames, Matching
<1> QED BY <1>4, <1>5, <1>6

(* The scan. *)
ScanNames(g, as, es, rs) ==
  /\ ToName(g, as, 1) /\ ToEscape(g, es) /\ ToName(g, rs, 1)
  /\ ToUse(g, as) /\ ToUse(g, es) /\ ToUse(g, rs)
  /\ IdsApart(es, rs)

IdsBelow(g, s) == Listed(s) /\ \A n \in DOMAIN s : s[n].id \in 1 .. g.next_instance_id - 1

LEMMA NamesGrow ==
  ASSUME NEW g, NEW h, NEW as, NEW es, NEW rs, NameGrows(g, h),
         IdsBelow(g, as), IdsBelow(g, es), IdsBelow(g, rs), ScanNames(g, as, es, rs)
  PROVE  ScanNames(h, as, es, rs)
<1>1. \A x \in 1 .. g.next_instance_id - 1 : /\ Unnamed(g, x) => Unnamed(h, x)
                                             /\ NotBorn(g, x) => NotBorn(h, x)
                                             /\ NotUsed(g, x) => NotUsed(h, x)
  BY DEF NameGrows
<1>2. ToName(h, as, 1) /\ ToName(h, rs, 1)
  BY <1>1 DEF ToName, IdsBelow, ScanNames
<1>3. ToEscape(h, es)
  BY <1>1 DEF ToEscape, IdsBelow, ScanNames
<1>4. ToUse(h, as) /\ ToUse(h, es) /\ ToUse(h, rs)
  BY <1>1 DEF ToUse, IdsBelow, ScanNames
<1> QED BY <1>2, <1>3, <1>4 DEF ScanNames

(* The id of one entry more is the next. *)
LEMMA NamesMore ==
  ASSUME NEW g, NEW as, NEW es, NEW rs, NEW a, Linear(g), Named(g), a.id = g.next_instance_id,
         IdsBelow(g, as), IdsBelow(g, es), IdsBelow(g, rs), ScanNames(g, as, es, rs)
  PROVE  LET h == alloc_instance(g) IN
         /\ ScanNames(h, as, es, rs)
         /\ ScanNames(h, Append(as, a), es, rs)
         /\ ScanNames(h, as, Append(es, a), rs)
         /\ ScanNames(h, as, es, Append(rs, a))
<1> DEFINE h == alloc_instance(g)
           id == g.next_instance_id
<1>1. id \in Nat \ {0} /\ GraphShape(g)
  BY Unused DEF Linear
<1>2. NameGrows(g, h)
  BY NameGrowsByNone
<1>3. ScanNames(h, as, es, rs)
  BY <1>2, NamesGrow
<1>4. Unnamed(h, id) /\ NotBorn(h, id) /\ NotUsed(h, id)
  <2>1. Unnamed(g, id) /\ NotBorn(g, id) /\ NotUsed(g, id)
    BY <1>1, NoName
  <2>2. h.edges = g.edges
    BY Allocated
  <2> HIDE DEF h
  <2> QED BY <2>1, <2>2 DEF Unnamed, NotBorn, NotUsed
<1> HIDE DEF h
<1>5. ASSUME NEW s, IdsBelow(g, s)
      PROVE  /\ \A n \in DOMAIN Append(s, a) :
                  \/ n \in DOMAIN s /\ Append(s, a)[n] = s[n] /\ s[n].id # id
                  \/ n = Len(s) + 1 /\ Append(s, a)[n].id = id
             /\ ToName(h, s, 1) => ToName(h, Append(s, a), 1)
             /\ ToEscape(h, s) => ToEscape(h, Append(s, a))
             /\ ToUse(h, s) => ToUse(h, Append(s, a))
  <2> DEFINE longer == Append(s, a)
  <2>1. Listed(s) /\ DOMAIN s = 1 .. Len(s) /\ Len(s) \in Nat
    BY <1>5, ListedShape DEF IdsBelow
  <2>2. /\ Listed(longer) /\ Len(longer) = Len(s) + 1
        /\ \A n \in 1 .. Len(s) : longer[n] = s[n]
        /\ longer[Len(s) + 1] = a
    BY <2>1, ListedAppend
  <2> HIDE DEF longer
  <2>3. DOMAIN longer = 1 .. Len(s) + 1
    BY <2>2, ListedShape
  <2>4. \A n \in DOMAIN s : s[n].id # id /\ n >= 1
    BY <1>1, <1>5, <2>1 DEF IdsBelow
  <2>5. \A n \in DOMAIN longer : \/ n \in DOMAIN s /\ longer[n] = s[n] /\ s[n].id # id
                                 \/ n = Len(s) + 1 /\ longer[n].id = id
    BY <2>1, <2>2, <2>3, <2>4
  <2>6. ToName(h, s, 1) => ToName(h, longer, 1)
    BY <1>4, <2>4, <2>5 DEF ToName
  <2>7. ToEscape(h, s) => ToEscape(h, longer)
    BY <1>4, <2>5 DEF ToEscape
  <2>8. ToUse(h, s) => ToUse(h, longer)
    BY <1>4, <2>5 DEF ToUse
  <2> QED BY <2>5, <2>6, <2>7, <2>8 DEF longer
<1> HIDE DEF id
<1>6. \A n \in DOMAIN es : es[n].id # id
  BY <1>1 DEF IdsBelow, id
<1>7. \A n \in DOMAIN rs : rs[n].id # id
  BY <1>1 DEF IdsBelow, id
<1>8. IdsApart(Append(es, a), rs) /\ IdsApart(es, Append(rs, a))
  <2>1. IdsApart(es, rs)
    BY DEF ScanNames
  <2>2. \A n \in DOMAIN Append(es, a) : \/ n \in DOMAIN es /\ Append(es, a)[n] = es[n]
                                        \/ Append(es, a)[n].id = id
    BY <1>5
  <2>3. \A n \in DOMAIN Append(rs, a) : \/ n \in DOMAIN rs /\ Append(rs, a)[n] = rs[n] /\ rs[n].id # id
                                        \/ n = Len(rs) + 1 /\ Append(rs, a)[n].id = id
    BY <1>5
  <2>4. IdsApart(Append(es, a), rs)
    BY <1>7, <2>1, <2>2 DEF IdsApart
  <2>5. IdsApart(es, Append(rs, a))
    BY <1>6, <2>1, <2>3 DEF IdsApart
  <2> QED BY <2>4, <2>5
<1>9. ScanNames(h, Append(as, a), es, rs)
  BY <1>3, <1>5 DEF ScanNames
<1>10. ScanNames(h, as, Append(es, a), rs)
  BY <1>3, <1>5, <1>8 DEF ScanNames
<1>11. ScanNames(h, as, es, Append(rs, a))
  BY <1>3, <1>5, <1>8 DEF ScanNames
<1> QED BY <1>3, <1>9, <1>10, <1>11 DEF h

LEMMA SummaryNames ==
  ASSUME NEW g, NEW e, NEW site, Linear(g), Named(g), e.effect \in Effect, site.by = "summary"
  PROVE  NameGrows(g, SummaryEdge(g, e, site))
<1> DEFINE id == g.next_instance_id
<1>1. id \in Nat \ {0} /\ GraphShape(g)
  BY Unused DEF Linear
<1>2. /\ \A d : Adds(g, add_edge(g, d), d) /\ Adds(g, add_edge(alloc_instance(g), d), d)
      /\ \A d : /\ add_edge(alloc_instance(g), d).next_instance_id = id + 1
                /\ add_edge(g, d).next_instance_id = id
  BY <1>1, GraphOps
<1>3. ASSUME NEW d, Proper(d), d.site = site,
             d.source \in {0, id}, d.target \in {0, id}, d.result \in {0, id}
      PROVE  NameGrows(g, add_edge(alloc_instance(g), d))
  <2> DEFINE h == add_edge(alloc_instance(g), d)
  <2>1. Adds(g, h, d) /\ h.next_instance_id = id + 1
    BY <1>2
  <2> HIDE DEF h
  <2>2. Fresh(g, h, d)
    BY <1>1, <1>3, <2>1 DEF Fresh, Within
  <2>3. NameGrows(g, h)
    BY <1>1, <1>3, <2>1, <2>2, FreshEdge
  <2> QED BY <2>3 DEF h
<1> HIDE DEF id
<1>4. CASE e.effect = "Acquire"
  <2> DEFINE d == AcquireEdge(id, e.family, site)
  <2>1. SummaryEdge(g, e, site) = add_edge(alloc_instance(g), d)
    BY <1>4 DEF SummaryEdge, id
  <2>2. /\ d.effect = "Acquire" /\ d.result = id /\ d.site = site /\ d.source = 0 /\ d.target = id
    BY DEF AcquireEdge, ContractEdge
  <2> HIDE DEF d
  <2>3. Proper(d)
    BY <1>1, <2>2 DEF Proper, NameOf, Effect
  <2> QED BY <1>3, <2>1, <2>2, <2>3
<1>5. CASE e.effect \in {"OutParamOwnedOnSuccess", "ReturnsOwned"}
  <2> DEFINE d == ContractEdge(0, id, e.effect, 0, e.family, site)
  <2>1. SummaryEdge(g, e, site) = add_edge(alloc_instance(g), d)
    BY <1>5 DEF SummaryEdge, id
  <2>2. /\ d.effect \in {"OutParamOwnedOnSuccess", "ReturnsOwned"} /\ d.source = 0 /\ d.target = id
        /\ d.result = 0 /\ d.site = site
    BY <1>5 DEF ContractEdge
  <2> HIDE DEF d
  <2>3. Proper(d)
    BY <1>1, <2>2 DEF Proper, NameOf, Effect, Birth
  <2> QED BY <1>3, <2>1, <2>2, <2>3
<1>6. CASE e.effect = "OwnershipEscape"
  <2> DEFINE d == ContractEdge(0, 0, e.effect, id, e.family, site)
  <2>1. SummaryEdge(g, e, site) = add_edge(alloc_instance(g), d)
    BY <1>6 DEF SummaryEdge, id
  <2>2. /\ d.effect = "OwnershipEscape" /\ d.source = 0 /\ d.target = 0 /\ d.result = id /\ d.site = site
    BY <1>6 DEF ContractEdge
  <2> HIDE DEF d
  <2>3. Proper(d)
    BY <1>1, <2>2 DEF Proper, Effect, Birth
  <2> QED BY <1>3, <2>1, <2>2, <2>3
<1>7. CASE e.effect = "OwnershipReclaim"
  <2> DEFINE d == ContractEdge(id, id, e.effect, id, e.family, site)
  <2>1. SummaryEdge(g, e, site) = add_edge(alloc_instance(g), d)
    BY <1>7 DEF SummaryEdge, id
  <2>2. /\ d.effect = "OwnershipReclaim" /\ d.source = id /\ d.target = id /\ d.result = id
        /\ d.site = site
    BY <1>7 DEF ContractEdge
  <2> HIDE DEF d
  <2>3. Proper(d)
    BY <1>1, <2>2 DEF Proper, Effect, NameOf, Passing, Ending
  <2> QED BY <1>3, <2>1, <2>2, <2>3
<1>8. CASE /\ e.effect # "Acquire" /\ e.effect \notin {"OutParamOwnedOnSuccess", "ReturnsOwned"}
           /\ e.effect # "OwnershipEscape" /\ e.effect # "OwnershipReclaim"
  <2> DEFINE d == ContractEdge(0, 0, e.effect, 0, e.family, site)
             h == add_edge(g, d)
  <2>1. SummaryEdge(g, e, site) = h
    BY <1>8 DEF SummaryEdge
  <2>2. d.effect = e.effect /\ d.source = 0 /\ d.target = 0 /\ d.result = 0 /\ d.site = site
    BY DEF ContractEdge
  <2>3. Adds(g, h, d) /\ h.next_instance_id = id
    BY <1>2 DEF id
  <2> HIDE DEF d, h
  <2>4. Proper(d)
    BY <1>8, <2>2 DEF Proper, Birth
  <2>5. Fresh(g, h, d)
    BY <1>1, <2>2, <2>3 DEF Fresh, Within
  <2>6. NameGrows(g, h)
    BY <1>1, <2>3, <2>4, <2>5, FreshEdge
  <2> QED BY <2>1, <2>6
<1> QED BY <1>4, <1>5, <1>6, <1>7, <1>8

LEMMA SummariesNames ==
  ASSUME NEW g, NEW effects, NEW site, Linear(g), Named(g), site.by = "summary",
         Len(effects) \in Nat, \A n \in 1 .. Len(effects) : effects[n].effect \in Effect
  PROVE  NameGrows(g, SummaryEdges(g, effects, site))
<1>1. PICK f : /\ f[0] = g
               /\ \A n \in 1 .. Len(effects) : f[n] = SummaryEdge(f[n - 1], effects[n], site)
               /\ SummaryEdges(g, effects, site) = f[Len(effects)]
  BY SummarySteps
<1> DEFINE T == {n \in Nat : Linear(f[n]) /\ NameGrows(g, f[n])}
<1>2. 0 \in T
  BY <1>1, NameGrowsByNone
<1>3. ASSUME NEW n \in 0 .. Len(effects) - 1, n \in T PROVE n + 1 \in T
  <2>1. n + 1 \in 1 .. Len(effects) /\ (n + 1) - 1 = n /\ n + 1 \in Nat
    OBVIOUS
  <2> DEFINE l == f[n]
             e == effects[n + 1]
             m == SummaryEdge(l, e, site)
  <2>2. Linear(l) /\ NameGrows(g, l) /\ f[n + 1] = m /\ e.effect \in Effect
    BY <1>1, <1>3, <2>1
  <2> HIDE DEF l, e
  <2>3. Linear(m)
    BY <2>2, SummaryGrows DEF Grows
  <2>4. NameGrows(l, m)
    BY <2>2, SummaryNames DEF NameGrows
  <2> HIDE DEF m
  <2>5. NameGrows(g, m)
    BY <2>2, <2>3, <2>4, NameGrowsOn DEF Linear
  <2> QED BY <2>1, <2>2, <2>3, <2>5
<1>4. Len(effects) \in T
  <2> HIDE DEF T
  <2>1. \A n \in 0 .. Len(effects) : n \in T
    BY <1>2, <1>3, Ascend
  <2> QED BY <2>1
<1> QED BY <1>1, <1>4

LEMMA NamesInScan ==
  ASSUME BuilderInv, BuilderInv', NameInv,
         ScanAcquire \/ ScanReclaim \/ ScanRelease \/ ScanEscape \/ ScanOther \/ ScanSummary
  PROVE  NameInv'
<1>1. /\ pc = "scan" /\ pc' = "scan" /\ module \in Modules
  BY DEF ScanAcquire, ScanReclaim, ScanRelease, ScanEscape, ScanOther, ScanSummary, Scanning, BuilderInv
<1>2. /\ Linear(graph) /\ Named(graph)
      /\ ScanNames(graph, func_acquires, func_escapes, func_reclaims)
  BY <1>1 DEF BuilderInv, NameInv, ListNames, Matching, ScanNames
<1>3. /\ IdsBelow(graph, func_acquires) /\ IdsBelow(graph, func_escapes)
      /\ IdsBelow(graph, func_reclaims)
  BY <1>1 DEF BuilderInv, ListsHold, InFunction, ListIds, OtherIds, IdsBelow
<1> DEFINE more == alloc_instance(graph)
           entry == Entry(graph.next_instance_id)
           Right == /\ Named(graph')
                    /\ ScanNames(graph', func_acquires', func_escapes', func_reclaims')
<1>4. Named(more)
  BY <1>2, NameGrowsByNone DEF NameGrows
<1>5. entry.id = graph.next_instance_id
  BY DEF Entry
<1>6. /\ ScanNames(more, func_acquires, func_escapes, func_reclaims)
      /\ ScanNames(more, Append(func_acquires, entry), func_escapes, func_reclaims)
      /\ ScanNames(more, func_acquires, Append(func_escapes, entry), func_reclaims)
      /\ ScanNames(more, func_acquires, func_escapes, Append(func_reclaims, entry))
  BY <1>2, <1>3, <1>5, NamesMore
<1> HIDE DEF entry, more
<1>7. CASE ScanAcquire
  <2>1. func_escapes' = func_escapes /\ func_reclaims' = func_reclaims
    BY <1>7 DEF ScanAcquire
  <2>2. \/ graph' = graph /\ func_acquires' = func_acquires
        \/ graph' = more /\ func_acquires' = func_acquires
        \/ graph' = more /\ func_acquires' = Append(func_acquires, entry)
    BY <1>7 DEF ScanAcquire, more, entry
  <2>3. Right
    BY <1>2, <1>4, <1>6, <2>1, <2>2
  <2> QED BY <1>1, <2>3 DEF NameInv, ListNames, Matching, ScanNames
<1>8. CASE ScanReclaim
  <2>1. /\ graph' = more /\ func_reclaims' = Append(func_reclaims, entry)
        /\ func_acquires' = func_acquires /\ func_escapes' = func_escapes
    BY <1>8 DEF ScanReclaim, more, entry
  <2>3. Right
    BY <1>4, <1>6, <2>1
  <2> QED BY <1>1, <2>3 DEF NameInv, ListNames, Matching, ScanNames
<1>9. CASE ScanRelease \/ ScanOther
  <2>1. /\ graph' = graph /\ func_acquires' = func_acquires
        /\ func_escapes' = func_escapes /\ func_reclaims' = func_reclaims
    BY <1>9 DEF ScanRelease, ScanOther, lists
  <2>3. Right
    BY <1>2, <2>1
  <2> QED BY <1>1, <2>3 DEF NameInv, ListNames, Matching, ScanNames
<1>10. CASE ScanEscape
  <2>1. func_acquires' = func_acquires /\ func_reclaims' = func_reclaims
    BY <1>10 DEF ScanEscape
  <2>2. \/ graph' = graph /\ func_escapes' = func_escapes
        \/ graph' = more /\ func_escapes' = Append(func_escapes, entry)
    BY <1>10 DEF ScanEscape, more, entry
  <2>3. Right
    BY <1>2, <1>4, <1>6, <2>1, <2>2
  <2> QED BY <1>1, <2>3 DEF NameInv, ListNames, Matching, ScanNames
<1>11. CASE ScanSummary
  <2> DEFINE s == Calls[Here].callee
             site == CallSite(Here, "summary")
  <2>1. /\ func_acquires' = func_acquires /\ func_escapes' = func_escapes
        /\ func_reclaims' = func_reclaims
        /\ s \in DOMAIN Summary /\ graph' = SummaryEdges(graph, Summary[s], site)
    BY <1>11 DEF ScanSummary, lists
  <2>2. site.by = "summary"
    BY DEF CallSite, Site
  <2> HIDE DEF s, site
  <2>3. Summary[s] \in Seq([effect : Effect, family : Family])
    BY <2>1, ModuleAssumption
  <2>4. Len(Summary[s]) \in Nat /\ \A n \in 1 .. Len(Summary[s]) : Summary[s][n].effect \in Effect
    <3>1. \A es \in Seq([effect : Effect, family : Family]) :
            Len(es) \in Nat /\ \A n \in 1 .. Len(es) : es[n] \in [effect : Effect, family : Family]
      BY LenProperties, ElementOfSeq
    <3> QED BY <2>3, <3>1
  <2>5. NameGrows(graph, graph')
    BY <1>2, <2>1, <2>2, <2>4, SummariesNames
  <2>6. Right
    BY <1>2, <1>3, <2>1, <2>5, NamesGrow DEF NameGrows
  <2> QED BY <1>1, <2>6 DEF NameInv, ListNames, Matching, ScanNames
<1> QED BY <1>7, <1>8, <1>9, <1>10, <1>11

LEMMA NamesAtNextCaller ==
  ASSUME NameInv, NextCaller
  PROVE  NameInv'
<1>1. /\ pc' = "scan" /\ graph' = graph
      /\ func_acquires' = <<>> /\ func_escapes' = <<>> /\ func_reclaims' = <<>>
  BY DEF NextCaller, Continue
<1>2. DOMAIN <<>> = {}
  OBVIOUS
<1> QED BY <1>1, <1>2 DEF NameInv, ListNames, Matching, ToName, ToEscape, ToUse, IdsApart

(* The acquires get their edges. *)
LEMMA BirthNamed ==
  ASSUME NEW g, NEW h, NEW e, GraphShape(g), Named(g), Adds(g, h, e),
         e.effect = "Acquire", e.source = 0, e.target = e.result,
         e.result \in 1 .. h.next_instance_id - 1, Unnamed(g, e.result), Ends(g, e.result) = {},
         e.site.by # "use"
  PROVE  /\ Named(h)
         /\ \A x : /\ Unnamed(g, x) /\ x # e.result => Unnamed(h, x)
                   /\ NotBorn(g, x) /\ x # e.result => NotBorn(h, x)
                   /\ NotUsed(g, x) => NotUsed(h, x)
<1>1. NameOf(e) = e.result /\ e.effect \notin Using /\ e.effect \notin Ending
  BY DEF NameOf, Using, Ending, ReleaseOrCross
<1>2. Proper(e)
  BY <1>1 DEF Proper, Effect
<1>3. Within(e, h.next_instance_id)
  BY DEF Within, Adds, GraphShape
<1>4. ASSUME NEW i \in DOMAIN g.edges PROVE Apart(g.edges[i], e)
  <2> DEFINE d == g.edges[i]
  <2>1. ~Brings(d, e.result)
    BY DEF Unnamed
  <2>2. d.effect \in Ending => d.source # e.result
    BY DEF Ends
  <2> HIDE DEF d
  <2>3. Apart(d, e)
    BY <1>1, <2>1, <2>2 DEF Apart
  <2> QED BY <2>3 DEF d
<1>5. \A x : /\ x # e.result => ~Brings(e, x) /\ ~Bears(e, x)
             /\ ~Uses(e, x)
  BY <1>1 DEF Brings, Bears, Uses
<1> QED BY <1>2, <1>3, <1>4, <1>5, NamedMore

LEMMA NamesAtScanEnd ==
  ASSUME BuilderInv, BuilderInv', NameInv, AcquireEdges
  PROVE  NameInv'
<1> DEFINE as == func_acquires
           es == [i \in DOMAIN as |->
                    AcquireEdge(as[i].id, as[i].family, CallSite(as[i].call, "call"))]
<1>1. /\ pc = "scan" /\ pc' = "releases" /\ graph' = add_edges(graph, es)
      /\ func_acquires' = as /\ func_escapes' = func_escapes /\ func_reclaims' = func_reclaims
  BY DEF AcquireEdges, Continue, lists
<1>2. /\ Linear(graph) /\ GraphShape(graph) /\ ListIds(graph, as)
      /\ OtherIds(graph, as, func_escapes) /\ OtherIds(graph, as, func_reclaims)
      /\ Scanned(graph, as, Calls, caller)
  BY <1>1 DEF BuilderInv, ListsHold, ScannedAcquires, InFunction, Linear
<1>3. Named(graph) /\ ScanNames(graph, as, func_escapes, func_reclaims)
  BY <1>1 DEF NameInv, ListNames, Matching, ScanNames
<1>4. /\ Len(as) \in Nat /\ DOMAIN as = 1 .. Len(as)
      /\ Listed(es) /\ Len(es) = Len(as)
  <2>1. Len(as) \in Nat /\ DOMAIN as = 1 .. Len(as)
    BY <1>2, ListedShape DEF ListIds
  <2> DEFINE T == {es[i] : i \in DOMAIN es}
  <2>2. es = [i \in 1 .. Len(as) |-> es[i]] /\ DOMAIN es = 1 .. Len(as)
    BY <2>1
  <2> HIDE DEF es
  <2>3. \A i \in 1 .. Len(as) : es[i] \in T
    BY <2>2
  <2> HIDE DEF T
  <2>4. es \in [1 .. Len(as) -> T]
    BY <2>2, <2>3
  <2>5. es \in Seq(T)
    BY <2>1, <2>4
  <2>6. Len(es) = Len(as)
    BY <2>1, <2>2, <2>5, LenProperties
  <2> QED BY <2>1, <2>5, <2>6, ListedWhen
<1>5. ASSUME NEW n \in 1 .. Len(as)
      PROVE  /\ es[n].effect = "Acquire" /\ es[n].result = as[n].id /\ es[n].source = 0
             /\ es[n].target = as[n].id /\ es[n].site.by # "use"
  <2>1. es[n] = AcquireEdge(as[n].id, as[n].family, CallSite(as[n].call, "call"))
    BY <1>4
  <2> HIDE DEF es
  <2> QED BY <2>1 DEF AcquireEdge, ContractEdge, CallSite, Site
<1> HIDE DEF es
<1>6. PICK f : /\ f[0] = graph /\ f[Len(es)] = add_edges(graph, es)
               /\ \A n \in 0 .. Len(es) : Grown(graph, f[n], es, n)
               /\ \A n \in 1 .. Len(es) : Adds(f[n - 1], f[n], es[n])
  BY <1>2, <1>4, OneByOne
<1> DEFINE Mine(x) == \E m \in DOMAIN as : as[m].id = x
           Good(n) == /\ Named(f[n])
                      /\ \A m \in DOMAIN as : n < m => Unnamed(f[n], as[m].id)
                      /\ \A x : Ends(f[n], x) = Ends(graph, x)
                      /\ \A x : /\ Unnamed(graph, x) /\ ~Mine(x) => Unnamed(f[n], x)
                                /\ NotBorn(graph, x) /\ ~Mine(x) => NotBorn(f[n], x)
                                /\ NotUsed(graph, x) => NotUsed(f[n], x)
           T == {n \in Nat : Good(n)}
<1>7. 0 \in T
  <2>1. \A m \in DOMAIN as : Unnamed(graph, as[m].id)
    BY <1>3, <1>4 DEF ScanNames, ToName
  <2> QED BY <1>3, <1>6, <2>1
<1>8. ASSUME NEW n \in 0 .. Len(as) - 1, n \in T PROVE n + 1 \in T
  <2> DEFINE g == f[n]
             h == f[n + 1]
             e == es[n + 1]
             x0 == as[n + 1].id
  <2>1. /\ n \in 0 .. Len(as) /\ n + 1 \in 1 .. Len(as) /\ n + 1 \in 0 .. Len(as) /\ (n + 1) - 1 = n
        /\ n + 1 \in Nat /\ n \in Nat /\ n < n + 1 /\ n + 1 \in DOMAIN as
    BY <1>4
  <2>2. Good(n)
    BY <1>8
  <2>3. /\ GraphShape(g) /\ Adds(g, h, e) /\ h.next_instance_id = graph.next_instance_id
    BY <1>4, <1>6, <2>1 DEF Grown
  <2>4. /\ e.effect = "Acquire" /\ e.result = x0 /\ e.source = 0 /\ e.target = e.result
        /\ e.site.by # "use"
    BY <1>5, <2>1
  <2>5. e.result \in 1 .. h.next_instance_id - 1
    BY <1>2, <2>1, <2>3, <2>4 DEF ListIds
  <2>6. Unnamed(g, e.result) /\ Ends(g, e.result) = {}
    BY <1>2, <2>1, <2>2, <2>4 DEF Scanned
  <2>7. \A m \in DOMAIN as : n + 1 < m => n < m /\ as[m].id # x0
    <3>1. \A m \in DOMAIN as : n + 1 < m => x0 < as[m].id /\ m \in Nat
      BY <1>2, <1>4, <2>1 DEF ListIds
    <3>2. \A m \in DOMAIN as : as[m].id \in Nat
      BY <1>2 DEF ListIds
    <3> QED BY <2>1, <3>1, <3>2
  <2>8. Mine(x0)
    BY <2>1
  <2> HIDE DEF g, h, e, x0
  <2>9. /\ Named(h)
        /\ \A x : /\ Unnamed(g, x) /\ x # x0 => Unnamed(h, x)
                  /\ NotBorn(g, x) /\ x # x0 => NotBorn(h, x)
                  /\ NotUsed(g, x) => NotUsed(h, x)
    <3>1. Named(g)
      BY <2>2 DEF g
    <3> QED BY <2>3, <2>4, <2>5, <2>6, <3>1, BirthNamed
  <2>10. \A x : Ends(h, x) = Ends(g, x)
    <3>1. e.effect \notin Ending
      BY <2>4 DEF Ending, ReleaseOrCross
    <3> QED BY <2>3, <3>1, AddedSets
  <2> HIDE DEF Mine
  <2>11. \A m \in DOMAIN as : n + 1 < m => Unnamed(h, as[m].id)
    BY <2>2, <2>7, <2>9 DEF g
  <2>12. \A x : ~Mine(x) => x # x0
    BY <2>8
  <2>13. \A x : /\ Unnamed(graph, x) /\ ~Mine(x) => Unnamed(h, x)
                /\ NotBorn(graph, x) /\ ~Mine(x) => NotBorn(h, x)
                /\ NotUsed(graph, x) => NotUsed(h, x)
    BY <2>2, <2>9, <2>12 DEF g
  <2>14. \A x : Ends(h, x) = Ends(graph, x)
    BY <2>2, <2>10 DEF g
  <2>15. Good(n + 1)
    BY <2>9, <2>11, <2>13, <2>14 DEF h
  <2> QED BY <2>1, <2>15
<1>9. Good(Len(as))
  <2> HIDE DEF T
  <2>1. \A n \in 0 .. Len(as) : n \in T
    BY <1>4, <1>7, <1>8, Ascend
  <2>2. Len(as) \in T
    BY <1>4, <2>1
  <2> QED BY <2>2 DEF T
<1>10. graph' = f[Len(as)]
  BY <1>1, <1>4, <1>6
<1> HIDE DEF Mine
<1>11. /\ Named(graph')
       /\ \A x : /\ Unnamed(graph, x) /\ ~Mine(x) => Unnamed(graph', x)
                 /\ NotBorn(graph, x) /\ ~Mine(x) => NotBorn(graph', x)
                 /\ NotUsed(graph, x) => NotUsed(graph', x)
  BY <1>9, <1>10
<1>12. /\ \A n \in DOMAIN func_escapes : ~Mine(func_escapes[n].id)
       /\ \A n \in DOMAIN func_reclaims : ~Mine(func_reclaims[n].id)
  BY <1>2 DEF OtherIds, Mine
<1>13. ToEscape(graph', func_escapes)
  BY <1>3, <1>11, <1>12 DEF ToEscape, ScanNames
<1>14. ToName(graph', func_reclaims, 1)
  BY <1>3, <1>11, <1>12 DEF ToName, ScanNames
<1>15. ToUse(graph', as) /\ ToUse(graph', func_escapes) /\ ToUse(graph', func_reclaims)
  BY <1>3, <1>11 DEF ToUse, ScanNames
<1>16. IdsApart(func_escapes, func_reclaims)
  BY <1>3 DEF ScanNames
<1> QED BY <1>1, <1>11, <1>13, <1>14, <1>15, <1>16 DEF NameInv, ListNames, Matching

(* Releases, escapes and reclaims. *)
LEMMA ConsumeUse ==
  ASSUME NEW g, ToUse(g, func_acquires), Listed(func_acquires), NEW i,
         i = 0 \/ i \in DOMAIN func_acquires, Consume(i)
  PROVE  ToUse(g, func_acquires')
<1>1. CASE i = 0
  BY <1>1 DEF Consume, ToUse
<1>2. CASE i # 0
  <2> DEFINE as == func_acquires
             rest == RemoveAt(as, i)
  <2>1. Len(as) \in Nat /\ DOMAIN as = 1 .. Len(as) /\ i \in 1 .. Len(as)
    BY <1>2, ListedShape
  <2>2. /\ Listed(rest) /\ Len(rest) = Len(as) - 1
        /\ \A n \in 1 .. i - 1 : rest[n] = as[n]
        /\ \A n \in i .. Len(as) - 1 : rest[n] = as[n + 1]
    BY <2>1, ListedRemove
  <2>3. func_acquires' = rest
    BY <1>2 DEF Consume
  <2> HIDE DEF rest
  <2>4. DOMAIN rest = 1 .. Len(as) - 1
    BY <2>2, ListedShape
  <2>5. \A n \in DOMAIN rest : \E m \in DOMAIN as : rest[n] = as[m]
    <3>1. ASSUME NEW n \in 1 .. i - 1 PROVE \E m \in DOMAIN as : rest[n] = as[m]
      BY <2>1, <2>2
    <3>2. ASSUME NEW n \in i .. Len(as) - 1 PROVE \E m \in DOMAIN as : rest[n] = as[m]
      <4>1. n + 1 \in DOMAIN as
        BY <2>1
      <4> QED BY <2>2, <4>1
    <3>3. 1 .. Len(as) - 1 = (1 .. i - 1) \cup (i .. Len(as) - 1)
      BY <2>1
    <3> QED BY <2>4, <3>1, <3>2, <3>3
  <2>6. ToUse(g, rest)
    BY <2>5 DEF ToUse
  <2> QED BY <2>3, <2>6
<1> QED BY <1>1, <1>2

LEMMA ConsumeNames ==
  ASSUME BuilderInv, BuilderInv', NameInv, pc \in {"releases", "escapes"}, pc' = pc,
         func_escapes' = func_escapes, func_reclaims' = func_reclaims,
         NEW i, i = 0 \/ i \in DOMAIN func_acquires, Consume(i),
         NEW e, graph' = add_edge(graph, e), e.effect \in Ending \ {"OwnershipReclaim"},
         e.target = 0, e.result \in 0 .. graph.next_instance_id - 1, e.site.by = "call",
         e.source # 0 => NotUsed(graph, e.source),
         e.effect = "OwnershipEscape" =>
           e.result # 0 /\ \E n \in DOMAIN func_escapes : func_escapes[n].id = e.result
  PROVE  NameInv'
<1>1. /\ Linear(graph) /\ Linear(graph') /\ Named(graph) /\ Listed(func_acquires)
      /\ ToEscape(graph, func_escapes) /\ ToName(graph, func_reclaims, 1)
      /\ ToUse(graph, func_acquires) /\ ToUse(graph, func_escapes) /\ ToUse(graph, func_reclaims)
      /\ IdsApart(func_escapes, func_reclaims)
  <2>1. pc \in Pairing
    BY DEF Pairing
  <2>2. Linear(graph) /\ Linear(graph') /\ Listed(func_acquires)
    BY <2>1, ListsAre DEF BuilderInv
  <2> QED BY <2>2 DEF NameInv, ListNames, Matching
<1>2. Adds(graph, graph', e) /\ graph'.next_instance_id = graph.next_instance_id
      /\ graph.next_instance_id \in Nat \ {0}
  BY <1>1, GraphOps DEF Linear
<1>3. e.effect = "OwnershipEscape" => NotBorn(graph, e.result)
  BY <1>1 DEF ToEscape
<1>4. /\ Named(graph')
      /\ \A x : /\ Unnamed(graph, x) /\ ~Brings(e, x) => Unnamed(graph', x)
                /\ NotBorn(graph, x) /\ ~Bears(e, x) => NotBorn(graph', x)
                /\ NotUsed(graph, x) => NotUsed(graph', x)
  <2>1. e.target \in 0 .. graph'.next_instance_id - 1 /\ e.result \in 0 .. graph'.next_instance_id - 1
    BY <1>2
  <2>2. e.effect \in Ending /\ e.effect # "OwnershipReclaim" /\ e.site.by # "use"
    OBVIOUS
  <2> QED BY <1>1, <1>2, <1>3, <2>1, <2>2, EndNamed
<1>5. \A x : ~Bears(e, x)
  BY DEF Bears, Birth, Ending, ReleaseOrCross
<1>6. \A n \in DOMAIN func_reclaims : ~Brings(e, func_reclaims[n].id)
  <2>1. ASSUME NEW n \in DOMAIN func_reclaims, Brings(e, func_reclaims[n].id) PROVE FALSE
    <3>1. e.effect = "OwnershipEscape" /\ e.result = func_reclaims[n].id
      BY <1>5, <2>1 DEF Brings, Ending, ReleaseOrCross, Bears
    <3> QED BY <1>1, <3>1 DEF IdsApart
  <2> QED BY <2>1
<1>7. ToEscape(graph', func_escapes)
  BY <1>1, <1>4, <1>5 DEF ToEscape
<1>8. ToName(graph', func_reclaims, 1)
  BY <1>1, <1>4, <1>6 DEF ToName
<1>9. ToUse(graph', func_acquires) /\ ToUse(graph', func_escapes) /\ ToUse(graph', func_reclaims)
  BY <1>1, <1>4 DEF ToUse
<1>10. ToUse(graph', func_acquires')
  <2> DEFINE h == graph'
  <2>1. ToUse(h, func_acquires)
    BY <1>9
  <2> HIDE DEF h
  <2>2. ToUse(h, func_acquires')
    BY <1>1, <2>1, ConsumeUse
  <2> QED BY <2>2 DEF h
<1> QED BY <1>1, <1>4, <1>7, <1>8, <1>9, <1>10 DEF NameInv, ListNames, Matching

LEMMA NamesInReleases ==
  ASSUME BuilderInv, BuilderInv', NameInv, ReleaseOne
  PROVE  NameInv'
<1> DEFINE r == func_releases[k]
           i == ReleaseMatch(r.family)
           e == ReleaseEdge(MatchedId(i, 0), r.effect, r.family, CallSite(r.call, "call"))
<1>1. /\ pc = "releases" /\ pc' = pc /\ k <= Len(func_releases)
      /\ graph' = add_edge(graph, e) /\ Consume(i)
      /\ func_escapes' = func_escapes /\ func_reclaims' = func_reclaims
  BY DEF ReleaseOne
<1>2. /\ Linear(graph) /\ k \in Nat \ {0} /\ ReleasesListed(func_releases) /\ Listed(func_acquires)
  <2>1. pc \in Pairing
    BY <1>1 DEF Pairing
  <2> QED BY <2>1, ListsAre
<1>3. r.effect \in {"Release", "ConditionalRelease"}
  <2>1. k \in DOMAIN func_releases
    BY <1>1, <1>2, ListedShape DEF ReleasesListed
  <2> QED BY <1>2, <2>1 DEF ReleasesListed
<1>4. i = 0 \/ i \in DOMAIN func_acquires
  BY <1>2, ReleaseMatchIs DEF Eldest
<1>5. /\ e.effect \in {"Release", "ConditionalRelease"} /\ e.source = MatchedId(i, 0)
      /\ e.target = 0 /\ e.result = 0 /\ e.site.by = "call"
  BY <1>3 DEF ReleaseEdge, ContractEdge, CallSite, Site
<1>6. e.effect \in Ending \ {"OwnershipReclaim"} /\ e.effect # "OwnershipEscape"
  BY <1>5 DEF Ending, ReleaseOrCross
<1>7. ToUse(graph, func_acquires)
  BY <1>1 DEF NameInv, ListNames, Matching
<1>8. 0 \in 0 .. graph.next_instance_id - 1
  BY <1>2, Unused
<1> HIDE DEF r, i, e
<1>9. e.source # 0 => NotUsed(graph, e.source)
  BY <1>4, <1>5, <1>7 DEF MatchedId, ToUse
<1> QED BY <1>1, <1>4, <1>5, <1>6, <1>8, <1>9, ConsumeNames

LEMMA NamesInEscapes ==
  ASSUME BuilderInv, BuilderInv', NameInv, EscapeOne
  PROVE  NameInv'
<1> DEFINE x == func_escapes[k]
           i == OfFamily(x.family)
           e == ContractEdge(MatchedId(i, x.id), 0, "OwnershipEscape", x.id, x.family,
                             CallSite(x.call, "call"))
<1>1. /\ pc = "escapes" /\ pc' = pc /\ k <= Len(func_escapes)
      /\ graph' = add_edge(graph, e) /\ Consume(i)
      /\ func_escapes' = func_escapes /\ func_reclaims' = func_reclaims
  BY DEF EscapeOne
<1>2. /\ Linear(graph) /\ k \in Nat \ {0} /\ OtherIds(graph, func_acquires, func_escapes)
      /\ Listed(func_acquires) /\ Listed(func_escapes)
  <2>1. pc \in Pairing
    BY <1>1 DEF Pairing
  <2> QED BY <2>1, ListsAre
<1>3. k \in DOMAIN func_escapes
  BY <1>1, <1>2, ListedShape
<1>4. x.id \in 1 .. graph.next_instance_id - 1
  BY <1>2, <1>3 DEF OtherIds
<1>5. i = 0 \/ i \in DOMAIN func_acquires
  BY <1>2, OfFamilyIs DEF Eldest
<1>6. /\ e.effect = "OwnershipEscape" /\ e.source = MatchedId(i, x.id)
      /\ e.target = 0 /\ e.result = x.id /\ e.site.by = "call"
  BY DEF ContractEdge, CallSite, Site
<1>7. e.effect \in Ending \ {"OwnershipReclaim"}
  BY <1>6 DEF Ending
<1>8. ToUse(graph, func_acquires) /\ ToUse(graph, func_escapes)
  BY <1>1 DEF NameInv, ListNames, Matching
<1>9. \E n \in DOMAIN func_escapes : func_escapes[n].id = e.result
  BY <1>3, <1>6
<1>10. NotUsed(graph, x.id)
  BY <1>3, <1>8 DEF ToUse
<1> HIDE DEF x, i, e
<1>11. NotUsed(graph, e.source)
  BY <1>5, <1>6, <1>8, <1>10 DEF MatchedId, ToUse
<1>12. e.result \in 0 .. graph.next_instance_id - 1 /\ e.result # 0
  BY <1>4, <1>6
<1> QED BY <1>1, <1>5, <1>6, <1>7, <1>9, <1>11, <1>12, ConsumeNames

LEMMA NamesInReclaims ==
  ASSUME BuilderInv, BuilderInv', NameInv, ReclaimOne
  PROVE  NameInv'
<1> DEFINE r == func_reclaims[k]
           target == ReclaimTarget(r)
           e == ContractEdge(target, r.id, "OwnershipReclaim", r.id, r.family,
                             CallSite(r.call, "call"))
<1>1. /\ pc = "reclaims" /\ pc' = "reclaims" /\ k <= Len(func_reclaims) /\ k' = k + 1
      /\ graph' = add_edge(graph, e)
      /\ reclaim_fallback_id' = (IF target = r.id THEN r.id ELSE reclaim_fallback_id)
      /\ func_acquires' = func_acquires
      /\ func_escapes' = func_escapes /\ func_reclaims' = func_reclaims
  BY DEF ReclaimOne, lists
<1>2. /\ Linear(graph) /\ k \in Nat \ {0}
      /\ OtherIds(graph, func_acquires, func_reclaims)
      /\ Listed(func_acquires) /\ Listed(func_escapes) /\ Listed(func_reclaims)
  <2>1. pc \in Pairing
    BY <1>1 DEF Pairing
  <2> QED BY <2>1, ListsAre
<1>3. /\ Named(graph) /\ ToName(graph, func_reclaims, k) /\ Nobodys(reclaim_fallback_id, func_reclaims)
      /\ ToUse(graph, func_acquires) /\ ToUse(graph, func_escapes) /\ ToUse(graph, func_reclaims)
      /\ IdsApart(func_escapes, func_reclaims)
  BY <1>1 DEF NameInv, ListNames, Matching
<1>4. Linear(graph')
  BY DEF BuilderInv
<1>5. k \in DOMAIN func_reclaims /\ k <= k /\ \A n \in DOMAIN func_reclaims : n \in Nat
  BY <1>1, <1>2, ListedShape
<1>6. r.id \in 1 .. graph.next_instance_id - 1 /\ Unnamed(graph, r.id) /\ NotUsed(graph, r.id)
  BY <1>2, <1>3, <1>5 DEF OtherIds, ToName, ToUse
<1> DEFINE id == r.id
<1>7. id # 0 /\ id \in 0 .. graph.next_instance_id - 1
  <2>1. id \in 1 .. graph.next_instance_id - 1
    BY <1>6
  <2> HIDE DEF id
  <2> QED BY <2>1
<1>8. target # 0 /\ NotUsed(graph, target)
  <2>1. target # 0 /\ target \in {Unclaimed(func_escapes, r.family), Unclaimed(func_escapes, NoFamily),
                                  Unclaimed(func_acquires, r.family),
                                  Unclaimed(func_acquires, NoFamily), reclaim_fallback_id, r.id}
    BY <1>7, ReclaimTargetIs
  <2> HIDE DEF target
  <2>2. ASSUME NEW s, Listed(s), ToUse(graph, s), NEW family, target = Unclaimed(s, family)
        PROVE  NotUsed(graph, target)
    <3>1. PICK n \in DOMAIN s : target = s[n].id
      BY <2>1, <2>2, UnclaimedIs
    <3> QED BY <2>2, <3>1 DEF ToUse
  <2>3. target = reclaim_fallback_id => NotUsed(graph, target)
    BY <1>3, <2>1 DEF Nobodys, ToUse
  <2> QED BY <1>2, <1>3, <1>6, <2>1, <2>2, <2>3
<1>9. Adds(graph, graph', e) /\ graph'.next_instance_id = graph.next_instance_id
  BY <1>1, <1>2, GraphOps DEF Linear
<1>10. /\ e.effect = "OwnershipReclaim" /\ e.source = target /\ e.target = id /\ e.result = id
       /\ e.site.by # "use"
  BY DEF ContractEdge, CallSite, Site
<1>11. Unnamed(graph, id) /\ id = r.id
  BY <1>6
<1> HIDE DEF e, target, id
<1>12. e.effect \in Ending
  BY <1>10 DEF Ending
<1>13. /\ Named(graph')
       /\ \A x : /\ Unnamed(graph, x) /\ ~Brings(e, x) => Unnamed(graph', x)
                 /\ NotUsed(graph, x) => NotUsed(graph', x)
  BY <1>2, <1>3, <1>4, <1>7, <1>8, <1>9, <1>10, <1>11, <1>12, EndNamed
<1>14. \A x : x # id => ~Brings(e, x)
  BY <1>10 DEF Brings, Bears, NameOf
<1>15. ToName(graph', func_reclaims, k + 1)
  <2>1. ASSUME NEW n \in DOMAIN func_reclaims, k + 1 <= n PROVE Unnamed(graph', func_reclaims[n].id)
    <3>1. k <= n /\ n # k
      BY <1>2, <1>5, <2>1
    <3>2. func_reclaims[n].id # id
      BY <1>3, <1>5, <1>11, <3>1 DEF IdsApart
    <3>3. Unnamed(graph, func_reclaims[n].id)
      BY <1>3, <3>1 DEF ToName
    <3> QED BY <1>13, <1>14, <3>2, <3>3
  <2> QED BY <2>1 DEF ToName
<1>16. ToUse(graph', func_acquires) /\ ToUse(graph', func_escapes) /\ ToUse(graph', func_reclaims)
  BY <1>3, <1>13 DEF ToUse
<1>17. Nobodys(reclaim_fallback_id', func_reclaims)
  BY <1>1, <1>3, <1>5 DEF Nobodys
<1> QED BY <1>1, <1>3, <1>13, <1>15, <1>16, <1>17 DEF NameInv, ListNames, Matching

LEMMA NamesAtPhaseEnds ==
  ASSUME BuilderInv, NameInv, ReleasesEnd \/ EscapesEnd \/ ReclaimsEnd
  PROVE  NameInv'
<1>1. /\ graph' = graph /\ func_acquires' = func_acquires
      /\ func_escapes' = func_escapes /\ func_reclaims' = func_reclaims
  BY DEF ReleasesEnd, EscapesEnd, ReclaimsEnd, Continue, lists
<1>2. CASE ReleasesEnd
  <2>1. pc = "releases" /\ pc' = "escapes"
    BY <1>2 DEF ReleasesEnd, Continue
  <2> QED BY <1>1, <2>1 DEF NameInv, ListNames, Matching
<1>3. CASE EscapesEnd
  <2>1. pc = "escapes" /\ pc' = "reclaims" /\ k' = 1 /\ reclaim_fallback_id' = 0
    BY <1>3 DEF EscapesEnd, Continue
  <2> QED BY <1>1, <2>1 DEF NameInv, ListNames, Matching, Nobodys
<1>4. CASE ReclaimsEnd
  <2>1. pc = "reclaims" /\ pc' = "callbacks"
    BY <1>4 DEF ReclaimsEnd, Continue
  <2>2. Paired(graph, func_acquires, caller, escape_claimed)
    BY <2>1 DEF BuilderInv, ListHolds
  <2>3. AcquiredIds(graph, func_acquires)
    BY <2>2 DEF Paired, EdgeFor, CallEdges, Ids, AcquiredIds
  <2> QED BY <1>1, <2>1, <2>3 DEF NameInv, ListNames, Matching
<1> QED BY <1>2, <1>3, <1>4

(* An acquired instance is born once only. *)
LEMMA BornOnce ==
  ASSUME NEW g, GraphShape(g), Named(g), NEW i \in DOMAIN g.edges, NEW j \in DOMAIN g.edges,
         NEW x, Bears(g.edges[i], x), Bears(g.edges[j], x)
  PROVE  i = j
<1>1. i \in Nat /\ j \in Nat
  BY ListedShape DEF GraphShape
<1>2. ASSUME NEW l \in DOMAIN g.edges, NEW m \in DOMAIN g.edges, l < m,
             Bears(g.edges[l], x), Bears(g.edges[m], x)
      PROVE  FALSE
  <2>1. Apart(g.edges[l], g.edges[m])
    BY <1>2 DEF Named
  <2> QED BY <1>2, <2>1 DEF Apart, Bears, Brings
<1>3. ~(i < j) /\ ~(j < i)
  BY <1>2
<1> QED BY <1>1, <1>3

LEMMA NamesInCallbacks ==
  ASSUME BuilderInv, BuilderInv', NameInv, Keeps(graph, graph'), CallbackOne
  PROVE  NameInv'
<1> DEFINE borrowed == func_acquires = <<>>
           id == IF borrowed THEN graph.next_instance_id ELSE func_acquires[1].id
           e == ContractEdge(id, 0, "EscapesToCallback", 0, NoFamily, CallSite(Here, "call"))
<1>1. /\ pc = "callbacks" /\ pc' = "callbacks" /\ func_acquires' = func_acquires
      /\ \/ graph' = graph
         \/ graph' = add_edge(IF borrowed THEN alloc_instance(graph) ELSE graph, e)
  BY DEF CallbackOne, lists
<1>2. Linear(graph) /\ GraphShape(graph) /\ ListIds(graph, func_acquires)
  BY <1>1 DEF BuilderInv, ListsHold, InFunction, Linear
<1>3. Named(graph) /\ AcquiredIds(graph, func_acquires)
  BY <1>1 DEF NameInv, ListNames
<1>4. \A x \in Ids(graph) : x \in Ids(graph')
  BY DEF Keeps, Ids, Acquires, Acquired
<1>5. AcquiredIds(graph', func_acquires')
  BY <1>1, <1>3, <1>4 DEF AcquiredIds
<1>6. /\ e.effect = "EscapesToCallback" /\ e.source = id /\ e.target = 0 /\ e.result = 0
      /\ e.site.by = "call"
  BY DEF ContractEdge, CallSite, Site
<1>7. graph.next_instance_id \in Nat \ {0}
  BY <1>2 DEF GraphShape
<1> HIDE DEF e
<1>8. Proper(e)
  BY <1>6 DEF Proper, Effect, Passing, Using, Birth
<1>9. ASSUME graph' = graph PROVE Named(graph')
  BY <1>3, <1>9
<1>10. ASSUME borrowed, graph' = add_edge(alloc_instance(graph), e) PROVE Named(graph')
  <2>1. Adds(graph, graph', e) /\ graph'.next_instance_id = graph.next_instance_id + 1
    BY <1>2, <1>10, GraphOps
  <2>2. Fresh(graph, graph', e)
    BY <1>6, <1>7, <1>10, <2>1 DEF Fresh, Within
  <2>3. Named(graph')
    BY <1>2, <1>3, <1>8, <2>1, <2>2, FreshEdge DEF NameGrows
  <2> QED BY <2>3
<1>11. ASSUME ~borrowed, graph' = add_edge(graph, e) PROVE Named(graph')
  <2>1. Adds(graph, graph', e) /\ graph'.next_instance_id = graph.next_instance_id
    BY <1>2, <1>11, GraphOps
  <2>2. 1 \in DOMAIN func_acquires
    <3>1. Listed(func_acquires) /\ func_acquires # <<>>
      BY <1>2, <1>11 DEF ListIds
    <3>2. Len(func_acquires) \in Nat \ {0}
      BY <3>1, ListedTail
    <3> QED BY <3>1, <3>2, ListedShape
  <2>3. id \in Ids(graph) /\ id \in 1 .. graph.next_instance_id - 1
    BY <1>2, <1>3, <1>11, <2>2 DEF AcquiredIds, ListIds
  <2> HIDE DEF id
  <2>4. PICK j \in Acquires(graph) : Acquired(graph, j) = id
    BY <2>3 DEF Ids
  <2>5. /\ j \in DOMAIN graph.edges /\ graph.edges[j].effect = "Acquire" /\ Bears(graph.edges[j], id)
    BY <2>4 DEF Acquires, Acquired, Bears, Birth, NameOf
  <2>6. ASSUME NEW i \in DOMAIN graph.edges PROVE Apart(graph.edges[i], e)
    <3>1. Bears(graph.edges[i], id) => graph.edges[i].effect = "Acquire"
      BY <1>2, <1>3, <2>5, BornOnce
    <3>2. e.effect \notin Birth /\ e.effect \notin Ending
      BY <1>6 DEF Birth, Ending, ReleaseOrCross
    <3> QED BY <1>6, <3>1, <3>2 DEF Apart
  <2>7. Within(e, graph'.next_instance_id)
    BY <1>6, <1>7, <2>1, <2>3 DEF Within
  <2>8. Named(graph')
    BY <1>2, <1>3, <1>6, <1>8, <2>1, <2>6, <2>7, NamedMore
  <2> QED BY <2>8
<1>12. Named(graph')
  BY <1>1, <1>9, <1>10, <1>11
<1> QED BY <1>1, <1>5, <1>12 DEF NameInv, ListNames, Matching

(* The pairs of functions. *)
LEMMA CrossNames ==
  ASSUME NEW g, NEW h, Linear(g), Linear(h), Named(g), CrossEdges(g, h)
  PROVE  Named(h)
<1> DEFINE id == g.next_instance_id
<1>1. PICK m, a, r :
        /\ Linear(m) /\ Adds(g, m, a) /\ Adds(m, h, r)
        /\ m.next_instance_id = id + 1 /\ h.next_instance_id = m.next_instance_id
        /\ a.effect = "Acquire" /\ a.site.by = "cross"
        /\ a.source = 0 /\ a.target = id /\ a.result = id
        /\ r.effect \in Freeing /\ r.site.by = "cross"
        /\ r.source = id /\ r.target = 0 /\ r.result = 0
  BY DEF CrossEdges
<1>2. GraphShape(g) /\ id \in Nat \ {0}
  BY DEF Linear, GraphShape
<1>3. Proper(a)
  BY <1>1, <1>2 DEF Proper, Effect, Birth, NameOf
<1>4. Fresh(g, m, a)
  BY <1>1, <1>2 DEF Fresh, Within
<1>5. a.effect \notin Using
  BY <1>1 DEF Using
<1>6. NameGrows(g, m) /\ NotUsed(m, id)
  BY <1>1, <1>2, <1>3, <1>4, <1>5, FreshEdge
<1>7. Named(m)
  BY <1>6 DEF NameGrows
<1>8. r.effect \in Ending /\ r.effect \notin {"OwnershipEscape", "OwnershipReclaim"}
  BY <1>1 DEF Freeing, Ending, ReleaseOrCross
<1>9. 0 \in 0 .. h.next_instance_id - 1 /\ r.site.by # "use"
  BY <1>1, <1>2
<1> HIDE DEF id
<1> QED BY <1>1, <1>6, <1>7, <1>8, <1>9, EndNamed

LEMMA NamesAcross ==
  ASSUME NEW rs, NEW as, Len(rs) \in Nat, Listed(as), Linear(graph), Named(graph)
  PROVE  Named(PairedAcross(rs, as))
<1>1. PICK f : /\ f[0] = [graph |-> graph, acquires |-> as]
               /\ \A n \in 1 .. Len(rs) : f[n] = PairAcross(f[n - 1], rs[n])
               /\ PairedAcross(rs, as) = f[Len(rs)].graph
  BY PairSteps
<1> DEFINE Met(n) == \E g, s : /\ f[n] = [graph |-> g, acquires |-> s]
                               /\ Linear(g) /\ Listed(s) /\ Named(g)
           T == {n \in Nat : Met(n)}
<1>2. 0 \in T
  BY <1>1
<1>3. ASSUME NEW m \in 0 .. Len(rs) - 1, m \in T PROVE m + 1 \in T
  <2>1. m \in Nat /\ m + 1 \in 1 .. Len(rs) /\ (m + 1) - 1 = m /\ m + 1 \in Nat
    OBVIOUS
  <2>2. PICK g, s : /\ f[m] = [graph |-> g, acquires |-> s]
                    /\ Linear(g) /\ Listed(s) /\ Named(g)
    BY <1>3
  <2>3. f[m + 1] = PairAcross([graph |-> g, acquires |-> s], rs[m + 1])
    BY <1>1, <2>1, <2>2
  <2>4. CASE s = <<>>
    <3>1. f[m + 1] = [graph |-> g, acquires |-> s]
      BY <2>3, <2>4 DEF PairAcross
    <3> QED BY <2>1, <2>2, <3>1
  <2>5. CASE s # <<>>
    <3>1. PICK h : \E j \in 1 .. Len(s) :
            /\ PairAcross([graph |-> g, acquires |-> s], rs[m + 1])
                 = [graph |-> h, acquires |-> RemoveAt(s, j)]
            /\ CrossAdded(g, h, s[j], rs[m + 1]) /\ CrossEdges(g, h)
      BY <2>2, <2>5, PairAcrossIs
    <3>2. PICK j \in 1 .. Len(s) : /\ f[m + 1] = [graph |-> h, acquires |-> RemoveAt(s, j)]
                                   /\ CrossAdded(g, h, s[j], rs[m + 1]) /\ CrossEdges(g, h)
      BY <2>3, <3>1
    <3>3. Linear(h)
      BY <3>2 DEF CrossAdded
    <3>4. Named(h)
      BY <2>2, <3>2, <3>3, CrossNames
    <3>5. Listed(RemoveAt(s, j))
      BY <2>2, ListedRemove
    <3> QED BY <2>1, <3>2, <3>3, <3>4, <3>5
  <2> QED BY <2>4, <2>5
<1>4. Len(rs) \in T
  <2> HIDE DEF T
  <2>1. \A n \in 0 .. Len(rs) : n \in T
    BY <1>2, <1>3, Ascend
  <2> QED BY <2>1
<1>5. PICK g, s : f[Len(rs)] = [graph |-> g, acquires |-> s] /\ Named(g)
  BY <1>4
<1> QED BY <1>1, <1>5

LEMMA NamesInPropagate ==
  ASSUME BuilderInv, NameInv, Propagate
  PROVE  NameInv'
<1>1. module \in Modules /\ Linear(graph) /\ Named(graph) /\ pc' = "propagate"
  BY DEF BuilderInv, NameInv, Propagate
<1>2. PICK p \in todo : graph' = PairedAcross(ReleasesIn(p[1]), AcquiresBut(p[2], p[1]))
  BY DEF Propagate
<1>3. Listed(Calls)
  BY <1>1, CallsListed
<1>4. Len(ReleasesIn(p[1])) \in Nat
  BY <1>3, OrderLaw, ListedShape DEF ReleasesIn, CallsWithRole, InOrderUpTo
<1>5. Listed(AcquiresBut(p[2], p[1]))
  BY <1>3, OrderLaw DEF AcquiresBut, InOrderUpTo
<1>6. Named(graph')
  BY <1>1, <1>2, <1>4, <1>5, NamesAcross
<1> QED BY <1>1, <1>6 DEF NameInv, ListNames, Matching

(* The uses of freed registers are late. *)
LEMMA UsesNamed ==
  ASSUME NEW g, NEW es, Linear(g), Named(g),
         UsesOnly(es, {x \in Ids(g) : ReleasedBefore(g, x)})
  PROVE  Named(add_edges(g, es))
<1> DEFINE h == add_edges(g, es)
<1>1. GraphShape(g) /\ Listed(es)
  BY DEF Linear, UsesOnly
<1>2. PICK f : /\ f[0] = g /\ f[Len(es)] = h
               /\ \A n \in 0 .. Len(es) : Grown(g, f[n], es, n)
               /\ \A n \in 1 .. Len(es) : Adds(f[n - 1], f[n], es[n])
  BY <1>1, OneByOne
<1> HIDE DEF h
<1>3. Len(es) \in Nat /\ DOMAIN es = 1 .. Len(es)
  BY <1>1, ListedShape
<1> DEFINE T == {m \in Nat : Named(f[m]) /\ Keeps(g, f[m])}
<1>4. 0 \in T
  BY <1>2 DEF Keeps
<1>5. ASSUME NEW m \in 0 .. Len(es) - 1, m \in T PROVE m + 1 \in T
  <2> DEFINE a == f[m]
             b == f[m + 1]
             e == es[m + 1]
             x == e.source
             next == g.next_instance_id
  <2>1. /\ m + 1 \in 1 .. Len(es) /\ m + 1 \in Nat /\ (m + 1) - 1 = m
        /\ m \in 0 .. Len(es) /\ m + 1 \in 0 .. Len(es)
    BY <1>3
  <2>2. Adds(a, b, e) /\ GraphShape(a) /\ b.next_instance_id = next /\ Named(a) /\ Keeps(g, a)
    BY <1>2, <1>5, <2>1 DEF Grown
  <2>3. /\ e.effect = "ConsumesArg" /\ e.site.by = "use" /\ e.target = 0 /\ e.result = 0
        /\ x \in Ids(g) /\ ReleasedBefore(g, x)
    BY <1>3, <2>1 DEF UsesOnly
  <2> HIDE DEF a, b, e
  <2>4. x \in 1 .. next - 1 /\ next \in Nat \ {0}
    BY <2>3 DEF Ids, Linear, InUse, GraphShape
  <2> HIDE DEF x, next
  <2>5. Within(e, b.next_instance_id)
    BY <2>2, <2>3, <2>4 DEF Within, x
  <2>6. Proper(e)
    BY <2>3 DEF Proper, Effect, Passing, Using, Birth
  <2>7. Keeps(a, b) /\ b.edges[Top(a)] = e /\ \A i \in DOMAIN a.edges : i < Top(a)
    BY <2>2, Added DEF Keeps
  <2>8. Keeps(g, b)
    BY <2>2, <2>7, KeptOn
  <2>9. LateUse(b, Top(a))
    <3>1. PICK i, r \in DOMAIN g.edges : /\ g.edges[i].effect = "Acquire" /\ g.edges[i].result = x
                                         /\ g.edges[r].effect \in Freeing /\ g.edges[r].source = x
      BY <2>3 DEF ReleasedBefore
    <3>2. i \in DOMAIN a.edges /\ r \in DOMAIN a.edges
      BY <2>2, <3>1 DEF Keeps
    <3>3. i < Top(a) /\ r < Top(a)
      BY <2>7, <3>2
    <3>4. /\ i \in DOMAIN b.edges /\ b.edges[i] = g.edges[i]
          /\ r \in DOMAIN b.edges /\ b.edges[r] = g.edges[r]
      BY <2>8, <3>1 DEF Keeps
    <3> QED BY <2>3, <2>7, <3>1, <3>3, <3>4 DEF LateUse, x
  <2>10. \A i \in DOMAIN a.edges : Apart(a.edges[i], e)
    <3>1. e.effect \notin Birth \cup Ending \cup {"OwnershipEscape", "EscapesToCallback", "Acquire"}
      BY <2>3 DEF Birth, Ending, ReleaseOrCross
    <3> QED BY <3>1 DEF Apart
  <2>11. Named(b)
    BY <2>2, <2>5, <2>6, <2>9, <2>10, NamedMore
  <2> QED BY <2>1, <2>8, <2>11 DEF b
<1>6. Len(es) \in T
  <2> HIDE DEF T
  <2>1. \A n \in 0 .. Len(es) : n \in T
    BY <1>3, <1>4, <1>5, Ascend
  <2> QED BY <1>3, <2>1
<1> QED BY <1>2, <1>6 DEF h

LEMMA NamesInUses ==
  ASSUME BuilderInv, NameInv, PostFreeOne
  PROVE  NameInv'
<1>1. module \in Modules /\ Linear(graph) /\ Named(graph) /\ pc' = "postfree"
  BY DEF BuilderInv, NameInv, PostFreeOne
<1>2. PICK func \in todo : graph' = add_edges(graph, PostFreeUses(func))
  BY DEF PostFreeOne
<1>3. Named(graph')
  BY <1>1, <1>2, UsesLaw, UsesNamed
<1> QED BY <1>1, <1>3 DEF NameInv, ListNames, Matching

(* What leaves the graph as it is, and no list to match. *)
LEMMA NamesAfter ==
  ASSUME NameInv, \/ CallersEnd \/ PropagateEnd \/ FillMemoryGraph \/ SolveAcquire \/ SolverTurns
                  \/ SolveEffect \/ SolverStores \/ FindCandidates \/ UNCHANGED vars
  PROVE  NameInv'
<1>1. CASE UNCHANGED vars
  <2>1. /\ pc' = pc /\ k' = k /\ graph' = graph /\ func_acquires' = func_acquires
        /\ func_escapes' = func_escapes /\ func_reclaims' = func_reclaims
        /\ reclaim_fallback_id' = reclaim_fallback_id
    BY <1>1 DEF vars, builderVars, lists, claims
  <2> QED BY <2>1 DEF NameInv, ListNames
<1>2. CASE ~UNCHANGED vars
  <2>1. graph' = graph /\ pc' \in {"callers", "propagate", "postfree", "built", "done"}
    <3>1. CASE CallersEnd \/ PropagateEnd \/ FillMemoryGraph
      BY <3>1 DEF CallersEnd, PropagateEnd, FillMemoryGraph, Continue
    <3>2. CASE SolveAcquire \/ SolveEffect
      BY <3>2 DEF SolveAcquire, SolveEffect, Solving
    <3>3. CASE SolverTurns \/ SolverStores \/ FindCandidates
      BY <3>3 DEF SolverTurns, SolverStores, FindCandidates, builderVars
    <3> QED BY <1>2, <3>1, <3>2, <3>3
  <2> QED BY <2>1 DEF NameInv, ListNames, Matching
<1> QED BY <1>1, <1>2

LEMMA NamesInit ==
  ASSUME Init
  PROVE  NameInv
<1>1. pc = "facts" /\ graph = EmptyGraph
  BY DEF Init, BuilderInit
<1>2. DOMAIN <<>> = {}
  OBVIOUS
<1>3. graph.edges = <<>>
  BY <1>1 DEF EmptyGraph
<1> QED BY <1>1, <1>2, <1>3 DEF NameInv, ListNames, Matching, Named, NoUsing

LEMMA NamesStep ==
  ASSUME BuilderInv, CrossInv, NameInv, [Next]_vars
  PROVE  NameInv'
<1>1. BuilderInv'
  BY GraphStep
<1>2. Keeps(graph, graph')
  BY EdgesKept
<1>3. CASE CallFact \/ CallFactsEnd \/ DeclaredFact \/ DeclaredFactsEnd
  BY <1>1, <1>3, NamesByFacts
<1>4. CASE NextCaller
  BY <1>4, NamesAtNextCaller
<1>5. CASE ScanAcquire \/ ScanReclaim \/ ScanRelease \/ ScanEscape \/ ScanOther \/ ScanSummary
  BY <1>1, <1>5, NamesInScan
<1>6. CASE AcquireEdges
  BY <1>1, <1>6, NamesAtScanEnd
<1>7. CASE ReleaseOne
  BY <1>1, <1>7, NamesInReleases
<1>8. CASE EscapeOne
  BY <1>1, <1>8, NamesInEscapes
<1>9. CASE ReclaimOne
  BY <1>1, <1>9, NamesInReclaims
<1>10. CASE ReleasesEnd \/ EscapesEnd \/ ReclaimsEnd
  BY <1>10, NamesAtPhaseEnds
<1>11. CASE CallbackOne
  BY <1>1, <1>2, <1>11, NamesInCallbacks
<1>12. CASE Propagate
  BY <1>12, NamesInPropagate
<1>13. CASE PostFreeOne
  BY <1>13, NamesInUses
<1>14. CASE \/ CallersEnd \/ PropagateEnd \/ FillMemoryGraph \/ SolveAcquire \/ SolverTurns
            \/ SolveEffect \/ SolverStores \/ FindCandidates \/ UNCHANGED vars
  BY <1>14, NamesAfter
<1> QED BY <1>3, <1>4, <1>5, <1>6, <1>7, <1>8, <1>9, <1>10, <1>11, <1>12, <1>13, <1>14
        DEF Next, Build, BuilderNext

-----------------------------------------------------------------------------
(***************************************************************************)
(* What the solver knows of the instances.  The edges of B have had their  *)
(* names brought, those of P have been applied to their sources: of an     *)
(* edge of the second loop, the code does the latter first.                *)
(***************************************************************************)
Over == {"Escaped", "Borrowed", "Transferred", "Released"}

(* The list and the map fit together. *)
Mapped(is, map) ==
  /\ Listed(is) /\ map \in [Id -> Nat]
  /\ \A x \in Id : map[x] = 0 \/ map[x] \in DOMAIN is
  /\ \A n \in DOMAIN is : /\ is[n] = [id |-> is[n].id, state |-> is[n].state]
                          /\ is[n].id \in Id /\ map[is[n].id] = n
                          /\ is[n].state \in Over \cup {"Acquired"}

StateFor(is, map, x) == is[map[x]].state

Brought(g, map, B) == \A x \in Id : map[x] # 0 => \E i \in B : Brings(g.edges[i], x)

BornOwned(g, is, map, B) ==
  \A i \in B, x \in Id : Bears(g.edges[i], x) => map[x] # 0 /\ is[map[x]].id = x

(* Names that are not those of a birth are of instances nobody owns. *)
OthersOver(g, is, map, B) ==
  \A x \in Id : map[x] # 0 /\ (is[map[x]].id # x \/ \A i \in B : ~Bears(g.edges[i], x))
                => StateFor(is, map, x) \in Over

Passes(g, i, j) ==
  /\ g.edges[j].effect \in Passing /\ g.edges[j].source = NameOf(g.edges[i])
  /\ g.edges[i].effect = "Acquire" \/ i < j

(* An instance is owned, and has no other name, until it is passed on. *)
OwnedUntilPassed(g, is, map, B, P) ==
  \A i \in B, x \in Id :
    Bears(g.edges[i], x) =>
      /\ (\E j \in P : Passes(g, i, j)) => StateFor(is, map, x) \in Over
      /\ ~(\E j \in P : Passes(g, i, j)) => /\ StateFor(is, map, x) = "Acquired"
                                            /\ \A y \in Id : map[y] = map[x] => y = x

EndState(effect) == IF effect = "OwnershipEscape" THEN {"Escaped", "Released"} ELSE {"Released"}

EndsTold(g, is, map, B, P) ==
  \A i \in B, j \in P :
    /\ g.edges[i].effect = "Acquire" /\ g.edges[j].effect \in Ending
    /\ g.edges[j].source = g.edges[i].result
    => StateFor(is, map, g.edges[i].result) \in EndState(g.edges[j].effect)

Tracked(g, is, map, B, P) ==
  /\ Mapped(is, map) /\ Brought(g, map, B) /\ BornOwned(g, is, map, B)
  /\ OthersOver(g, is, map, B) /\ OwnedUntilPassed(g, is, map, B, P) /\ EndsTold(g, is, map, B, P)

(* There is an id for each instance of the graph. *)
IdsSuffice == 0 .. graph.next_instance_id - 1 \subseteq Id

Until(g, n) == {i \in DOMAIN g.edges : i < n}

SolverInv ==
  /\ pc \notin {"built", "done"} => /\ solver_pc = "acquires" /\ instances = <<>>
                                    /\ instance_map = [x \in Id |-> 0]
  /\ pc = "done" => solver_pc = "stored"
  /\ solver_pc \in {"acquires", "effects", "stored"}
  /\ IdsSuffice =>
       /\ pc = "built" /\ solver_pc = "acquires" =>
            Tracked(graph, instances, instance_map, Acquires(graph) \cap Until(graph, k), {})
       /\ solver_pc = "effects" =>
            Tracked(graph, instances, instance_map,
                    Acquires(graph) \cup Until(graph, k), Until(graph, k))
       /\ solver_pc = "stored" =>
            Tracked(graph, instances, instance_map, DOMAIN graph.edges, DOMAIN graph.edges)

(* The state machine of an instance, from the states that occur. *)
LEMMA AfterLaw ==
  ASSUME NEW s \in Over \cup {"Acquired"}, NEW ev \in S!Event
  PROVE  /\ S!After(s, ev) \in Over \cup {"Acquired"} \cup {"Retained"}
         /\ s \in Over => S!After(s, ev) \in Over
         /\ s \in {"Escaped", "Released"} => S!After(s, ev) \in {"Escaped", "Released"}
         /\ s = "Released" => S!After(s, ev) = "Released"
         /\ s = "Acquired" /\ ev # "Retain" => S!After(s, ev) \in Over
<1> USE DEF Over, S!Event, S!After, S!Accepted, S!LeakCandidate, S!AcceptedIfEscaped, S!StateOf
<1>1. S!After(s, ev) \in Over \cup {"Acquired"} \cup {"Retained"}
  OBVIOUS
<1>2. s \in Over => S!After(s, ev) \in Over
  OBVIOUS
<1>3. s \in {"Escaped", "Released"} => S!After(s, ev) \in {"Escaped", "Released"}
  OBVIOUS
<1>4. s = "Released" => S!After(s, ev) = "Released"
  OBVIOUS
<1>5. s = "Acquired" /\ ev # "Retain" => S!After(s, ev) \in Over
  OBVIOUS
<1> QED BY <1>1, <1>2, <1>3, <1>4, <1>5

(* S!Told, of any list and map. *)
ToldIn(is, map, y, ev) ==
  [n \in DOMAIN is |->
     IF n = map[y] THEN [is[n] EXCEPT !.state = S!After(@, ev)] ELSE is[n]]

LEMMA ToldShape ==
  ASSUME NEW is, NEW map, NEW y, NEW ev, Mapped(is, map)
  PROVE  LET told == ToldIn(is, map, y, ev) IN
         /\ Listed(told) /\ Len(told) = Len(is) /\ DOMAIN told = DOMAIN is
         /\ \A n \in DOMAIN is : /\ told[n] = [id |-> told[n].id, state |-> told[n].state]
                                 /\ told[n].id = is[n].id
                                 /\ n # map[y] => told[n].state = is[n].state
                                 /\ n = map[y] => told[n].state = S!After(is[n].state, ev)
<1> DEFINE told == ToldIn(is, map, y, ev)
<1>1. /\ Listed(is) /\ DOMAIN is = 1 .. Len(is) /\ Len(is) \in Nat
      /\ \A n \in DOMAIN is : is[n] = [id |-> is[n].id, state |-> is[n].state]
  BY ListedShape DEF Mapped
<1>2. DOMAIN told = DOMAIN is
  BY DEF ToldIn
<1>3. ASSUME NEW n \in DOMAIN is
      PROVE  /\ told[n] = [id |-> told[n].id, state |-> told[n].state]
             /\ told[n].id = is[n].id
             /\ n # map[y] => told[n].state = is[n].state
             /\ n = map[y] => told[n].state = S!After(is[n].state, ev)
  <2> DEFINE new == S!After(is[n].state, ev)
             old == is[n]
  <2>1. told[n] = IF n = map[y] THEN [old EXCEPT !.state = new] ELSE old
    BY DEF ToldIn
  <2>2. old = [id |-> old.id, state |-> old.state]
    BY <1>1
  <2> HIDE DEF new, old, told
  <2>3. CASE n = map[y]
    <3>1. told[n] = [id |-> old.id, state |-> new]
      BY <2>1, <2>2, <2>3
    <3> QED BY <2>3, <3>1 DEF new, old
  <2>4. CASE n # map[y]
    BY <2>1, <2>2, <2>4 DEF old
  <2> QED BY <2>3, <2>4
<1> DEFINE T == {told[n] : n \in DOMAIN told}
<1> HIDE DEF told
<1>4. told = [n \in 1 .. Len(is) |-> told[n]]
  BY <1>1, <1>2 DEF told, ToldIn
<1>5. \A n \in 1 .. Len(is) : told[n] \in T
  BY <1>1, <1>2
<1> HIDE DEF T
<1>6. told \in [1 .. Len(is) -> T]
  BY <1>4, <1>5
<1>7. told \in Seq(T)
  BY <1>1, <1>6
<1>8. Listed(told)
  BY <1>7, ListedWhen
<1>9. Len(told) = Len(is)
  BY <1>1, <1>2, <1>8, ListedShape
<1> QED BY <1>2, <1>3, <1>8, <1>9 DEF told

(* The edge i is next: what was brought after it are acquires. *)
Turn(g, B, P, i) ==
  /\ B \subseteq DOMAIN g.edges /\ P \subseteq DOMAIN g.edges /\ i \in DOMAIN g.edges
  /\ \A j \in P : j <= i
  /\ \A d \in B : d < i \/ g.edges[d].effect = "Acquire"

InIds(g) ==
  \A i \in DOMAIN g.edges : {g.edges[i].source, g.edges[i].target, g.edges[i].result} \subseteq Id

(* The event that the solver makes of an edge. *)
Tells(e, ev) ==
  /\ ev \in S!Event
  /\ e.effect \in Passing => ev # "Retain"
  /\ e.effect \in Ending => S!After("Acquired", ev) \in EndState(e.effect)

LEMMA EarlierEnd ==
  ASSUME NEW g, Linear(g), Named(g), NEW a \in DOMAIN g.edges, NEW i \in DOMAIN g.edges,
         NEW j \in DOMAIN g.edges, j < i,
         g.edges[a].effect = "Acquire", g.edges[i].effect \in Ending,
         g.edges[i].source = g.edges[a].result
  PROVE  ~Passes(g, a, j)
<1>1. GraphShape(g) /\ a \in Acquires(g) /\ j \in Nat /\ i \in Nat
  BY ListedShape DEF Linear, GraphShape, Acquires
<1>2. ASSUME Passes(g, a, j) PROVE FALSE
  <2>1. g.edges[j].effect \in Passing /\ g.edges[j].source = g.edges[a].result
    BY <1>2 DEF Passes, NameOf
  <2>2. CASE g.edges[j].effect \in Ending
    <3>1. i \in Ends(g, Acquired(g, a)) /\ j \in Ends(g, Acquired(g, a))
      BY <2>1, <2>2 DEF Ends, Acquired
    <3>2. i = j
      BY <1>1, <3>1 DEF Linear, OneEnd
    <3> QED BY <1>1, <3>2
  <2>3. CASE g.edges[j].effect \in Using
    <3>1. Uses(g.edges[j], g.edges[i].source)
      BY <2>1, <2>3 DEF Uses
    <3>2. Proper(g.edges[a]) /\ Apart(g.edges[j], g.edges[i])
      BY DEF Named
    <3>3. g.edges[i].source # 0
      BY <3>2 DEF Proper, Birth, NameOf
    <3> QED BY <3>1, <3>2, <3>3 DEF Apart
  <2> QED BY <2>1, <2>2, <2>3 DEF Passing
<1> QED BY <1>2

LEMMA TellStep ==
  ASSUME NEW g, Linear(g), Named(g), NEW is, NEW map, NEW B, NEW P, NEW i, Turn(g, B, P, i), i \notin P,
         Tracked(g, is, map, B, P), NEW ev, Tells(g.edges[i], ev), InIds(g)
  PROVE  Tracked(g, ToldIn(is, map, g.edges[i].source, ev), map, B, P \cup {i})
<1> DEFINE e == g.edges[i]
           y == e.source
           told == ToldIn(is, map, y, ev)
<1>1. /\ Mapped(is, map) /\ Brought(g, map, B) /\ BornOwned(g, is, map, B)
      /\ OthersOver(g, is, map, B) /\ OwnedUntilPassed(g, is, map, B, P) /\ EndsTold(g, is, map, B, P)
  BY DEF Tracked
<1>2. /\ B \subseteq DOMAIN g.edges /\ P \subseteq DOMAIN g.edges /\ i \in DOMAIN g.edges
      /\ \A d \in B : d < i \/ g.edges[d].effect = "Acquire"
      /\ \A j \in P : j < i
  <2>1. \A j \in DOMAIN g.edges : j \in Nat
    BY ListedShape DEF Linear, GraphShape
  <2> QED BY <2>1 DEF Turn
<1>3. /\ Listed(told) /\ DOMAIN told = DOMAIN is
      /\ \A n \in DOMAIN is : /\ told[n] = [id |-> told[n].id, state |-> told[n].state]
                              /\ told[n].id = is[n].id
                              /\ n # map[y] => told[n].state = is[n].state
                              /\ n = map[y] => told[n].state = S!After(is[n].state, ev)
  BY <1>1, ToldShape
<1>4. y \in Id /\ ev \in S!Event /\ (e.effect \in Passing => ev # "Retain")
      /\ (e.effect \in Ending => S!After("Acquired", ev) \in EndState(e.effect))
      /\ (e.effect \notin Passing => y = 0)
  BY <1>2 DEF Tells, Named, Proper, InIds
<1>5. \A d \in B : Proper(g.edges[d])
  BY <1>2 DEF Named
<1> HIDE DEF told, y
<1>6. \A n \in DOMAIN is : is[n].state \in Over \cup {"Acquired"}
  BY <1>1 DEF Mapped
<1>7. \A n \in DOMAIN is : is[n].state \in Over => told[n].state \in Over
  BY <1>3, <1>4, <1>6, AfterLaw
<1>8. \A n \in DOMAIN is : \A effect : is[n].state \in EndState(effect) => told[n].state \in EndState(effect)
  <2>1. ASSUME NEW n \in DOMAIN is, NEW effect, is[n].state \in EndState(effect)
        PROVE  told[n].state \in EndState(effect)
    <3>1. is[n].state \in Over
      BY <2>1 DEF EndState, Over
    <3> QED BY <1>3, <1>4, <2>1, <3>1, AfterLaw DEF EndState
  <2> QED BY <2>1
<1>9. \A x \in Id : map[x] # 0 => map[x] \in DOMAIN is
  BY <1>1 DEF Mapped
<1>10. e.effect \notin Passing /\ map[y] # 0 => is[map[y]].state \in Over
  <2>1. ASSUME e.effect \notin Passing, map[y] # 0 PROVE is[map[y]].state \in Over
    <3>1. \A d \in B : ~Bears(g.edges[d], y)
      BY <1>4, <1>5, <2>1 DEF Proper, Bears
    <3> QED BY <1>1, <1>4, <2>1, <3>1 DEF OthersOver, StateFor
  <2> QED BY <2>1
<1>11. map[y] # 0 => told[map[y]].state \in Over
  <2>1. ASSUME map[y] # 0 PROVE told[map[y]].state \in Over
    <3>1. map[y] \in DOMAIN is
      BY <1>4, <1>9, <2>1
    <3>2. CASE e.effect \in Passing
      BY <1>3, <1>4, <1>6, <3>1, <3>2, AfterLaw
    <3>3. CASE e.effect \notin Passing
      BY <1>7, <1>10, <2>1, <3>1, <3>3
    <3> QED BY <3>2, <3>3
  <2> QED BY <2>1
<1>12. Mapped(told, map)
  <2>1. ASSUME NEW n \in DOMAIN told
        PROVE  /\ told[n] = [id |-> told[n].id, state |-> told[n].state]
               /\ told[n].id \in Id /\ map[told[n].id] = n
    BY <1>1, <1>3, <2>1 DEF Mapped
  <2>2. ASSUME NEW n \in DOMAIN told PROVE told[n].state \in Over \cup {"Acquired"}
    <3>1. CASE n = map[y]
      <4>1. map[y] # 0
        <5>1. 0 \notin DOMAIN is
          BY <1>1, ListedShape DEF Mapped
        <5> QED BY <1>3, <3>1, <5>1
      <4> QED BY <1>11, <3>1, <4>1
    <3>2. CASE n # map[y]
      BY <1>3, <1>6, <3>2
    <3> QED BY <3>1, <3>2
  <2> QED BY <1>1, <1>3, <2>1, <2>2 DEF Mapped
<1>13. BornOwned(g, told, map, B)
  BY <1>1, <1>3, <1>9 DEF BornOwned
<1>14. OthersOver(g, told, map, B)
  <2>1. ASSUME NEW x \in Id, map[x] # 0,
               told[map[x]].id # x \/ \A d \in B : ~Bears(g.edges[d], x)
        PROVE  told[map[x]].state \in Over
    <3>1. map[x] \in DOMAIN is /\ told[map[x]].id = is[map[x]].id
      BY <1>3, <1>9, <2>1
    <3>2. is[map[x]].state \in Over
      BY <1>1, <2>1, <3>1 DEF OthersOver, StateFor
    <3> QED BY <1>7, <3>1, <3>2
  <2> QED BY <2>1 DEF OthersOver, StateFor
<1>15. OwnedUntilPassed(g, told, map, B, P \cup {i})
  <2> SUFFICES ASSUME NEW d \in B, NEW x \in Id, Bears(g.edges[d], x)
               PROVE  /\ (\E j \in P \cup {i} : Passes(g, d, j)) => told[map[x]].state \in Over
                      /\ ~(\E j \in P \cup {i} : Passes(g, d, j)) =>
                           told[map[x]].state = "Acquired" /\ \A z \in Id : map[z] = map[x] => z = x
    BY DEF OwnedUntilPassed, StateFor
  <2>1. map[x] # 0 /\ map[x] \in DOMAIN is
    BY <1>1, <1>9 DEF BornOwned
  <2>2. /\ (\E j \in P : Passes(g, d, j)) => is[map[x]].state \in Over
        /\ ~(\E j \in P : Passes(g, d, j)) =>
             is[map[x]].state = "Acquired" /\ \A z \in Id : map[z] = map[x] => z = x
    BY <1>1 DEF OwnedUntilPassed, StateFor
  <2>3. NameOf(g.edges[d]) = x
    BY DEF Bears
  <2>4. CASE \E j \in P : Passes(g, d, j)
    BY <1>7, <2>1, <2>2, <2>4
  <2>5. CASE ~(\E j \in P : Passes(g, d, j)) /\ Passes(g, d, i)
    <3>1. y = x
      BY <2>3, <2>5 DEF Passes, y
    <3> QED BY <1>11, <2>1, <2>5, <3>1
  <2>6. CASE ~(\E j \in P : Passes(g, d, j)) /\ ~Passes(g, d, i)
    <3>1. ~(\E j \in P \cup {i} : Passes(g, d, j))
      BY <2>6
    <3>2. is[map[x]].state = "Acquired" /\ \A z \in Id : map[z] = map[x] => z = x
      BY <2>2, <2>6
    <3>3. map[y] # map[x]
      <4>1. ASSUME map[y] = map[x] PROVE FALSE
        <5>1. y = x
          BY <1>4, <3>2, <4>1
        <5>2. e.effect \in Passing
          <6>1. x # 0
            BY <1>5 DEF Bears, Proper
          <6> QED BY <1>4, <5>1, <6>1
        <5>3. Passes(g, d, i)
          BY <1>2, <2>3, <5>1, <5>2 DEF Passes, y
        <5> QED BY <2>6, <5>3
      <4> QED BY <4>1
    <3>4. told[map[x]].state = "Acquired"
      BY <1>3, <2>1, <3>2, <3>3
    <3> QED BY <3>1, <3>2, <3>4
  <2> QED BY <2>4, <2>5, <2>6
<1>16. EndsTold(g, told, map, B, P \cup {i})
  <2> SUFFICES ASSUME NEW d \in B, NEW j \in P \cup {i}, g.edges[d].effect = "Acquire",
                      g.edges[j].effect \in Ending, g.edges[j].source = g.edges[d].result
               PROVE  told[map[g.edges[d].result]].state \in EndState(g.edges[j].effect)
    BY DEF EndsTold, StateFor
  <2> DEFINE x == g.edges[d].result
  <2>1. x \in Id /\ Bears(g.edges[d], x)
    BY <1>2 DEF InIds, Bears, Birth, NameOf
  <2>2. map[x] # 0 /\ map[x] \in DOMAIN is
    BY <1>1, <1>9, <2>1 DEF BornOwned
  <2>3. CASE j \in P
    <3>1. is[map[x]].state \in EndState(g.edges[j].effect)
      BY <1>1, <2>3 DEF EndsTold, StateFor
    <3> QED BY <1>8, <2>2, <3>1
  <2>4. CASE j = i
    <3>1. y = x /\ e.effect \in Ending
      BY <2>4 DEF y
    <3>2. ~(\E l \in P : Passes(g, d, l))
      BY <1>2, <2>4, EarlierEnd
    <3>3. is[map[x]].state = "Acquired"
      BY <1>1, <2>1, <3>2 DEF OwnedUntilPassed, StateFor
    <3>4. told[map[x]].state = S!After("Acquired", ev)
      BY <1>3, <2>2, <3>1, <3>3
    <3> QED BY <1>4, <2>4, <3>1, <3>4
  <2> QED BY <2>3, <2>4
<1> QED BY <1>12, <1>13, <1>14, <1>15, <1>16, <1>1 DEF Tracked, told, y

(* An edge that brings no name to be born, or passes nothing on. *)
LEMMA NothingNew ==
  ASSUME NEW g, NEW is, NEW map, NEW B, NEW P, NEW i, Tracked(g, is, map, B, P)
  PROVE  /\ g.edges[i].effect \notin Birth => Tracked(g, is, map, B \cup {i}, P)
         /\ g.edges[i].effect \notin Passing => Tracked(g, is, map, B, P \cup {i})
<1>1. /\ Mapped(is, map) /\ Brought(g, map, B) /\ BornOwned(g, is, map, B)
      /\ OthersOver(g, is, map, B) /\ OwnedUntilPassed(g, is, map, B, P) /\ EndsTold(g, is, map, B, P)
  BY DEF Tracked
<1>2. ASSUME g.edges[i].effect \notin Birth PROVE Tracked(g, is, map, B \cup {i}, P)
  <2>1. /\ \A x : ~Bears(g.edges[i], x)
        /\ g.edges[i].effect # "Acquire"
    BY <1>2 DEF Bears, Birth
  <2>2. Brought(g, map, B \cup {i}) /\ BornOwned(g, is, map, B \cup {i})
    BY <1>1, <2>1 DEF Brought, BornOwned
  <2>3. OthersOver(g, is, map, B \cup {i})
    BY <1>1, <2>1 DEF OthersOver
  <2>4. OwnedUntilPassed(g, is, map, B \cup {i}, P)
    BY <1>1, <2>1 DEF OwnedUntilPassed
  <2>5. EndsTold(g, is, map, B \cup {i}, P)
    BY <1>1, <2>1 DEF EndsTold
  <2> QED BY <1>1, <2>2, <2>3, <2>4, <2>5 DEF Tracked
<1>3. ASSUME g.edges[i].effect \notin Passing PROVE Tracked(g, is, map, B, P \cup {i})
  <2>1. /\ \A d : ~Passes(g, d, i)
        /\ g.edges[i].effect \notin Ending
    BY <1>3 DEF Passes, Passing
  <2>2. \A d : (\E j \in P \cup {i} : Passes(g, d, j)) <=> (\E j \in P : Passes(g, d, j))
    BY <2>1
  <2>3. OwnedUntilPassed(g, is, map, B, P \cup {i})
    BY <1>1, <2>2 DEF OwnedUntilPassed
  <2>4. EndsTold(g, is, map, B, P \cup {i})
    BY <1>1, <2>1 DEF EndsTold
  <2> QED BY <1>1, <2>3, <2>4 DEF Tracked
<1> QED BY <1>2, <1>3

(* Nobody has the name that an edge bears. *)
LEMMA VacantName ==
  ASSUME NEW g, Linear(g), Named(g), NEW is, NEW map, NEW B, NEW P, NEW i, Turn(g, B, P, i),
         i \notin B, Tracked(g, is, map, B, P), InIds(g), NEW x, Bears(g.edges[i], x)
  PROVE  x \in Id /\ map[x] = 0
<1>1. i \in DOMAIN g.edges /\ \A d \in DOMAIN g.edges : d \in Nat
  BY ListedShape DEF Linear, GraphShape, Turn
<1>2. x \in Id /\ x = NameOf(g.edges[i]) /\ g.edges[i].effect \in Birth
  BY <1>1 DEF InIds, Bears, NameOf
<1>3. ASSUME map[x] # 0 PROVE FALSE
  <2>1. PICK d \in B : Brings(g.edges[d], x)
    BY <1>2, <1>3 DEF Tracked, Brought
  <2>2. d \in DOMAIN g.edges /\ d # i /\ (d < i \/ g.edges[d].effect = "Acquire")
    BY DEF Turn
  <2>3. CASE d < i
    <3>1. Apart(g.edges[d], g.edges[i])
      BY <1>1, <2>2, <2>3 DEF Named
    <3> QED BY <1>2, <2>1, <3>1 DEF Apart
  <2>4. CASE ~(d < i)
    <3>1. i < d /\ g.edges[d].effect = "Acquire"
      BY <1>1, <2>2, <2>4
    <3>2. Apart(g.edges[i], g.edges[d])
      BY <1>1, <2>2, <3>1 DEF Named
    <3>3. g.edges[d].effect \in Birth /\ NameOf(g.edges[d]) = x
      BY <2>1, <3>1 DEF Brings, Bears, Birth
    <3>4. Brings(g.edges[i], x)
      BY DEF Brings
    <3> QED BY <3>2, <3>3, <3>4 DEF Apart
  <2> QED BY <2>3, <2>4
<1> QED BY <1>2, <1>3

(* An instance more. *)
LEMMA CreateStep ==
  ASSUME NEW g, Linear(g), Named(g), NEW is, NEW map, NEW B, NEW P, NEW i, Turn(g, B, P, i),
         Tracked(g, is, map, B, P), InIds(g), NEW x \in Id, map[x] = 0, NEW state,
         \/ Bears(g.edges[i], x) /\ state = "Acquired"
         \/ g.edges[i].effect = "EscapesToCallback" /\ g.edges[i].source = x /\ state = "Borrowed",
         g.edges[i].effect = "Acquire" => P = {}
  PROVE  Tracked(g, Append(is, [id |-> x, state |-> state]), [map EXCEPT ![x] = Len(is) + 1],
                 B \cup {i}, P)
<1> DEFINE e == g.edges[i]
           new == [id |-> x, state |-> state]
           more == Append(is, new)
           place == Len(is) + 1
           with == [map EXCEPT ![x] = place]
<1>1. /\ Mapped(is, map) /\ Brought(g, map, B) /\ BornOwned(g, is, map, B)
      /\ OthersOver(g, is, map, B) /\ OwnedUntilPassed(g, is, map, B, P) /\ EndsTold(g, is, map, B, P)
  BY DEF Tracked
<1>2. /\ Listed(is) /\ DOMAIN is = 1 .. Len(is) /\ Len(is) \in Nat /\ map \in [Id -> Nat]
  BY <1>1, ListedShape DEF Mapped
<1>3. new.id = x /\ new.state = state /\ new = [id |-> new.id, state |-> new.state]
  OBVIOUS
<1> HIDE DEF new
<1>4. /\ Listed(more) /\ Len(more) = Len(is) + 1
      /\ \A n \in 1 .. Len(is) : more[n] = is[n]
      /\ more[Len(is) + 1] = new
  BY <1>2, ListedAppend
<1> HIDE DEF more
<1>5. /\ DOMAIN more = DOMAIN is \cup {place} /\ place \notin DOMAIN is /\ place \in Nat \ {0}
      /\ \A n \in DOMAIN is : more[n] = is[n]
      /\ more[place] = new
  BY <1>2, <1>4, ListedShape
<1>6. with \in [Id -> Nat] /\ with[x] = place /\ \A z \in Id : z # x => with[z] = map[z]
  BY <1>2, <1>5
<1> HIDE DEF place, with
<1>7. \A z \in Id : map[z] # 0 => /\ map[z] \in DOMAIN is /\ z # x /\ with[z] = map[z]
                                  /\ more[map[z]] = is[map[z]] /\ map[z] # place
  BY <1>1, <1>5, <1>6 DEF Mapped
<1>8. \A n \in DOMAIN is : is[n].id # x /\ n # 0
  BY <1>1, <1>2 DEF Mapped
<1>9. Mapped(more, with)
  <2>1. ASSUME NEW n \in DOMAIN more
        PROVE  /\ more[n] = [id |-> more[n].id, state |-> more[n].state]
               /\ more[n].id \in Id /\ with[more[n].id] = n
               /\ more[n].state \in Over \cup {"Acquired"}
    <3>1. CASE n = place
      <4>1. state \in Over \cup {"Acquired"}
        BY DEF Over
      <4> QED BY <1>3, <1>5, <1>6, <3>1, <4>1
    <3>2. CASE n \in DOMAIN is
      <4>1. /\ is[n] = [id |-> is[n].id, state |-> is[n].state]
            /\ is[n].id \in Id /\ map[is[n].id] = n
            /\ is[n].state \in Over \cup {"Acquired"}
        BY <1>1, <3>2 DEF Mapped
      <4> QED BY <1>5, <1>6, <1>8, <3>2, <4>1
    <3> QED BY <1>5, <3>1, <3>2
  <2>2. \A z \in Id : with[z] = 0 \/ with[z] \in DOMAIN more
    BY <1>5, <1>6, <1>7
  <2> QED BY <1>4, <1>6, <2>1, <2>2 DEF Mapped
<1>10. /\ Brings(e, x)
       /\ \A z : Bears(e, z) => z = x /\ state = "Acquired"
       /\ state = "Borrowed" \/ Bears(e, x)
  BY DEF Brings, Bears, Birth
<1>11. Brought(g, with, B \cup {i})
  <2>1. ASSUME NEW z \in Id, with[z] # 0 PROVE \E d \in B \cup {i} : Brings(g.edges[d], z)
    <3>1. CASE z = x
      BY <1>10, <3>1
    <3>2. CASE z # x
      BY <1>1, <1>6, <2>1, <3>2 DEF Brought
    <3> QED BY <3>1, <3>2
  <2> QED BY <2>1 DEF Brought
<1>12. \A d \in B, z \in Id : Bears(g.edges[d], z) => map[z] # 0 /\ is[map[z]].id = z
  BY <1>1 DEF BornOwned
<1>13. BornOwned(g, more, with, B \cup {i})
  <2>1. ASSUME NEW d \in B, NEW z \in Id, Bears(g.edges[d], z)
        PROVE  with[z] # 0 /\ more[with[z]].id = z
    <3>1. map[z] # 0 /\ is[map[z]].id = z
      BY <1>12, <2>1
    <3> QED BY <1>7, <3>1
  <2>2. ASSUME NEW z \in Id, Bears(e, z) PROVE with[z] # 0 /\ more[with[z]].id = z
    <3>1. z = x
      BY <1>10, <2>2
    <3> QED BY <1>3, <1>5, <1>6, <3>1
  <2> QED BY <2>1, <2>2 DEF BornOwned
<1>14. OthersOver(g, more, with, B \cup {i})
  <2>1. ASSUME NEW z \in Id, with[z] # 0,
               more[with[z]].id # z \/ \A d \in B \cup {i} : ~Bears(g.edges[d], z)
        PROVE  more[with[z]].state \in Over
    <3>1. CASE z = x
      <4>1. more[with[z]] = new
        BY <1>5, <1>6, <3>1
      <4>2. ~Bears(e, x)
        BY <1>3, <2>1, <3>1, <4>1
      <4> QED BY <1>3, <1>10, <4>1, <4>2 DEF Over
    <3>2. CASE z # x
      <4>1. map[z] # 0 /\ with[z] = map[z]
        BY <1>6, <2>1, <3>2
      <4>2. more[with[z]] = is[map[z]]
        BY <1>7, <4>1
      <4> QED BY <1>1, <2>1, <4>1, <4>2 DEF OthersOver, StateFor
    <3> QED BY <3>1, <3>2
  <2> QED BY <2>1 DEF OthersOver, StateFor
<1>15. OwnedUntilPassed(g, more, with, B \cup {i}, P)
  <2>1. ASSUME NEW d \in B, NEW z \in Id, Bears(g.edges[d], z)
        PROVE  /\ (\E j \in P : Passes(g, d, j)) => more[with[z]].state \in Over
               /\ ~(\E j \in P : Passes(g, d, j)) =>
                    more[with[z]].state = "Acquired" /\ \A y \in Id : with[y] = with[z] => y = z
    <3>1. map[z] # 0
      BY <1>12, <2>1
    <3>2. more[with[z]] = is[map[z]] /\ with[z] = map[z] /\ map[z] # place
      BY <1>7, <3>1
    <3>3. (\E j \in P : Passes(g, d, j)) => is[map[z]].state \in Over
      BY <1>1, <2>1 DEF OwnedUntilPassed, StateFor
    <3>4. ~(\E j \in P : Passes(g, d, j)) =>
             is[map[z]].state = "Acquired" /\ \A y \in Id : map[y] = map[z] => y = z
      BY <1>1, <2>1 DEF OwnedUntilPassed, StateFor
    <3>5. \A y \in Id : with[y] = with[z] => map[y] = map[z]
      BY <1>6, <3>2
    <3> QED BY <3>2, <3>3, <3>4, <3>5
  <2>2. ASSUME NEW z \in Id, Bears(e, z)
        PROVE  /\ ~(\E j \in P : Passes(g, i, j))
               /\ more[with[z]].state = "Acquired" /\ \A y \in Id : with[y] = with[z] => y = z
    <3>1. z = x /\ state = "Acquired"
      BY <1>10, <2>2
    <3>2. more[with[z]].state = "Acquired"
      BY <1>3, <1>5, <1>6, <3>1
    <3>3. \A y \in Id : with[y] = with[z] => y = z
      BY <1>6, <1>7, <3>1, <1>5
    <3>4. ASSUME NEW j \in P, Passes(g, i, j) PROVE FALSE
      <4>1. j <= i /\ i \in Nat /\ j \in Nat
        <5>1. \A n \in DOMAIN g.edges : n \in Nat
          BY ListedShape DEF Linear, GraphShape
        <5> QED BY <5>1 DEF Turn
      <4> QED BY <3>4, <4>1 DEF Passes
    <3> QED BY <3>2, <3>3, <3>4
  <2> QED BY <2>1, <2>2 DEF OwnedUntilPassed, StateFor
<1>16. EndsTold(g, more, with, B \cup {i}, P)
  <2> SUFFICES ASSUME NEW d \in B \cup {i}, NEW j \in P, g.edges[d].effect = "Acquire",
                      g.edges[j].effect \in Ending, g.edges[j].source = g.edges[d].result
               PROVE  more[with[g.edges[d].result]].state \in EndState(g.edges[j].effect)
    BY DEF EndsTold, StateFor
  <2> DEFINE z == g.edges[d].result
  <2>1. d \in B
    OBVIOUS
  <2>2. Bears(g.edges[d], z)
    BY DEF Bears, Birth, NameOf
  <2>3. is[map[z]].state \in EndState(g.edges[j].effect)
    BY <1>1, <2>1 DEF EndsTold, StateFor
  <2>4. z \in Id
    BY <2>1 DEF InIds, Turn
  <2>5. more[with[z]] = is[map[z]]
    BY <1>7, <1>12, <2>1, <2>2, <2>4
  <2> QED BY <2>3, <2>5
<1> QED BY <1>9, <1>11, <1>13, <1>14, <1>15, <1>16 DEF Tracked, with, more, new, place

(* A name more, for an instance that escapes. *)
LEMMA AliasStep ==
  ASSUME NEW g, Linear(g), Named(g), NEW is, NEW map, NEW B, NEW P, NEW i, Turn(g, B, P, i), i \in P,
         Tracked(g, is, map, B, P), InIds(g), NEW y, NEW z,
         g.edges[i].effect = "OwnershipEscape", g.edges[i].source = y, g.edges[i].result = z,
         map[y] # 0, map[z] = 0
  PROVE  Tracked(g, is, [map EXCEPT ![z] = map[y]], B \cup {i}, P)
<1> DEFINE e == g.edges[i]
           place == map[y]
           with == [map EXCEPT ![z] = place]
<1>1. /\ Mapped(is, map) /\ Brought(g, map, B) /\ BornOwned(g, is, map, B)
      /\ OthersOver(g, is, map, B) /\ OwnedUntilPassed(g, is, map, B, P) /\ EndsTold(g, is, map, B, P)
  BY DEF Tracked
<1>2. /\ i \in DOMAIN g.edges /\ B \subseteq DOMAIN g.edges /\ \A n \in DOMAIN g.edges : n \in Nat
      /\ \A d \in B : d < i \/ g.edges[d].effect = "Acquire"
  BY ListedShape DEF Linear, GraphShape, Turn
<1>3. y \in Id /\ z \in Id
  BY <1>2 DEF InIds
<1>4. place \in DOMAIN is /\ map \in [Id -> Nat] /\ place # 0 /\ place \in Nat
  BY <1>1, <1>3 DEF Mapped
<1>5. with \in [Id -> Nat] /\ with[z] = place /\ \A w \in Id : w # z => with[w] = map[w]
  BY <1>3, <1>4
<1> HIDE DEF place, with
<1>6. \A d \in B \cup {i} : ~Bears(g.edges[d], z)
  <2>1. ASSUME NEW d \in B, Bears(g.edges[d], z) PROVE FALSE
    <3>1. CASE d < i
      <4>1. Apart(g.edges[d], e)
        BY <1>2, <3>1 DEF Named
      <4> QED BY <2>1, <4>1 DEF Apart
    <3>2. CASE ~(d < i)
      <4>1. i < d /\ g.edges[d].effect = "Acquire"
        BY <1>2, <3>2
      <4>2. Apart(e, g.edges[d])
        BY <1>2, <4>1 DEF Named
      <4>3. Brings(e, z)
        BY DEF Brings
      <4> QED BY <2>1, <4>2, <4>3 DEF Apart, Bears
    <3> QED BY <3>1, <3>2
  <2>2. ~Bears(e, z)
    BY DEF Bears, Birth
  <2> QED BY <2>1, <2>2
<1>7. is[place].state \in Over
  <2>1. CASE is[place].id # y \/ \A d \in B : ~Bears(g.edges[d], y)
    BY <1>1, <1>3, <2>1 DEF OthersOver, StateFor, place
  <2>2. CASE \E d \in B : Bears(g.edges[d], y)
    <3>1. PICK d \in B : Bears(g.edges[d], y)
      BY <2>2
    <3>2. Passes(g, d, i)
      BY <1>2, <3>1 DEF Passes, Passing, Ending, Bears
    <3> QED BY <1>1, <1>3, <3>1, <3>2 DEF OwnedUntilPassed, StateFor, place
  <2> QED BY <2>1, <2>2
<1>8. Mapped(is, with)
  <2>1. \A n \in DOMAIN is : with[is[n].id] = n
    <3>1. \A n \in DOMAIN is : is[n].id \in Id /\ map[is[n].id] = n /\ n # 0
      BY <1>1, ListedShape DEF Mapped
    <3> QED BY <1>5, <3>1
  <2>2. \A w \in Id : with[w] = 0 \/ with[w] \in DOMAIN is
    BY <1>1, <1>4, <1>5 DEF Mapped
  <2> QED BY <1>1, <1>5, <2>1, <2>2 DEF Mapped
<1>9. Brought(g, with, B \cup {i})
  <2>1. Brings(e, z)
    BY DEF Brings
  <2> QED BY <1>1, <1>5, <2>1 DEF Brought
<1>10. \A d \in B \cup {i}, w \in Id :
         Bears(g.edges[d], w) => d \in B /\ w # z /\ with[w] = map[w]
  <2>1. \A w : ~Bears(e, w)
    BY DEF Bears, Birth
  <2> QED BY <1>5, <1>6, <2>1
<1>11. BornOwned(g, is, with, B \cup {i})
  BY <1>1, <1>10 DEF BornOwned
<1>12. OthersOver(g, is, with, B \cup {i})
  <2>1. ASSUME NEW w \in Id, with[w] # 0,
               is[with[w]].id # w \/ \A d \in B \cup {i} : ~Bears(g.edges[d], w)
        PROVE  is[with[w]].state \in Over
    <3>1. CASE w = z
      BY <1>5, <1>7, <3>1
    <3>2. CASE w # z
      BY <1>1, <1>5, <2>1, <3>2 DEF OthersOver, StateFor
    <3> QED BY <3>1, <3>2
  <2> QED BY <2>1 DEF OthersOver, StateFor
<1>13. OwnedUntilPassed(g, is, with, B \cup {i}, P)
  <2>1. ASSUME NEW d \in B \cup {i}, NEW w \in Id, Bears(g.edges[d], w)
        PROVE  /\ (\E j \in P : Passes(g, d, j)) => is[with[w]].state \in Over
               /\ ~(\E j \in P : Passes(g, d, j)) =>
                    is[with[w]].state = "Acquired" /\ \A u \in Id : with[u] = with[w] => u = w
    <3>1. d \in B /\ with[w] = map[w]
      BY <1>10, <2>1
    <3>2. (\E j \in P : Passes(g, d, j)) => is[map[w]].state \in Over
      BY <1>1, <2>1, <3>1 DEF OwnedUntilPassed, StateFor
    <3>3. ~(\E j \in P : Passes(g, d, j)) =>
             is[map[w]].state = "Acquired" /\ \A u \in Id : map[u] = map[w] => u = w
      BY <1>1, <2>1, <3>1 DEF OwnedUntilPassed, StateFor
    <3>4. ASSUME is[map[w]].state = "Acquired" PROVE map[w] # place
      <4>1. "Acquired" \notin Over
        BY DEF Over
      <4> QED BY <1>7, <3>4, <4>1
    <3>5. ASSUME is[map[w]].state = "Acquired", NEW u \in Id, with[u] = with[w] PROVE map[u] = map[w]
      BY <1>5, <3>1, <3>4, <3>5
    <3> QED BY <3>1, <3>2, <3>3, <3>5
  <2> QED BY <2>1 DEF OwnedUntilPassed, StateFor
<1>14. EndsTold(g, is, with, B \cup {i}, P)
  <2> SUFFICES ASSUME NEW d \in B \cup {i}, NEW j \in P, g.edges[d].effect = "Acquire",
                      g.edges[j].effect \in Ending, g.edges[j].source = g.edges[d].result
               PROVE  is[with[g.edges[d].result]].state \in EndState(g.edges[j].effect)
    BY DEF EndsTold, StateFor
  <2> DEFINE w == g.edges[d].result
  <2>1. Bears(g.edges[d], w) /\ w \in Id
    BY <1>2 DEF Bears, Birth, NameOf, InIds
  <2>2. d \in B /\ with[w] = map[w]
    BY <1>10, <2>1
  <2>3. is[map[w]].state \in EndState(g.edges[j].effect)
    BY <1>1, <2>2 DEF EndsTold, StateFor
  <2> QED BY <2>2, <2>3
<1> QED BY <1>8, <1>9, <1>11, <1>12, <1>13, <1>14 DEF Tracked, with, place

-----------------------------------------------------------------------------
(* The steps of the solver. *)

LEMMA UntilLaw ==
  ASSUME NEW g, GraphShape(g), NEW n \in Nat \ {0}
  PROVE  /\ n <= Len(g.edges) => /\ n \in DOMAIN g.edges /\ n \notin Until(g, n)
                                 /\ Until(g, n + 1) = Until(g, n) \cup {n}
         /\ n > Len(g.edges) => Until(g, n) = DOMAIN g.edges
         /\ Until(g, 1) = {} /\ Until(g, n) \subseteq DOMAIN g.edges
         /\ Acquires(g) \subseteq DOMAIN g.edges
         /\ \A i \in Until(g, n) : i < n
<1>1. DOMAIN g.edges = 1 .. Len(g.edges) /\ Len(g.edges) \in Nat
  BY ListedShape DEF GraphShape
<1> DEFINE last == Len(g.edges)
<1> HIDE DEF last
<1>2. DOMAIN g.edges = 1 .. last /\ last \in Nat
  BY <1>1 DEF last
<1>3. n <= last => n \in DOMAIN g.edges /\ n \notin Until(g, n)
                   /\ Until(g, n + 1) = Until(g, n) \cup {n}
  BY <1>2 DEF Until
<1>4. n > last => Until(g, n) = DOMAIN g.edges
  BY <1>2 DEF Until
<1>5. Until(g, 1) = {} /\ Until(g, n) \subseteq DOMAIN g.edges /\ \A i \in Until(g, n) : i < n
  BY <1>2 DEF Until
<1> QED BY <1>3, <1>4, <1>5 DEF last, Acquires

LEMMA AllInIds ==
  ASSUME BuilderInv, NameInv, IdsSuffice
  PROVE  InIds(graph)
<1>1. \A i \in DOMAIN graph.edges : Within(graph.edges[i], graph.next_instance_id)
  BY DEF NameInv, Named
<1> QED BY <1>1 DEF InIds, Within, IdsSuffice

LEMMA SolverBefore ==
  ASSUME SolverInv, BuilderInv, Build
  PROVE  SolverInv'
<1>1. /\ pc \notin {"built", "done"} /\ pc' # "done"
      /\ pc' = "built" => k' = 1
  <2>1. CASE \/ CallFact \/ CallFactsEnd \/ DeclaredFact \/ DeclaredFactsEnd \/ NextCaller
             \/ AcquireEdges \/ ReleaseOne \/ ReleasesEnd \/ EscapeOne \/ EscapesEnd \/ ReclaimOne
             \/ ReclaimsEnd \/ CallbackOne \/ CallersEnd \/ Propagate \/ PropagateEnd
             \/ PostFreeOne \/ FillMemoryGraph
    BY <2>1 DEF CallFact, CallFactsEnd, DeclaredFact, DeclaredFactsEnd, NextCaller, AcquireEdges,
                ReleaseOne, ReleasesEnd, EscapeOne, EscapesEnd, ReclaimOne, ReclaimsEnd, CallbackOne,
                CallersEnd, Propagate, PropagateEnd, PostFreeOne, FillMemoryGraph, Continue
  <2>2. CASE ScanAcquire \/ ScanReclaim \/ ScanRelease \/ ScanEscape \/ ScanOther \/ ScanSummary
    BY <2>2 DEF ScanAcquire, ScanReclaim, ScanRelease, ScanEscape, ScanOther, ScanSummary, Scanning
  <2> QED BY <2>1, <2>2 DEF Build, BuilderNext
<1>2. UNCHANGED <<solver_pc, instances, instance_map>>
  BY DEF Build, solverVars
<1>3. solver_pc = "acquires" /\ instances = <<>> /\ instance_map = [x \in Id |-> 0]
  BY <1>1 DEF SolverInv
<1>4. \A g : Tracked(g, <<>>, [x \in Id |-> 0], {}, {})
  <2> DEFINE none == [x \in Id |-> 0]
  <2>1. <<>> \in Seq(Nat) /\ Len(<<>>) = 0
    BY EmptySeq
  <2>2. Listed(<<>>)
    BY <2>1, ListedWhen
  <2>3. DOMAIN <<>> = {}
    OBVIOUS
  <2>4. none \in [Id -> Nat] /\ \A x \in Id : none[x] = 0
    OBVIOUS
  <2> HIDE DEF none
  <2>5. Mapped(<<>>, none)
    BY <2>2, <2>3, <2>4 DEF Mapped
  <2>6. \A g : /\ Brought(g, none, {}) /\ BornOwned(g, <<>>, none, {}) /\ OthersOver(g, <<>>, none, {})
               /\ OwnedUntilPassed(g, <<>>, none, {}, {}) /\ EndsTold(g, <<>>, none, {}, {})
    BY <2>4 DEF Brought, BornOwned, OthersOver, OwnedUntilPassed, EndsTold
  <2>7. \A g : Tracked(g, <<>>, none, {}, {})
    BY <2>5, <2>6 DEF Tracked
  <2> QED BY <2>7 DEF none
<1>5. ASSUME pc' = "built" PROVE Acquires(graph') \cap Until(graph', k') = {}
  <2>1. FillMemoryGraph
    <3>1. CASE \/ CallFact \/ CallFactsEnd \/ DeclaredFact \/ DeclaredFactsEnd \/ NextCaller
               \/ AcquireEdges \/ ReleaseOne \/ ReleasesEnd \/ EscapeOne \/ EscapesEnd \/ ReclaimOne
               \/ ReclaimsEnd \/ CallbackOne \/ CallersEnd \/ Propagate \/ PropagateEnd \/ PostFreeOne
      BY <1>5, <3>1
         DEF CallFact, CallFactsEnd, DeclaredFact, DeclaredFactsEnd, NextCaller, AcquireEdges,
             ReleaseOne, ReleasesEnd, EscapeOne, EscapesEnd, ReclaimOne, ReclaimsEnd, CallbackOne,
             CallersEnd, Propagate, PropagateEnd, PostFreeOne, Continue
    <3>2. CASE ScanAcquire \/ ScanReclaim \/ ScanRelease \/ ScanEscape \/ ScanOther \/ ScanSummary
      BY <1>5, <3>2 DEF ScanAcquire, ScanReclaim, ScanRelease, ScanEscape, ScanOther, ScanSummary, Scanning
    <3> QED BY <3>1, <3>2 DEF Build, BuilderNext
  <2>2. graph' = graph /\ k' = 1
    BY <2>1 DEF FillMemoryGraph, Continue
  <2>3. Until(graph, 1) = {}
    BY UntilLaw DEF BuilderInv, Linear
  <2> QED BY <2>2, <2>3
<1> QED BY <1>1, <1>2, <1>3, <1>4, <1>5 DEF SolverInv

LEMMA SolverAcquires ==
  ASSUME BuilderInv, NameInv, SolverInv, SolveAcquire
  PROVE  SolverInv'
<1> DEFINE e == graph.edges[k]
           B == Acquires(graph) \cap Until(graph, k)
<1>1. /\ pc = "built" /\ pc' = "built" /\ solver_pc = "acquires" /\ k <= Len(graph.edges)
      /\ k' = k + 1 /\ graph' = graph
  BY DEF SolveAcquire, Solving
<1>2. Linear(graph) /\ GraphShape(graph) /\ Named(graph) /\ k \in Nat \ {0}
  BY DEF BuilderInv, NameInv, Linear
<1>3. /\ k \in DOMAIN graph.edges /\ k \notin Until(graph, k)
      /\ Until(graph, k + 1) = Until(graph, k) \cup {k}
      /\ \A i \in Until(graph, k) : i < k
      /\ Acquires(graph) \subseteq DOMAIN graph.edges
  BY <1>1, <1>2, UntilLaw
<1>4. solver_pc' = "acquires"
  <2>1. CASE Edge.effect = "Acquire"
    BY <1>1, <2>1 DEF SolveAcquire, S!Acquire, S!Edge
  <2>2. CASE Edge.effect # "Acquire"
    BY <1>1, <2>2 DEF SolveAcquire, solverVars
  <2> QED BY <2>1, <2>2
<1>5. ASSUME IdsSuffice PROVE Tracked(graph, instances', instance_map', Acquires(graph) \cap Until(graph, k + 1), {})
  <2>1. Tracked(graph, instances, instance_map, B, {}) /\ InIds(graph)
    BY <1>1, <1>5, AllInIds DEF SolverInv
  <2>2. CASE e.effect # "Acquire"
    <3>1. instances' = instances /\ instance_map' = instance_map
      BY <2>2 DEF SolveAcquire, Edge, solverVars
    <3>2. Acquires(graph) \cap Until(graph, k + 1) = B
      BY <1>3, <2>2 DEF Acquires
    <3> QED BY <2>1, <3>1, <3>2
  <2>3. CASE e.effect = "Acquire"
    <3>1. S!Acquire(e.site.caller, e.result)
      BY <2>3 DEF SolveAcquire, Edge
    <3>2. S!AddIfVacant(instances, e.result, "Acquired")
      BY <3>1 DEF S!Acquire
    <3>3. Turn(graph, B, {}, k) /\ k \notin B
      BY <1>3 DEF Turn
    <3>4. Bears(e, e.result)
      BY <2>3 DEF Bears, Birth, NameOf
    <3>5. e.result \in Id /\ instance_map[e.result] = 0
      BY <1>2, <2>1, <3>3, <3>4, VacantName
    <3>6. /\ instances' = Append(instances, [id |-> e.result, state |-> "Acquired"])
          /\ instance_map' = [instance_map EXCEPT ![e.result] = Len(instances) + 1]
      BY <3>2, <3>5 DEF S!AddIfVacant, S!Known, S!NewInstance
    <3>7. Acquires(graph) \cap Until(graph, k + 1) = B \cup {k}
      BY <1>3, <2>3 DEF Acquires
    <3> DEFINE x == e.result
               state == "Acquired"
    <3>8. /\ x \in Id /\ instance_map[x] = 0
          /\ \/ Bears(graph.edges[k], x) /\ state = "Acquired"
             \/ graph.edges[k].effect = "EscapesToCallback" /\ graph.edges[k].source = x
                  /\ state = "Borrowed"
      BY <3>4, <3>5
    <3> HIDE DEF B, x, state
    <3>9. Tracked(graph, Append(instances, [id |-> x, state |-> state]),
                  [instance_map EXCEPT ![x] = Len(instances) + 1], B \cup {k}, {})
      BY <1>2, <2>1, <3>3, <3>8, CreateStep
    <3> QED BY <3>6, <3>7, <3>9 DEF x, state
  <2> QED BY <2>2, <2>3
<1> QED BY <1>1, <1>4, <1>5 DEF SolverInv, IdsSuffice

LEMMA SolverTurning ==
  ASSUME BuilderInv, NameInv, SolverInv, SolverTurns
  PROVE  SolverInv'
<1>1. /\ pc = "built" /\ pc' = "built" /\ solver_pc = "acquires" /\ k > Len(graph.edges)
      /\ k' = 1 /\ graph' = graph
  BY DEF SolverTurns
<1>2. /\ solver_pc' = "effects" /\ UNCHANGED <<instances, instance_map>>
  BY DEF SolverTurns, S!AcquiresEnd
<1>3. GraphShape(graph) /\ k \in Nat \ {0}
  BY DEF BuilderInv, Linear
<1>4. /\ Acquires(graph) \cap Until(graph, k) = Acquires(graph)
      /\ Acquires(graph) \cup Until(graph, 1) = Acquires(graph) /\ Until(graph, 1) = {}
  BY <1>1, <1>3, UntilLaw
<1>5. ASSUME IdsSuffice
      PROVE  Tracked(graph, instances, instance_map, Acquires(graph) \cup Until(graph, 1),
                     Until(graph, 1))
  BY <1>1, <1>4, <1>5 DEF SolverInv
<1> QED BY <1>1, <1>2, <1>5 DEF SolverInv, IdsSuffice

LEMMA SolverStoring ==
  ASSUME BuilderInv, NameInv, SolverInv, SolverStores
  PROVE  SolverInv'
<1>1. /\ pc = "built" /\ pc' = pc /\ solver_pc = "effects" /\ k > Len(graph.edges) /\ graph' = graph
  BY DEF SolverStores, builderVars
<1>2. /\ solver_pc' = "stored" /\ UNCHANGED <<instances, instance_map>>
  BY DEF SolverStores, S!Store
<1>3. GraphShape(graph) /\ k \in Nat \ {0}
  BY DEF BuilderInv, Linear
<1>4. Until(graph, k) = DOMAIN graph.edges /\ Acquires(graph) \cup Until(graph, k) = DOMAIN graph.edges
  BY <1>1, <1>3, UntilLaw
<1>5. ASSUME IdsSuffice
      PROVE  Tracked(graph, instances, instance_map, DOMAIN graph.edges, DOMAIN graph.edges)
  BY <1>1, <1>4, <1>5 DEF SolverInv
<1> QED BY <1>1, <1>2, <1>5 DEF SolverInv, IdsSuffice

(* What is told of nobody changes nothing. *)
LEMMA ToldNobody ==
  ASSUME NEW is, NEW map, NEW y, NEW ev, Mapped(is, map), map[y] = 0
  PROVE  ToldIn(is, map, y, ev) = is
<1>1. Listed(is) /\ DOMAIN is = 1 .. Len(is) /\ Len(is) \in Nat
  BY ListedShape DEF Mapped
<1>2. \A n \in DOMAIN is : n # map[y]
  BY <1>1
<1>3. ToldIn(is, map, y, ev) = [n \in DOMAIN is |-> is[n]]
  BY <1>2 DEF ToldIn
<1>4. is = [n \in DOMAIN is |-> is[n]]
  BY DEF Mapped, Listed
<1> QED BY <1>3, <1>4

(* The edges of the second loop, by what they do to the instances. *)
Silent(e) ==
  /\ e.effect \in {"Acquire", "NullStoreAfterRelease", "NullGuardedRelease"}
  /\ UNCHANGED <<instances, instance_map>>

Telling(e) ==
  /\ e.effect \notin Birth /\ UNCHANGED instance_map
  /\ \E ev : Tells(e, ev) /\ instances' = ToldIn(instances, instance_map, e.source, ev)

CallingBack(e) ==
  /\ e.effect = "EscapesToCallback" /\ instance_map[e.source] = 0
  /\ instances' = Append(instances, [id |-> e.source, state |-> "Borrowed"])
  /\ instance_map' = [instance_map EXCEPT ![e.source] = Len(instances) + 1]

Renaming(e) ==
  /\ e.effect = "OwnershipEscape" /\ instance_map[e.source] # 0 /\ instance_map[e.result] = 0
  /\ instances' = ToldIn(instances, instance_map, e.source, "Escape")
  /\ instance_map' = [instance_map EXCEPT ![e.result] = instance_map[e.source]]

Reclaiming(e) ==
  /\ e.effect = "OwnershipReclaim"
  /\ S!AddIfVacant(ToldIn(instances, instance_map, e.source, "Release"), e.result, "Acquired")

Receiving(e) ==
  /\ e.effect = "OutParamOwnedOnSuccess"
  /\ S!AddIfVacant(instances, e.target, "Acquired")

LEMMA EffectShape ==
  ASSUME SolveEffect, NEW e, e = graph.edges[k], Proper(e)
  PROVE  /\ solver_pc' = "effects"
         /\ \/ Silent(e) \/ Telling(e) \/ CallingBack(e) \/ Renaming(e) \/ Reclaiming(e)
            \/ Receiving(e)
<1> DEFINE f == e.site.caller
           x == e.source
<1>1. solver_pc = "effects" /\ e.effect \in Effect
  BY DEF SolveEffect, Solving, Proper
<1>2. \A y, ev : S!Told(y, ev) = ToldIn(instances, instance_map, y, ev)
  BY DEF S!Told, ToldIn
<1>3. \A ev : S!Apply(x, ev) => instances' = ToldIn(instances, instance_map, x, ev)
  BY <1>2 DEF S!Apply
<1>4. CASE e.effect = "Acquire"
  BY <1>1, <1>4 DEF SolveEffect, Edge, PlainEvent, solverVars, Silent
<1>5. CASE e.effect = "Release"
  <2>1. S!Release(f, x, 0, e.site.callee \in DropLike)
    BY <1>5 DEF SolveEffect, Edge, PlainEvent
  <2>2. Tells(e, "Release")
    BY <1>5 DEF Tells, S!Event, S!After, S!Accepted, S!LeakCandidate, S!StateOf, EndState
  <2>3. Telling(e)
    BY <1>3, <1>5, <2>1, <2>2 DEF S!Release, Telling, Birth
  <2> QED BY <2>1, <2>3, <1>1 DEF S!Release, S!Edge
<1>6. CASE e.effect \in DOMAIN PlainEvent
  <2> DEFINE ev == PlainEvent[e.effect]
  <2>1. S!PlainEffect(x, ev)
    BY <1>6 DEF SolveEffect, Edge, PlainEvent
  <2>2. Tells(e, ev)
    <3>1. ev \in S!Event
      BY <1>6 DEF PlainEvent, S!Event
    <3>2. e.effect \in Passing => ev # "Retain"
      BY <1>6 DEF PlainEvent, Passing, Ending, ReleaseOrCross, Using
    <3>3. e.effect \in Ending => ev \in {"Release", "ConditionalRelease"} /\ e.effect # "OwnershipEscape"
      BY <1>6 DEF PlainEvent, Ending, ReleaseOrCross
    <3>4. \A v \in {"Release", "ConditionalRelease"} : S!After("Acquired", v) = "Released"
      BY DEF S!Event, S!After, S!Accepted, S!LeakCandidate, S!StateOf
    <3> QED BY <3>1, <3>2, <3>3, <3>4 DEF Tells, EndState
  <2>3. e.effect \notin Birth
    BY <1>6 DEF PlainEvent, Birth
  <2>4. Telling(e)
    BY <1>3, <2>1, <2>2, <2>3 DEF S!PlainEffect, Telling
  <2> QED BY <2>1, <2>4, <1>1 DEF S!PlainEffect, S!Edge
<1>7. CASE e.effect \in {"ReturnsOwned", "OutParamNullOnError", "NullGuardedRelease",
                         "NullStoreAfterRelease"}
  <2>1. e.effect \notin Passing \cup Birth
    BY <1>7 DEF Passing, Ending, ReleaseOrCross, Using, Birth
  <2>2. Tells(e, "Escape") /\ Tells(e, "ConditionalRelease")
    BY <2>1 DEF Tells, S!Event, Passing
  <2>3. CASE e.effect = "ReturnsOwned"
    <3>1. S!ReturnsOwned(f, x)
      BY <2>3 DEF SolveEffect, Edge, PlainEvent
    <3>2. Telling(e)
      BY <1>3, <2>1, <2>2, <3>1 DEF S!ReturnsOwned, Telling
    <3> QED BY <3>1, <3>2, <1>1 DEF S!ReturnsOwned, S!Edge
  <2>4. CASE e.effect = "OutParamNullOnError"
    <3>1. S!OutParamNullOnError(f, x, 0)
      BY <2>4 DEF SolveEffect, Edge, PlainEvent
    <3>2. Telling(e)
      BY <1>3, <2>1, <2>2, <3>1 DEF S!OutParamNullOnError, Telling
    <3> QED BY <3>1, <3>2, <1>1 DEF S!OutParamNullOnError, S!Edge
  <2>5. CASE e.effect = "NullGuardedRelease"
    <3>1. S!NullGuardedRelease(f, x, 0)
      BY <2>5 DEF SolveEffect, Edge, PlainEvent
    <3>2. Telling(e) \/ Silent(e)
      BY <1>3, <2>1, <2>2, <2>5, <3>1 DEF S!NullGuardedRelease, Telling, Silent
    <3> QED BY <3>1, <3>2, <1>1 DEF S!NullGuardedRelease, S!Edge
  <2>6. CASE e.effect = "NullStoreAfterRelease"
    <3>1. S!NullStoreAfterRelease(f, 0)
      BY <2>6 DEF SolveEffect, Edge, PlainEvent
    <3> QED BY <2>6, <3>1, <1>1 DEF S!NullStoreAfterRelease, S!Edge, Silent
  <2> QED BY <1>7, <2>3, <2>4, <2>5, <2>6
<1>8. CASE e.effect = "EscapesToCallback"
  <2>1. S!EscapesToCallback(x)
    BY <1>8 DEF SolveEffect, Edge, PlainEvent
  <2>2. Tells(e, "Escape")
    BY <1>8 DEF Tells, S!Event, Ending, ReleaseOrCross
  <2>3. CASE instance_map[x] # 0
    <3>1. Telling(e)
      BY <1>3, <1>8, <2>1, <2>2, <2>3 DEF S!EscapesToCallback, S!Known, Telling, Birth
    <3> QED BY <2>1, <3>1, <1>1 DEF S!EscapesToCallback, S!Edge
  <2>4. CASE instance_map[x] = 0
    <3>1. CallingBack(e)
      BY <1>8, <2>1, <2>4 DEF S!EscapesToCallback, S!AddIfVacant, S!Known, S!NewInstance, CallingBack
    <3> QED BY <2>1, <3>1, <1>1 DEF S!EscapesToCallback, S!Edge
  <2> QED BY <2>3, <2>4
<1>9. CASE e.effect = "OwnershipEscape"
  <2>1. S!OwnershipEscape(f, x, e.result)
    BY <1>9 DEF SolveEffect, Edge, PlainEvent
  <2>2. Tells(e, "Escape")
    BY <1>9 DEF Tells, S!Event, S!After, S!Accepted, S!LeakCandidate, S!StateOf, EndState
  <2>3. instances' = ToldIn(instances, instance_map, x, "Escape")
    BY <1>3, <2>1 DEF S!OwnershipEscape
  <2>4. CASE instance_map[x] # 0 /\ instance_map[e.result] = 0
    <3>1. Renaming(e)
      BY <1>9, <2>1, <2>3, <2>4 DEF S!OwnershipEscape, S!Known, Renaming
    <3> QED BY <2>1, <3>1, <1>1 DEF S!OwnershipEscape, S!Edge
  <2>5. CASE ~(instance_map[x] # 0 /\ instance_map[e.result] = 0)
    <3>1. UNCHANGED instance_map
      BY <2>1, <2>5 DEF S!OwnershipEscape, S!Known
    <3>2. Telling(e)
      BY <1>9, <2>2, <2>3, <3>1 DEF Telling, Birth
    <3> QED BY <2>1, <3>2, <1>1 DEF S!OwnershipEscape, S!Edge
  <2> QED BY <2>4, <2>5
<1>10. CASE e.effect = "OwnershipReclaim"
  <2>1. S!OwnershipReclaim(x, e.result)
    BY <1>10 DEF SolveEffect, Edge, PlainEvent
  <2>2. Reclaiming(e)
    BY <1>2, <1>10, <2>1 DEF S!OwnershipReclaim, Reclaiming
  <2> QED BY <2>1, <2>2, <1>1 DEF S!OwnershipReclaim, S!Edge
<1>11. CASE e.effect = "OutParamOwnedOnSuccess"
  <2>1. S!OutParamOwnedOnSuccess(f, e.target, 0)
    BY <1>11 DEF SolveEffect, Edge, PlainEvent
  <2>2. Receiving(e)
    BY <1>11, <2>1 DEF S!OutParamOwnedOnSuccess, Receiving
  <2> QED BY <2>1, <2>2, <1>1 DEF S!OutParamOwnedOnSuccess, S!Edge
<1>12. \/ e.effect \in {"Acquire", "Release"} \cup DOMAIN PlainEvent
       \/ e.effect \in {"ReturnsOwned", "OutParamNullOnError", "NullGuardedRelease",
                        "NullStoreAfterRelease"}
       \/ e.effect \in {"EscapesToCallback", "OwnershipEscape", "OwnershipReclaim",
                        "OutParamOwnedOnSuccess"}
  BY <1>1 DEF Effect, PlainEvent
<1> QED BY <1>4, <1>5, <1>6, <1>7, <1>8, <1>9, <1>10, <1>11, <1>12

(* An edge of the second loop: what it does, and the index after it. *)
LEMMA EffectTracked ==
  ASSUME BuilderInv, NameInv, SolverInv, SolveEffect, IdsSuffice
  PROVE  Tracked(graph, instances', instance_map', Acquires(graph) \cup Until(graph, k) \cup {k},
                 Until(graph, k) \cup {k})
<1> DEFINE e == graph.edges[k]
           B == Acquires(graph) \cup Until(graph, k)
           P == Until(graph, k)
           more == P \cup {k}
<1> SUFFICES Tracked(graph, instances', instance_map', B \cup {k}, more)
  OBVIOUS
<1>1. pc = "built" /\ solver_pc = "effects" /\ k <= Len(graph.edges)
  BY DEF SolveEffect, Solving
<1>2. Linear(graph) /\ GraphShape(graph) /\ Named(graph) /\ k \in Nat \ {0}
  BY DEF BuilderInv, NameInv, Linear
<1>3. /\ k \in DOMAIN graph.edges /\ k \notin P /\ P \subseteq DOMAIN graph.edges
      /\ \A i \in P : i < k
      /\ Acquires(graph) \subseteq DOMAIN graph.edges
  BY <1>1, <1>2, UntilLaw
<1>4. Tracked(graph, instances, instance_map, B, P) /\ InIds(graph)
  BY <1>1, AllInIds DEF SolverInv
<1>5. Turn(graph, B, P, k) /\ Turn(graph, B, more, k) /\ k \in more
  <2>1. \A i \in more : i \in Nat /\ i <= k
    BY <1>2, <1>3, ListedShape DEF GraphShape
  <2>2. \A d \in B : d < k \/ graph.edges[d].effect = "Acquire"
    BY <1>3 DEF Acquires
  <2>3. B \subseteq DOMAIN graph.edges
    BY <1>3
  <2> QED BY <1>3, <2>1, <2>2, <2>3 DEF Turn
<1>6. Proper(e)
  BY <1>3 DEF NameInv, Named
<1>7. \/ Silent(e) \/ Telling(e) \/ CallingBack(e) \/ Renaming(e) \/ Reclaiming(e) \/ Receiving(e)
  BY <1>6, EffectShape
<1>8. e.effect = "Acquire" => B \cup {k} = B
  BY <1>3 DEF Acquires
<1>9. e.effect \in Birth \ {"Acquire"} => k \notin B
  BY <1>3 DEF Acquires
<1> HIDE DEF B, P
<1>10. ASSUME e.effect \notin Birth, NEW is, NEW map, Tracked(graph, is, map, B, more)
       PROVE  Tracked(graph, is, map, B \cup {k}, more)
  BY <1>10, NothingNew
<1>11. \A ev : Tells(e, ev) =>
         Tracked(graph, ToldIn(instances, instance_map, e.source, ev), instance_map, B, more)
  BY <1>2, <1>3, <1>4, <1>5, TellStep DEF P
<1> HIDE DEF more
<1>12. CASE Silent(e)
  <2>1. UNCHANGED <<instances, instance_map>> /\ e.effect \notin Passing
    BY <1>12 DEF Silent, Passing, Ending, ReleaseOrCross, Using
  <2>2. Tracked(graph, instances, instance_map, B, more)
    BY <1>4, <2>1, NothingNew DEF more
  <2>3. Tracked(graph, instances, instance_map, B \cup {k}, more)
    BY <1>8, <1>10, <1>12, <2>2 DEF Silent, Birth
  <2> QED BY <2>1, <2>3
<1>13. CASE Telling(e)
  BY <1>10, <1>11, <1>13 DEF Telling
<1>14. CASE CallingBack(e)
  <2> DEFINE x == e.source
             state == "Borrowed"
  <2>1. Tells(e, "Escape")
    BY <1>14 DEF CallingBack, Tells, S!Event, Ending, ReleaseOrCross
  <2>2. ToldIn(instances, instance_map, x, "Escape") = instances
    BY <1>4, <1>14, ToldNobody DEF CallingBack, Tracked
  <2>3. Tracked(graph, instances, instance_map, B, more)
    BY <1>11, <2>1, <2>2
  <2>4. /\ x \in Id /\ instance_map[x] = 0
        /\ \/ Bears(graph.edges[k], x) /\ state = "Acquired"
           \/ graph.edges[k].effect = "EscapesToCallback" /\ graph.edges[k].source = x
                /\ state = "Borrowed"
        /\ graph.edges[k].effect # "Acquire"
    BY <1>3, <1>4, <1>14 DEF CallingBack, InIds
  <2>5. /\ instances' = Append(instances, [id |-> x, state |-> state])
        /\ instance_map' = [instance_map EXCEPT ![x] = Len(instances) + 1]
    BY <1>14 DEF CallingBack
  <2> HIDE DEF x, state
  <2>6. Tracked(graph, Append(instances, [id |-> x, state |-> state]),
                [instance_map EXCEPT ![x] = Len(instances) + 1], B \cup {k}, more)
    BY <1>2, <1>4, <1>5, <2>3, <2>4, CreateStep
  <2> QED BY <2>5, <2>6
<1>15. CASE Renaming(e)
  <2> DEFINE told == ToldIn(instances, instance_map, e.source, "Escape")
             y == e.source
             z == e.result
  <2>1. Tells(e, "Escape")
    BY <1>15 DEF Renaming, Tells, S!Event, S!After, S!Accepted, S!LeakCandidate, S!StateOf, EndState
  <2>2. Tracked(graph, told, instance_map, B, more)
    BY <1>11, <2>1
  <2>3. /\ graph.edges[k].effect = "OwnershipEscape" /\ graph.edges[k].source = y
        /\ graph.edges[k].result = z /\ instance_map[y] # 0 /\ instance_map[z] = 0
    BY <1>15 DEF Renaming
  <2>4. instances' = told /\ instance_map' = [instance_map EXCEPT ![z] = instance_map[y]]
    BY <1>15 DEF Renaming
  <2> HIDE DEF told, y, z
  <2>5. Tracked(graph, told, [instance_map EXCEPT ![z] = instance_map[y]], B \cup {k}, more)
    BY <1>2, <1>4, <1>5, <2>2, <2>3, AliasStep
  <2> QED BY <2>4, <2>5
<1>16. CASE Reclaiming(e) \/ Receiving(e)
  <2> DEFINE x == NameOf(e)
             state == "Acquired"
             told == IF Reclaiming(e) THEN ToldIn(instances, instance_map, e.source, "Release")
                                      ELSE instances
  <2>1. /\ e.effect \in Birth \ {"Acquire"}
        /\ S!AddIfVacant(told, x, state)
    BY <1>16 DEF Reclaiming, Receiving, NameOf, Birth
  <2>2. Bears(e, x)
    BY <2>1 DEF Bears
  <2>3. Tracked(graph, told, instance_map, B, more)
    <3>1. CASE Reclaiming(e)
      <4>1. Tells(e, "Release")
        BY <3>1 DEF Reclaiming, Tells, S!Event, S!After, S!Accepted, S!LeakCandidate, S!StateOf, EndState
      <4> QED BY <1>11, <3>1, <4>1
    <3>2. CASE ~Reclaiming(e)
      <4>1. e.effect \notin Passing
        BY <1>16, <3>2 DEF Receiving, Passing, Ending, ReleaseOrCross, Using
      <4> QED BY <1>4, <3>2, <4>1, NothingNew DEF more
    <3> QED BY <3>1, <3>2
  <2>4. k \notin B /\ x \in Id /\ instance_map[x] = 0
    BY <1>2, <1>4, <1>5, <1>9, <2>1, <2>2, VacantName
  <2>5. /\ instances' = Append(told, [id |-> x, state |-> state])
        /\ instance_map' = [instance_map EXCEPT ![x] = Len(told) + 1]
    BY <2>1, <2>4 DEF S!AddIfVacant, S!Known, S!NewInstance
  <2>6. /\ x \in Id /\ instance_map[x] = 0
        /\ \/ Bears(graph.edges[k], x) /\ state = "Acquired"
           \/ graph.edges[k].effect = "EscapesToCallback" /\ graph.edges[k].source = x
                /\ state = "Borrowed"
        /\ graph.edges[k].effect # "Acquire"
    BY <2>1, <2>2, <2>4
  <2> HIDE DEF x, state, told
  <2>7. Tracked(graph, Append(told, [id |-> x, state |-> state]),
                [instance_map EXCEPT ![x] = Len(told) + 1], B \cup {k}, more)
    BY <1>2, <1>4, <1>5, <2>3, <2>6, CreateStep
  <2> QED BY <2>5, <2>7
<1> QED BY <1>7, <1>12, <1>13, <1>14, <1>15, <1>16

LEMMA SolverEffects ==
  ASSUME BuilderInv, NameInv, SolverInv, SolveEffect
  PROVE  SolverInv'
<1>1. /\ pc = "built" /\ pc' = "built" /\ solver_pc = "effects" /\ k <= Len(graph.edges)
      /\ k' = k + 1 /\ graph' = graph
  BY DEF SolveEffect, Solving
<1>2. GraphShape(graph) /\ Named(graph) /\ k \in Nat \ {0}
  BY DEF BuilderInv, NameInv, Linear
<1>3. k \in DOMAIN graph.edges /\ Until(graph, k + 1) = Until(graph, k) \cup {k}
  BY <1>1, <1>2, UntilLaw
<1>4. Proper(graph.edges[k])
  BY <1>3 DEF NameInv, Named
<1>5. solver_pc' = "effects"
  BY <1>4, EffectShape
<1>6. Acquires(graph) \cup Until(graph, k + 1) = Acquires(graph) \cup Until(graph, k) \cup {k}
  BY <1>3
<1>7. IdsSuffice => Tracked(graph, instances', instance_map', Acquires(graph) \cup Until(graph, k + 1),
                            Until(graph, k + 1))
  BY <1>3, <1>6, EffectTracked
<1> QED BY <1>1, <1>5, <1>7 DEF SolverInv, IdsSuffice

LEMMA SolverInit ==
  ASSUME Init
  PROVE  SolverInv
<1>1. /\ pc = "facts" /\ solver_pc = "acquires" /\ instances = <<>>
      /\ instance_map = [x \in Id |-> 0]
  BY DEF Init, BuilderInit, S!Init
<1> QED BY <1>1 DEF SolverInv

LEMMA SolverStep ==
  ASSUME BuilderInv, NameInv, SolverInv, [Next]_vars
  PROVE  SolverInv'
<1>1. CASE Build
  BY <1>1, SolverBefore
<1>2. CASE SolveAcquire
  BY <1>2, SolverAcquires
<1>3. CASE SolverTurns
  BY <1>3, SolverTurning
<1>4. CASE SolveEffect
  BY <1>4, SolverEffects
<1>5. CASE SolverStores
  BY <1>5, SolverStoring
<1>6. CASE FindCandidates
  <2>1. /\ pc' = "done" /\ solver_pc = "stored"
        /\ UNCHANGED <<graph, k, solver_pc, instances, instance_map>>
    BY <1>6 DEF FindCandidates, solverVars
  <2> QED BY <2>1 DEF SolverInv, IdsSuffice
<1>7. CASE UNCHANGED vars
  <2>1. UNCHANGED <<pc, graph, k, solver_pc, instances, instance_map>>
    BY <1>7 DEF vars, builderVars, solverVars
  <2> QED BY <2>1 DEF SolverInv, IdsSuffice
<1> QED BY <1>1, <1>2, <1>3, <1>4, <1>5, <1>6, <1>7 DEF Next

-----------------------------------------------------------------------------
(* The memory graph. *)

LEMMA MemorySteps ==
  ASSUME NEW es, Len(es) \in Nat
  PROVE  \E f : /\ f[0] = <<>>
                /\ \A n \in 1 .. Len(es) : f[n] = MemoryAfter(f[n - 1], es[n])
                /\ MemoryOf(es) = f[Len(es)]
<1> DEFINE last == Len(es)
           Rec(f, m) == f = [n \in 0 .. m |-> IF n = 0 THEN <<>> ELSE MemoryAfter(f[n - 1], es[n])]
           T == {m \in Nat : \E f : Rec(f, m)}
<1>1. 0 \in T
  <2>1. Rec([n \in 0 .. 0 |-> <<>>], 0)
    OBVIOUS
  <2> QED BY <2>1
<1>2. ASSUME NEW m \in 0 .. last - 1, m \in T PROVE m + 1 \in T
  <2>1. PICK f : Rec(f, m)
    BY <1>2
  <2> DEFINE top == MemoryAfter(f[m], es[m + 1])
             h == [n \in 0 .. m + 1 |-> IF n = m + 1 THEN top ELSE f[n]]
             next(n) == IF n = 0 THEN <<>> ELSE MemoryAfter(h[n - 1], es[n])
  <2>2. m \in Nat /\ m + 1 \in Nat /\ h[m] = f[m]
    OBVIOUS
  <2>3. ASSUME NEW n \in 0 .. m + 1 PROVE h[n] = next(n)
    <3>1. CASE n = m + 1
      <4>1. n # 0 /\ n - 1 = m /\ h[n] = top
        BY <2>2, <3>1
      <4> HIDE DEF h, top
      <4>2. top = MemoryAfter(h[n - 1], es[n])
        BY <2>2, <3>1, <4>1 DEF top
      <4> QED BY <4>1, <4>2
    <3>2. CASE n # m + 1 /\ n # 0
      <4>1. n \in 0 .. m /\ n - 1 \in 0 .. m /\ n # m + 1 /\ n - 1 # m + 1
        BY <2>2, <3>2
      <4>2. h[n] = f[n] /\ h[n - 1] = f[n - 1]
        BY <4>1, <2>2
      <4>3. f[n] = MemoryAfter(f[n - 1], es[n])
        BY <2>1, <3>2, <4>1
      <4> HIDE DEF h
      <4> QED BY <3>2, <4>2, <4>3
    <3>3. CASE n = 0
      <4>1. n \in 0 .. m /\ n # m + 1
        BY <2>2, <3>3
      <4> QED BY <2>1, <3>3, <4>1
    <3> QED BY <3>1, <3>2, <3>3
  <2>4. Rec(h, m + 1)
    <3>1. h = [n \in 0 .. m + 1 |-> h[n]]
      OBVIOUS
    <3> HIDE DEF h
    <3>2. [n \in 0 .. m + 1 |-> h[n]] = [n \in 0 .. m + 1 |-> next(n)]
      BY <2>3
    <3> QED BY <3>1, <3>2
  <2> HIDE DEF Rec, h
  <2> QED BY <2>2, <2>4
<1>3. last \in Nat
  OBVIOUS
<1>4. \E f : Rec(f, last)
  <2> HIDE DEF T
  <2>1. \A m \in 0 .. last : m \in T
    BY <1>1, <1>2, <1>3, Ascend
  <2>2. last \in T
    BY <1>3, <2>1
  <2> QED BY <2>2 DEF T
<1> DEFINE f == CHOOSE f : Rec(f, last)
<1>5. Rec(f, last)
  BY <1>4, Zenon
<1>6. MemoryOf(es) = f[last]
  BY DEF MemoryOf
<1> HIDE DEF f
<1>7. f[0] = <<>>
  BY <1>3, <1>5
<1>8. ASSUME NEW n \in 1 .. last PROVE f[n] = MemoryAfter(f[n - 1], es[n])
  <2>1. n \in 0 .. last /\ n # 0
    BY <1>3
  <2> QED BY <1>5, <2>1
<1> QED BY <1>6, <1>7, <1>8

(* What m holds, the first n edges put there. *)
Recorded(es, n, m) ==
  \A x \in DOMAIN m :
    /\ \E i \in 1 .. n : es[i].effect = "Acquire" /\ es[i].result = x
    /\ m[x] \in {"Owned", "Released", "EscapedToCaller"}
    /\ m[x] = "Released" => \E j \in 1 .. n : es[j].effect = "Release" /\ es[j].source = x
    /\ m[x] = "EscapedToCaller" =>
         \E j \in 1 .. n : es[j].effect = "OwnershipEscape" /\ es[j].source = x

LEMMA RecordedAfter ==
  ASSUME NEW es, NEW n \in Nat, NEW m, Recorded(es, n, m)
  PROVE  Recorded(es, n + 1, MemoryAfter(m, es[n + 1]))
<1> DEFINE e == es[n + 1]
           more == MemoryAfter(m, e)
<1>1. n + 1 \in 1 .. n + 1 /\ \A i \in 1 .. n : i \in 1 .. n + 1
  OBVIOUS
<1>2. Recorded(es, n + 1, m)
  BY <1>1 DEF Recorded
<1> HIDE DEF e
<1>3. CASE e.effect = "Acquire"
  <2>1. more = With(m, e.result, "Owned")
    BY <1>3 DEF MemoryAfter
  <2>2. /\ DOMAIN more = DOMAIN m \cup {e.result}
        /\ more[e.result] = "Owned"
        /\ \A x \in DOMAIN m : x # e.result => more[x] = m[x]
    BY <2>1 DEF With
  <2> HIDE DEF more
  <2> SUFFICES Recorded(es, n + 1, more)
    BY DEF more, e
  <2> QED BY <1>1, <1>2, <1>3, <2>2 DEF Recorded, e
<1>4. CASE e.effect = "Release" /\ e.source \in DOMAIN m
  <2>1. more = [m EXCEPT ![e.source] = "Released"]
    BY <1>4 DEF MemoryAfter
  <2>2. /\ DOMAIN more = DOMAIN m
        /\ more[e.source] = "Released"
        /\ \A x \in DOMAIN m : x # e.source => more[x] = m[x]
    BY <1>4, <2>1
  <2> HIDE DEF more
  <2> SUFFICES Recorded(es, n + 1, more)
    BY DEF more, e
  <2> QED BY <1>1, <1>2, <1>4, <2>2 DEF Recorded, e
<1>5. CASE e.effect = "OwnershipEscape" /\ e.source \in DOMAIN m
  <2>1. more = [m EXCEPT ![e.source] = "EscapedToCaller"]
    BY <1>5 DEF MemoryAfter
  <2>2. /\ DOMAIN more = DOMAIN m
        /\ more[e.source] = "EscapedToCaller"
        /\ \A x \in DOMAIN m : x # e.source => more[x] = m[x]
    BY <1>5, <2>1
  <2> HIDE DEF more
  <2> SUFFICES Recorded(es, n + 1, more)
    BY DEF more, e
  <2> QED BY <1>1, <1>2, <1>5, <2>2 DEF Recorded, e
<1>6. CASE /\ e.effect # "Acquire"
           /\ ~(e.effect = "Release" /\ e.source \in DOMAIN m)
           /\ ~(e.effect = "OwnershipEscape" /\ e.source \in DOMAIN m)
  <2>1. more = m
    BY <1>6 DEF MemoryAfter
  <2> HIDE DEF more
  <2> SUFFICES Recorded(es, n + 1, more)
    BY DEF more, e
  <2> QED BY <1>2, <2>1
<1> QED BY <1>3, <1>4, <1>5, <1>6

LEMMA MemoryLaw ==
  ASSUME NEW es, Listed(es)
  PROVE  Recorded(es, Len(es), MemoryOf(es))
<1>1. Len(es) \in Nat
  BY ListedShape
<1>2. PICK f : /\ f[0] = <<>>
               /\ \A n \in 1 .. Len(es) : f[n] = MemoryAfter(f[n - 1], es[n])
               /\ MemoryOf(es) = f[Len(es)]
  BY <1>1, MemorySteps
<1> DEFINE last == Len(es)
           T == {n \in Nat : Recorded(es, n, f[n])}
<1>3. 0 \in T
  <2>1. DOMAIN <<>> = {}
    OBVIOUS
  <2> QED BY <1>2, <2>1 DEF Recorded
<1>4. ASSUME NEW n \in 0 .. last - 1, n \in T PROVE n + 1 \in T
  <2>1. n \in Nat /\ n + 1 \in 1 .. last /\ (n + 1) - 1 = n
    BY <1>1
  <2>2. f[n + 1] = MemoryAfter(f[n], es[n + 1])
    BY <1>2, <2>1
  <2>3. Recorded(es, n + 1, f[n + 1])
    BY <1>4, <2>1, <2>2, RecordedAfter
  <2> QED BY <2>1, <2>3
<1>5. last \in T
  <2> HIDE DEF T
  <2>1. last \in Nat
    BY <1>1
  <2> HIDE DEF last
  <2>2. \A n \in 0 .. last : n \in T
    BY <1>3, <1>4, <2>1, Ascend
  <2> QED BY <2>1, <2>2
<1> QED BY <1>2, <1>5

MemoryInv == pc \in {"built", "done"} => memory = MemoryOf(graph.edges)

LEMMA MemoryStep ==
  ASSUME MemoryInv, [Next]_vars
  PROVE  MemoryInv'
<1>1. CASE FillMemoryGraph
  BY <1>1 DEF FillMemoryGraph, MemoryInv
<1>2. CASE \/ CallFact \/ CallFactsEnd \/ DeclaredFact \/ DeclaredFactsEnd \/ NextCaller
           \/ AcquireEdges \/ ReleaseOne \/ ReleasesEnd \/ EscapeOne \/ EscapesEnd \/ ReclaimOne
           \/ ReclaimsEnd \/ CallbackOne \/ CallersEnd \/ Propagate \/ PropagateEnd \/ PostFreeOne
  <2>1. pc' \notin {"built", "done"}
    BY <1>2
       DEF CallFact, CallFactsEnd, DeclaredFact, DeclaredFactsEnd, NextCaller, AcquireEdges,
           ReleaseOne, ReleasesEnd, EscapeOne, EscapesEnd, ReclaimOne, ReclaimsEnd, CallbackOne,
           CallersEnd, Propagate, PropagateEnd, PostFreeOne, Continue
  <2> QED BY <2>1 DEF MemoryInv
<1>3. CASE ScanAcquire \/ ScanReclaim \/ ScanRelease \/ ScanEscape \/ ScanOther \/ ScanSummary
  <2>1. pc' \notin {"built", "done"}
    BY <1>3 DEF ScanAcquire, ScanReclaim, ScanRelease, ScanEscape, ScanOther, ScanSummary, Scanning
  <2> QED BY <2>1 DEF MemoryInv
<1>4. CASE SolveAcquire \/ SolverTurns \/ SolveEffect \/ SolverStores \/ FindCandidates
  <2>1. pc = "built" /\ UNCHANGED <<graph, memory>>
    BY <1>4 DEF SolveAcquire, SolverTurns, SolveEffect, SolverStores, FindCandidates, Solving, builderVars
  <2> QED BY <2>1 DEF MemoryInv
<1>5. CASE UNCHANGED vars
  <2>1. UNCHANGED <<pc, graph, memory>>
    BY <1>5 DEF vars, builderVars
  <2> QED BY <2>1 DEF MemoryInv
<1> QED BY <1>1, <1>2, <1>3, <1>4, <1>5 DEF Next, Build, BuilderNext

-----------------------------------------------------------------------------
(* What the finished solver says, and what is made of it. *)

Final(g, is, map) ==
  /\ Linear(g) /\ Named(g) /\ InIds(g)
  /\ Tracked(g, is, map, DOMAIN g.edges, DOMAIN g.edges)

PassedBy(g, i) == \E j \in DOMAIN g.edges : Passes(g, i, j)

LEMMA FinalStates ==
  ASSUME NEW g, NEW is, NEW map, Final(g, is, map)
  PROVE  /\ \A n \in DOMAIN is : is[n].id \in Id /\ map[is[n].id] = n
                                 /\ is[n].state \in Over \cup {"Acquired"}
         /\ \A i \in DOMAIN g.edges : \A x : Bears(g.edges[i], x) =>
              x \in Id /\ map[x] \in DOMAIN is /\ is[map[x]].id = x
         /\ \A i \in DOMAIN g.edges, n \in DOMAIN is : Bears(g.edges[i], is[n].id) =>
              (is[n].state = "Acquired" <=> ~PassedBy(g, i))
         /\ \A n \in DOMAIN is : is[n].state = "Acquired" =>
              \E i \in DOMAIN g.edges : Bears(g.edges[i], is[n].id)
<1> DEFINE D == DOMAIN g.edges
<1>1. /\ Mapped(is, map) /\ BornOwned(g, is, map, D) /\ OthersOver(g, is, map, D)
      /\ OwnedUntilPassed(g, is, map, D, D)
  BY DEF Final, Tracked
<1>2. \A n \in DOMAIN is : /\ is[n].id \in Id /\ map[is[n].id] = n /\ n # 0
                           /\ is[n].state \in Over \cup {"Acquired"}
  BY <1>1, ListedShape DEF Mapped
<1>3. ASSUME NEW i \in DOMAIN g.edges, NEW x, Bears(g.edges[i], x)
      PROVE  x \in Id /\ map[x] \in DOMAIN is /\ is[map[x]].id = x
  <2>1. x \in Id
    BY <1>3 DEF Final, InIds, Bears, NameOf
  <2>2. map[x] # 0 /\ is[map[x]].id = x
    BY <1>1, <1>3, <2>1 DEF BornOwned
  <2> QED BY <1>1, <2>1, <2>2 DEF Mapped
<1>4. "Acquired" \notin Over
  BY DEF Over
<1>5. ASSUME NEW i \in DOMAIN g.edges, NEW n \in DOMAIN is, Bears(g.edges[i], is[n].id)
      PROVE  is[n].state = "Acquired" <=> ~PassedBy(g, i)
  <2> DEFINE x == is[n].id
  <2>1. x \in Id /\ StateFor(is, map, x) = is[n].state
    BY <1>2 DEF StateFor
  <2>2. /\ (\E j \in D : Passes(g, i, j)) => is[n].state \in Over
        /\ ~(\E j \in D : Passes(g, i, j)) => is[n].state = "Acquired"
    BY <1>1, <1>5, <2>1 DEF OwnedUntilPassed
  <2> QED BY <1>4, <2>2 DEF PassedBy
<1>6. ASSUME NEW n \in DOMAIN is, is[n].state = "Acquired"
      PROVE  \E i \in DOMAIN g.edges : Bears(g.edges[i], is[n].id)
  <2> DEFINE x == is[n].id
  <2>1. x \in Id /\ map[x] # 0 /\ StateFor(is, map, x) = is[n].state
    BY <1>2 DEF StateFor
  <2> QED BY <1>1, <1>4, <1>6, <2>1 DEF OthersOver
<1> QED BY <1>2, <1>3, <1>5, <1>6

(* The memory graph has the same ends. *)
LEMMA FinalMemory ==
  ASSUME NEW g, NEW is, NEW map, Final(g, is, map), NEW x \in DOMAIN MemoryOf(g.edges),
         NEW n \in DOMAIN is, is[n].id = x
  PROVE  LET m == MemoryOf(g.edges)
             s == is[n].state IN
         /\ m[x] = "Released" => s = "Released"
         /\ m[x] = "EscapedToCaller" => s \in {"Escaped", "Released"}
         /\ s \in S!LeakCandidate => m[x] = "Owned"
<1> DEFINE m == MemoryOf(g.edges)
           s == is[n].state
           D == DOMAIN g.edges
<1>1. /\ Listed(g.edges) /\ D = 1 .. Len(g.edges)
  BY ListedShape DEF Final, Linear, GraphShape
<1>2. Recorded(g.edges, Len(g.edges), m)
  BY <1>1, MemoryLaw
<1> HIDE DEF m
<1>3. PICK i \in D : g.edges[i].effect = "Acquire" /\ g.edges[i].result = x
  BY <1>1, <1>2 DEF Recorded, m
<1>4. /\ m[x] \in {"Owned", "Released", "EscapedToCaller"}
      /\ m[x] = "Released" => \E j \in D : g.edges[j].effect = "Release" /\ g.edges[j].source = x
      /\ m[x] = "EscapedToCaller" =>
           \E j \in D : g.edges[j].effect = "OwnershipEscape" /\ g.edges[j].source = x
  BY <1>1, <1>2 DEF Recorded, m
<1>5. /\ is[n].id \in Id /\ map[is[n].id] = n /\ is[n].state \in Over \cup {"Acquired"}
  BY FinalStates
<1>6. StateFor(is, map, x) = s
  BY <1>5 DEF StateFor
<1>7. \A j \in D : g.edges[j].effect \in Ending /\ g.edges[j].source = x => s \in EndState(g.edges[j].effect)
  BY <1>3, <1>6 DEF Final, Tracked, EndsTold
<1>8. m[x] = "Released" => s = "Released"
  BY <1>4, <1>7 DEF Ending, ReleaseOrCross, EndState
<1>9. m[x] = "EscapedToCaller" => s \in {"Escaped", "Released"}
  BY <1>4, <1>7 DEF Ending, EndState
<1>10. s \in S!LeakCandidate => m[x] = "Owned"
  <2>1. S!LeakCandidate = {"Acquired", "Retained"}
    BY DEF S!LeakCandidate
  <2> QED BY <1>4, <1>5, <1>8, <1>9, <2>1 DEF Over
<1> QED BY <1>8, <1>9, <1>10 DEF m

(* Of the candidates, only those of the last rule are leaks. *)
LEMMA GroupKinds ==
  ASSUME NEW is, NEW x, NEW c \in GroupCandidates(is, x)
  PROVE  c.kind # "ConditionalLeak"
<1>1. CASE c \in CrossFamilyFree(x) \cup CrossFamilyReclaim(x)
  BY <1>1 DEF CrossFamilyFree, CrossFamilyReclaim, Candidate
<1>2. CASE c \in DoubleRelease(x)
  BY <1>2 DEF DoubleRelease
<1>3. CASE c \in BorrowedCandidates(is, x)
  <2>1. c \in BorrowEscape(is, x) \/
        c \in {Candidate("InvalidBorrowedFree", x, es) :
          es \in {EdgesOf(x, Freeing) : s \in InstanceState(is, x)} \ {{}}}
    BY <1>3 DEF BorrowedCandidates
  <2> QED BY <2>1 DEF BorrowEscape, Candidate
<1>4. CASE c \in UseAfterFree(is, x)
  BY <1>4 DEF UseAfterFree, Candidate
<1>5. CASE c \in DoubleReclaim(x) \cup NeedsModel(x)
  BY <1>5 DEF DoubleReclaim, NeedsModel, Candidate
<1>6. CASE c \in OwnershipEscapeLeak(x)
  BY <1>6 DEF OwnershipEscapeLeak, Candidate
<1> QED BY <1>1, <1>2, <1>3, <1>4, <1>5, <1>6 DEF GroupCandidates

(* The function of an instance is that of the edge it was born at. *)
LEMMA BornIn ==
  ASSUME GraphShape(graph), Named(graph), NEW i \in DOMAIN graph.edges, NEW x, Bears(graph.edges[i], x)
  PROVE  BirthOf(x) = {i} /\ InstanceFunction(x) = SiteOf(i).caller
<1>1. \A j \in DOMAIN graph.edges : j \in BirthOf(x) <=> Bears(graph.edges[j], x)
  BY DEF BirthOf, Bears, Birth, NameOf
<1>2. BirthOf(x) \subseteq DOMAIN graph.edges
  BY DEF BirthOf
<1>3. BirthOf(x) = {i}
  BY <1>1, <1>2, BornOnce
<1>4. i \in Nat
  BY ListedShape DEF GraphShape
<1>5. {i} \subseteq Nat /\ {i} # {}
  BY <1>4
<1>6. Min({i}) = i
  BY <1>5, FirstOf
<1>7. ~BornBorrowed(x)
  BY <1>3 DEF BornBorrowed
<1> QED BY <1>3, <1>6, <1>7 DEF InstanceFunction

ReportedLeaks(found) == {c.instance : c \in {d \in found : d.kind = "ConditionalLeak"}}

LEMMA LeaksAreThese ==
  ASSUME NEW is
  PROVE  ReportedLeaks(IssueCandidates(is))
         = {is[n].id : n \in {j \in DOMAIN is : /\ is_leak_candidate(is[j])
                                               /\ InstanceFunction(is[j].id) \notin MayLeak}}
<1> DEFINE Leak(n) == Candidate("ConditionalLeak", is[n].id, {})
<1>1. \A n : /\ Leak(n).kind = "ConditionalLeak" /\ Leak(n).instance = is[n].id
             /\ FiledUnder(Leak(n)) = {InstanceFunction(is[n].id)}
  BY DEF Candidate, FiledUnder
<1>2. ASSUME NEW c, c.kind = "ConditionalLeak"
      PROVE  c \in IssueCandidates(is) <=>
               \E n \in DOMAIN is : /\ is_leak_candidate(is[n])
                                    /\ InstanceFunction(is[n].id) \notin MayLeak
                                    /\ c = Leak(n)
  <2> DEFINE grouped == UNION {GroupCandidates(is, x) : x \in Groups}
  <2>1. c \notin grouped
    <3>1. ASSUME NEW x \in Groups, c \in GroupCandidates(is, x) PROVE FALSE
      BY <1>2, <3>1, GroupKinds
    <3> QED BY <3>1
  <2>2. c \in IssueCandidates(is) <=> c \in ConditionalLeaks(is) /\ FiledUnder(c) \cap Shim = {}
    <3>1. c \in IssueCandidates(is) <=>
            c \in grouped \cup ConditionalLeaks(is) /\ FiledUnder(c) \cap Shim = {}
      BY DEF IssueCandidates
    <3> HIDE DEF grouped
    <3> QED BY <2>1, <3>1
  <2>3. c \in ConditionalLeaks(is) <=>
          \E n \in DOMAIN is : /\ is_leak_candidate(is[n])
                               /\ InstanceFunction(is[n].id) \notin StdLibrary \cup NonAllocator
                               /\ c = Leak(n)
    BY DEF ConditionalLeaks
  <2> HIDE DEF Leak
  <2>4. \A n : c = Leak(n) => (FiledUnder(c) \cap Shim = {} <=> InstanceFunction(is[n].id) \notin Shim)
    BY <1>1
  <2> QED BY <2>2, <2>3, <2>4 DEF MayLeak
<1> HIDE DEF Leak
<1>3. ASSUME NEW x \in ReportedLeaks(IssueCandidates(is))
      PROVE  \E n \in DOMAIN is : /\ is_leak_candidate(is[n])
                                  /\ InstanceFunction(is[n].id) \notin MayLeak
                                  /\ x = is[n].id
  <2>1. PICK c \in IssueCandidates(is) : c.kind = "ConditionalLeak" /\ c.instance = x
    BY DEF ReportedLeaks
  <2> QED BY <1>1, <1>2, <2>1
<1>4. ASSUME NEW n \in DOMAIN is, is_leak_candidate(is[n]), InstanceFunction(is[n].id) \notin MayLeak
      PROVE  is[n].id \in ReportedLeaks(IssueCandidates(is))
  <2>1. Leak(n) \in IssueCandidates(is)
    BY <1>1, <1>2, <1>4
  <2> QED BY <1>1, <2>1 DEF ReportedLeaks
<1> QED BY <1>3, <1>4

LEMMA LeaksFound ==
  ASSUME Final(graph, instances, instance_map)
  PROVE  ReportedLeaks(IssueCandidates(instances))
         = {BornAs(i) : i \in {j \in Births : ~PassedOn(j) /\ SiteOf(j).caller \notin MayLeak}}
<1> DEFINE is == instances
           Leaking(n) == is_leak_candidate(is[n]) /\ InstanceFunction(is[n].id) \notin MayLeak
<1>1. GraphShape(graph) /\ Named(graph)
  BY DEF Final, Linear
<1>2. /\ \A n \in DOMAIN is : is[n].state \in Over \cup {"Acquired"}
      /\ \A i \in DOMAIN graph.edges : \A x : Bears(graph.edges[i], x) =>
           instance_map[x] \in DOMAIN is /\ is[instance_map[x]].id = x
      /\ \A i \in DOMAIN graph.edges, n \in DOMAIN is : Bears(graph.edges[i], is[n].id) =>
           (is[n].state = "Acquired" <=> ~PassedBy(graph, i))
      /\ \A n \in DOMAIN is : is[n].state = "Acquired" =>
           \E i \in DOMAIN graph.edges : Bears(graph.edges[i], is[n].id)
  BY FinalStates
<1>3. \A n \in DOMAIN is : is_leak_candidate(is[n]) <=> is[n].state = "Acquired"
  BY <1>2 DEF is_leak_candidate, Over
<1>4. \A i \in DOMAIN graph.edges : BornAs(i) = NameOf(graph.edges[i])
  BY DEF BornAs, NameOf, EdgeIs, InstanceOf
<1>5. \A i : i \in Births <=> i \in DOMAIN graph.edges /\ graph.edges[i].effect \in Birth
  BY DEF Births, EdgeIs, Birth
<1>6. ASSUME NEW i \in DOMAIN graph.edges
      PROVE  PassedOn(i) <=> PassedBy(graph, i)
  <2>1. \A j \in DOMAIN graph.edges :
          (/\ EdgeIs(j, Ending \cup {"ConsumesArg", "EscapesToCallback"})
           /\ graph.edges[j].source = BornAs(i)
           /\ EdgeIs(i, {"Acquire"}) \/ i < j)
          <=> Passes(graph, i, j)
    BY <1>4 DEF EdgeIs, Passes, Passing, Using
  <2> QED BY <2>1 DEF PassedOn, PassedBy
<1>7. \A i \in DOMAIN graph.edges : \A x :
        Bears(graph.edges[i], x) => InstanceFunction(x) = SiteOf(i).caller
  BY <1>1, BornIn
<1> HIDE DEF is
<1>8. ASSUME NEW n \in DOMAIN is, Leaking(n)
      PROVE  \E i \in Births : /\ ~PassedOn(i) /\ SiteOf(i).caller \notin MayLeak
                               /\ is[n].id = BornAs(i)
  <2>1. PICK i \in DOMAIN graph.edges : Bears(graph.edges[i], is[n].id)
    BY <1>2, <1>3, <1>8
  <2>2. ~PassedOn(i) /\ SiteOf(i).caller \notin MayLeak
    BY <1>2, <1>3, <1>6, <1>7, <1>8, <2>1
  <2>3. i \in Births /\ is[n].id = BornAs(i)
    BY <1>4, <1>5, <2>1 DEF Bears
  <2> QED BY <2>2, <2>3
<1>9. ASSUME NEW i \in Births, ~PassedOn(i), SiteOf(i).caller \notin MayLeak
      PROVE  \E n \in DOMAIN is : Leaking(n) /\ BornAs(i) = is[n].id
  <2> DEFINE x == BornAs(i)
             n == instance_map[x]
  <2>1. i \in DOMAIN graph.edges /\ Bears(graph.edges[i], x)
    BY <1>4, <1>5 DEF Bears
  <2>2. n \in DOMAIN is /\ is[n].id = x
    BY <1>2, <2>1
  <2>3. is[n].state = "Acquired"
    BY <1>2, <1>6, <1>9, <2>1, <2>2
  <2>4. InstanceFunction(is[n].id) \notin MayLeak
    BY <1>7, <1>9, <2>1, <2>2
  <2> QED BY <1>3, <2>2, <2>3, <2>4
<1>10. ReportedLeaks(IssueCandidates(is)) = {is[n].id : n \in {j \in DOMAIN is : Leaking(j)}}
  BY LeaksAreThese
<1> HIDE DEF Leaking
<1>11. ReportedLeaks(IssueCandidates(is))
       = {BornAs(i) : i \in {j \in Births : ~PassedOn(j) /\ SiteOf(j).caller \notin MayLeak}}
  BY <1>8, <1>9, <1>10
<1> QED BY <1>11 DEF is

(* A use after a free makes a candidate. *)
LEMMA LateUseFound ==
  ASSUME Final(graph, instances, instance_map), NEW i \in DOMAIN graph.edges, By(i) = "use",
         InstanceFunction(graph.edges[i].source) \notin Shim
  PROVE  \E c \in IssueCandidates(instances) : c.kind = "UseAfterFree" /\ i \in c.edges
<1> DEFINE x == graph.edges[i].source
           releases == EdgesOf(x, Freeing)
           uses == UsesAfter(x, releases)
           c == Candidate("UseAfterFree", x, uses)
<1>1. GraphShape(graph) /\ Named(graph) /\ OneEnd(graph)
  BY DEF Final, Linear
<1>2. LateUse(graph, i)
  BY <1>1 DEF Named, By, SiteOf
<1>3. PICK a \in DOMAIN graph.edges : /\ graph.edges[a].effect = "Acquire"
                                      /\ graph.edges[a].result = x
  BY <1>2 DEF LateUse
<1>4. PICK r \in DOMAIN graph.edges : /\ r < i /\ graph.edges[r].effect \in Freeing
                                      /\ graph.edges[r].source = x
  BY <1>2 DEF LateUse
<1>5. x # 0 /\ Bears(graph.edges[a], x)
  <2>1. Proper(graph.edges[a])
    BY <1>1 DEF Named
  <2> QED BY <1>3, <2>1 DEF Proper, Bears, Birth, NameOf
<1>6. /\ x \in Groups
      /\ r \in releases
  <2>1. x \in GroupsOf(graph.edges[a])
    BY <1>3 DEF GroupsOf
  <2>2. x \in GroupsOf(graph.edges[r])
    BY <1>4 DEF GroupsOf, Freeing
  <2> QED BY <1>4, <2>1, <2>2 DEF Groups, EdgesOf
<1>7. ASSUME NEW j \in releases PROVE j = r
  <2>1. /\ j \in DOMAIN graph.edges /\ x \in GroupsOf(graph.edges[j])
        /\ graph.edges[j].effect \in Freeing
    BY DEF EdgesOf
  <2>2. graph.edges[j].source = x
    BY <2>1 DEF GroupsOf, Freeing
  <2>3. j \in Ends(graph, Acquired(graph, a)) /\ r \in Ends(graph, Acquired(graph, a))
    BY <1>3, <1>4, <2>1, <2>2 DEF Ends, Acquired, Ending, ReleaseOrCross, Freeing
  <2> QED BY <1>1, <1>3, <2>3 DEF OneEnd, Acquires
<1>8. i \in uses
  <2>1. graph.edges[i].effect = "ConsumesArg"
    BY <1>2 DEF LateUse
  <2>2. x \in GroupsOf(graph.edges[i])
    BY <1>5, <2>1 DEF GroupsOf
  <2>3. i \in EdgesOf(x, Use)
    BY <2>1, <2>2 DEF EdgesOf, Use
  <2> QED BY <1>4, <1>7, <2>3 DEF UsesAfter
<1>9. "Released" \in InstanceState(instances, x)
  <2>1. instance_map[x] \in DOMAIN instances /\ instances[instance_map[x]].id = x
    BY <1>5, FinalStates
  <2>2. EndsTold(graph, instances, instance_map, DOMAIN graph.edges, DOMAIN graph.edges)
    BY DEF Final, Tracked
  <2>3. graph.edges[r].effect \in Ending /\ EndState(graph.edges[r].effect) = {"Released"}
    BY <1>4 DEF Ending, ReleaseOrCross, Freeing, EndState
  <2>4. StateFor(instances, instance_map, x) = "Released"
    BY <1>3, <1>4, <2>2, <2>3 DEF EndsTold
  <2> QED BY <2>1, <2>4 DEF InstanceState, StateFor
<1>10. ~BornBorrowed(x)
  BY <1>3 DEF BornBorrowed, BirthOf
<1>11. c.kind = "UseAfterFree" /\ c.instance = x /\ c.edges = uses
  BY DEF Candidate
<1>12. c \in UseAfterFree(instances, x)
  BY <1>6, <1>8, <1>9, <1>10 DEF UseAfterFree
<1> HIDE DEF c, uses, releases
<1>13. c \in GroupCandidates(instances, x)
  BY <1>12 DEF GroupCandidates
<1>14. FiledUnder(c) = {InstanceFunction(x)}
  BY <1>11 DEF FiledUnder
<1>15. c \in IssueCandidates(instances)
  <2>1. c \in UNION {GroupCandidates(instances, y) : y \in Groups}
    BY <1>6, <1>13
  <2>2. FiledUnder(c) \cap Shim = {}
    BY <1>14 DEF x
  <2> QED BY <2>1, <2>2 DEF IssueCandidates
<1> QED BY <1>8, <1>11, <1>15

LEMMA StoredFinal ==
  ASSUME BuilderInv, NameInv, SolverInv, IdsSuffice, solver_pc = "stored"
  PROVE  Final(graph, instances, instance_map)
BY AllInIds DEF BuilderInv, NameInv, SolverInv, Final

(* What is said of the results, once they are there. *)
ResultInv == IdsSuffice => InstancesAgree /\ LateUsesReported

LEMMA ResultsFound ==
  ASSUME BuilderInv, NameInv, SolverInv, MemoryInv, FindCandidates, IdsSuffice'
  PROVE  InstancesAgree' /\ LateUsesReported'
<1>1. /\ pc = "built" /\ solver_pc = "stored" /\ candidates' = IssueCandidates(instances)
      /\ UNCHANGED <<graph, memory, instances>>
  BY DEF FindCandidates, solverVars
<1>2. IdsSuffice
  BY <1>1 DEF IdsSuffice
<1>3. Final(graph, instances, instance_map)
  BY <1>1, <1>2, StoredFinal
<1>4. memory = MemoryOf(graph.edges)
  BY <1>1 DEF MemoryInv
<1>5. LeaksAreUnconsumed'
  <2>1. ReportedLeaks(candidates')
        = {BornAs(i) : i \in {j \in Births : ~PassedOn(j) /\ SiteOf(j).caller \notin MayLeak}}
    BY <1>1, <1>3, LeaksFound
  <2>2. \A i : /\ BornAs(i)' = BornAs(i) /\ SiteOf(i)' = SiteOf(i)
               /\ PassedOn(i)' <=> PassedOn(i)
    BY <1>1 DEF BornAs, EdgeIs, InstanceOf, SiteOf, PassedOn
  <2>3. Births' = Births
    BY <1>1 DEF Births, EdgeIs
  <2> DEFINE leaking == {BornAs(i) : i \in {j \in Births : ~PassedOn(j) /\ SiteOf(j).caller \notin MayLeak}}
  <2>4. leaking' = leaking
    BY <2>2, <2>3
  <2>5. ReportedLeaks(candidates') = leaking'
    BY <2>1, <2>4
  <2> QED BY <2>5 DEF LeaksAreUnconsumed, ReportedLeaks
<1>6. MemoryGraphAgrees'
  <2>1. ASSUME NEW x \in DOMAIN memory, NEW s \in InstanceState(instances, x)
        PROVE  /\ memory[x] = "Released" => s = "Released"
               /\ memory[x] = "EscapedToCaller" => s \in {"Escaped", "Released"}
               /\ s \in S!LeakCandidate => memory[x] = "Owned"
    <3>1. PICK n \in DOMAIN instances : instances[n].id = x /\ instances[n].state = s
      BY <2>1 DEF InstanceState
    <3> QED BY <1>3, <1>4, <3>1, FinalMemory
  <2>2. \A x : InstanceState(instances, x)' = InstanceState(instances, x)
    BY <1>1 DEF InstanceState
  <2> QED BY <1>1, <2>1, <2>2 DEF MemoryGraphAgrees
<1>7. LateUsesReported'
  <2>1. ASSUME NEW i \in DOMAIN graph.edges, By(i) = "use",
               InstanceFunction(graph.edges[i].source) \notin Shim
        PROVE  \E c \in candidates' : c.kind = "UseAfterFree" /\ i \in c.edges
    BY <1>1, <1>3, <2>1, LateUseFound
  <2>2. \A i : By(i)' = By(i) /\ SiteOf(i)' = SiteOf(i)
    BY <1>1 DEF By, SiteOf
  <2>3. \A x : BirthOf(x)' = BirthOf(x)
    BY <1>1 DEF BirthOf
  <2>4. \A x : InstanceFunction(x)' = InstanceFunction(x)
    BY <1>1, <2>2, <2>3 DEF InstanceFunction, BornBorrowed
  <2> QED BY <1>1, <2>1, <2>2, <2>4 DEF LateUsesReported
<1> QED BY <1>5, <1>6, <1>7 DEF InstancesAgree

LEMMA ResultsStep ==
  ASSUME BuilderInv, NameInv, SolverInv, MemoryInv, ResultInv, [Next]_vars
  PROVE  ResultInv'
<1>1. CASE FindCandidates
  BY <1>1, ResultsFound DEF ResultInv
<1>2. CASE Build \/ SolveAcquire \/ SolverTurns \/ SolveEffect \/ SolverStores
  <2>1. pc' # "done"
    <3>1. CASE Build
      <4>1. CASE ScanAcquire \/ ScanReclaim \/ ScanRelease \/ ScanEscape \/ ScanOther \/ ScanSummary
        BY <4>1 DEF ScanAcquire, ScanReclaim, ScanRelease, ScanEscape, ScanOther, ScanSummary, Scanning
      <4>2. CASE ~(ScanAcquire \/ ScanReclaim \/ ScanRelease \/ ScanEscape \/ ScanOther \/ ScanSummary)
        BY <3>1, <4>2
           DEF Build, BuilderNext, CallFact, CallFactsEnd, DeclaredFact, DeclaredFactsEnd, NextCaller,
               AcquireEdges, ReleaseOne, ReleasesEnd, EscapeOne, EscapesEnd, ReclaimOne, ReclaimsEnd,
               CallbackOne, CallersEnd, Propagate, PropagateEnd, PostFreeOne, FillMemoryGraph, Continue
      <4> QED BY <4>1, <4>2
    <3>2. CASE SolveAcquire \/ SolverTurns \/ SolveEffect \/ SolverStores
      BY <3>2 DEF SolveAcquire, SolverTurns, SolveEffect, SolverStores, Solving, builderVars
    <3> QED BY <1>2, <3>1, <3>2
  <2> QED BY <2>1 DEF ResultInv, InstancesAgree, LeaksAreUnconsumed, MemoryGraphAgrees, LateUsesReported, Done
<1>3. CASE UNCHANGED vars
  <2>1. UNCHANGED <<pc, graph, memory, instances, candidates>>
    BY <1>3 DEF vars, builderVars, solverVars
  <2>2. \A i : /\ BornAs(i)' = BornAs(i) /\ SiteOf(i)' = SiteOf(i)
               /\ By(i)' = By(i)
               /\ PassedOn(i)' <=> PassedOn(i)
    BY <2>1 DEF BornAs, EdgeIs, InstanceOf, SiteOf, PassedOn, By
  <2>3. Births' = Births /\ (Done' <=> Done) /\ (IdsSuffice' <=> IdsSuffice)
    BY <2>1 DEF Births, EdgeIs, Done, IdsSuffice
  <2> DEFINE leaking == {BornAs(i) : i \in {j \in Births : ~PassedOn(j) /\ SiteOf(j).caller \notin MayLeak}}
             found == {c.instance : c \in {d \in candidates : d.kind = "ConditionalLeak"}}
  <2>4. LeaksAreUnconsumed' <=> LeaksAreUnconsumed
    <3>1. leaking' = leaking /\ found' = found
      BY <2>1, <2>2, <2>3
    <3>2. LeaksAreUnconsumed <=> (Done => found = leaking)
      BY DEF LeaksAreUnconsumed
    <3>3. LeaksAreUnconsumed' <=> (Done' => found' = leaking')
      BY DEF LeaksAreUnconsumed
    <3> QED BY <2>3, <3>1, <3>2, <3>3
  <2>5. \A x : InstanceState(instances, x)' = InstanceState(instances, x)
    BY <2>1 DEF InstanceState
  <2>6. MemoryGraphAgrees' <=> MemoryGraphAgrees
    BY <2>1, <2>3, <2>5 DEF MemoryGraphAgrees
  <2>7. \A x : BirthOf(x)' = BirthOf(x)
    BY <2>1 DEF BirthOf
  <2>8. \A x : InstanceFunction(x)' = InstanceFunction(x)
    BY <2>1, <2>2, <2>7 DEF InstanceFunction, BornBorrowed
  <2>9. LateUsesReported' <=> LateUsesReported
    BY <2>1, <2>2, <2>3, <2>8 DEF LateUsesReported
  <2> QED BY <2>3, <2>4, <2>6, <2>9 DEF ResultInv, InstancesAgree
<1> QED BY <1>1, <1>2, <1>3 DEF Next

(***************************************************************************)
(* What the passes say of the instances, whatever the module: the names of *)
(* the builder's edges, the solver's account of each prefix of them, and   *)
(* the memory graph, as an inductive invariant over that of the graph.     *)
(***************************************************************************)
THEOREM InstancesTracked == Spec => [](NameInv /\ SolverInv /\ MemoryInv /\ ResultInv)
<1>1. Init => NameInv /\ SolverInv /\ MemoryInv /\ ResultInv
  <2>1. Init => pc = "facts"
    BY DEF Init, BuilderInit
  <2>2. pc = "facts" => MemoryInv /\ ResultInv
    BY DEF MemoryInv, ResultInv, InstancesAgree, LeaksAreUnconsumed, MemoryGraphAgrees, LateUsesReported,
           Done
  <2> QED BY <2>1, <2>2, NamesInit, SolverInit
<1>2. /\ BuilderInv /\ CrossInv /\ NameInv /\ SolverInv /\ MemoryInv /\ ResultInv
      /\ [Next]_vars
      => NameInv' /\ SolverInv' /\ MemoryInv' /\ ResultInv'
  BY NamesStep, SolverStep, MemoryStep, ResultsStep
<1> QED BY <1>1, <1>2, GraphInvariant, PTL DEF Spec

(***************************************************************************)
(* From ContractGraphBuilderPass through OwnershipSolverPass to the        *)
(* candidates: the leaks reported are the owned instances that no edge     *)
(* passes on, and the memory graph agrees with the solver on how each      *)
(* instance ends.  InstancesAgree of the run, for any module and tables,   *)
(* as long as there is an id for each instance; u64 has one for all.       *)
(***************************************************************************)
THEOREM InstancesAreAgreed == Spec => [](IdsSuffice => InstancesAgree)
<1>1. ResultInv => (IdsSuffice => InstancesAgree)
  BY DEF ResultInv
<1> QED BY <1>1, InstancesTracked, PTL

(***************************************************************************)
(* A use of a freed pointer that detect_post_free_call_use put in the      *)
(* graph is in a use-after-free candidate: LateUsesReported of the run,    *)
(* for any module and tables that the ids suffice for.                     *)
(***************************************************************************)
THEOREM LateUsesAreReported == Spec => [](IdsSuffice => LateUsesReported)
<1>1. ResultInv => (IdsSuffice => LateUsesReported)
  BY DEF ResultInv
<1> QED BY <1>1, InstancesTracked, PTL

(* With the ids of the code, which are numbers, there are always enough.   *)
LEMMA NumbersSuffice ==
  ASSUME BuilderInv, Nat \subseteq Id
  PROVE  IdsSuffice
<1>1. graph.next_instance_id \in Nat
  BY DEF BuilderInv, Linear, GraphShape
<1> QED BY <1>1 DEF IdsSuffice

COROLLARY AgreedForNumbers ==
  ASSUME Nat \subseteq Id
  PROVE  Spec => [](InstancesAgree /\ LateUsesReported)
<1>1. BuilderInv /\ ResultInv => InstancesAgree /\ LateUsesReported
  BY NumbersSuffice DEF ResultInv
<1> QED BY <1>1, GraphInvariant, InstancesTracked, PTL

=============================================================================
