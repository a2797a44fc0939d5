--------------------------- MODULE DataflowProofs ---------------------------
(***************************************************************************)
(* Proofs about the dataflow engine, for graphs of any size and any domain *)
(* that is a lattice: queries answer the edges added, however the graph    *)
(* was packed, unpacked and changed, and an analysis that ends holds the   *)
(* least facts.                                                            *)
(***************************************************************************)
EXTENDS DataflowAnalysis, WellFoundedInduction, FiniteSetTheorems, SequenceTheorems, TLAPS

-----------------------------------------------------------------------------
(* Induction up to a bound, over a set. *)
LEMMA Ascend ==
  ASSUME NEW M \in Nat, NEW S, 0 \in S, \A i \in 0 .. M - 1 : i \in S => i + 1 \in S
  PROVE  \A i \in 0 .. M : i \in S
<1> DEFINE Out == {i \in 0 .. M : i \notin S}
<1> SUFFICES ASSUME Out # {} PROVE FALSE
  OBVIOUS
<1>1. Out \in SUBSET Nat
  OBVIOUS
<1>2. \E i \in Out : \A j \in Out : <<j, i>> \notin OpToRel(<, Nat)
  BY <1>1, NatLessThanWellFounded, WFMin
<1>3. PICK i \in Out : \A j \in Out : ~(j < i)
  BY <1>1, <1>2 DEF OpToRel
<1>4. i \in 1 .. M
  OBVIOUS
<1>5. i - 1 \in 0 .. M - 1 /\ (i - 1) + 1 = i
  BY <1>4
<1>6. i - 1 \in S
  BY <1>3, <1>5
<1> QED BY <1>5, <1>6

(* A function may be defined by its first value and a step. *)
Stepped(M, V, v0, F) ==
  \E g \in [0 .. M -> V] : g[0] = v0 /\ \A i \in 1 .. M : g[i] = F[i][g[i - 1]]

LEMMA Stepwise ==
  ASSUME NEW M \in Nat, NEW V, NEW v0 \in V, NEW F \in [1 .. M -> [V -> V]]
  PROVE  Stepped(M, V, v0, F)
<1> DEFINE Defined(k, g) ==
             /\ g \in [0 .. k -> V] /\ g[0] = v0
             /\ \A i \in 1 .. k : g[i] = F[i][g[i - 1]]
           S == {k \in Nat : \E g : Defined(k, g)}
<1>1. 0 \in S
  <2>1. Defined(0, [i \in 0 .. 0 |-> v0])
    OBVIOUS
  <2> QED BY <2>1
<1>2. ASSUME NEW k \in 0 .. M - 1, k \in S PROVE k + 1 \in S
  <2>1. PICK g : Defined(k, g)
    BY <1>2
  <2> DEFINE h == [i \in 0 .. k + 1 |-> IF i = k + 1 THEN F[k + 1][g[k]] ELSE g[i]]
  <2>2. k \in Nat /\ k + 1 \in 1 .. M /\ g[k] \in V
    BY <2>1
  <2>3. F[k + 1][g[k]] \in V
    BY <2>2
  <2>4. h \in [0 .. k + 1 -> V] /\ h[0] = v0
    BY <2>1, <2>2, <2>3
  <2>5. ASSUME NEW i \in 1 .. k + 1 PROVE h[i] = F[i][h[i - 1]]
    <3>1. h[i - 1] = g[i - 1]
      BY <2>2
    <3>2. CASE i = k + 1
      BY <2>2, <3>1, <3>2
    <3>3. CASE i # k + 1
      <4>1. i \in 1 .. k /\ h[i] = g[i]
        BY <2>2, <3>3
      <4> QED BY <2>1, <3>1, <4>1
    <3> QED BY <3>2, <3>3
  <2>6. Defined(k + 1, h)
    BY <2>4, <2>5
  <2> HIDE DEF Defined, h
  <2> QED BY <2>2, <2>6
<1>3. \A i \in 0 .. M : i \in S
  <2> HIDE DEF S
  <2> QED BY <1>1, <1>2, Ascend
<1>4. M \in S
  <2> HIDE DEF S
  <2> QED BY <1>3
<1> QED BY <1>4 DEF Stepped

-----------------------------------------------------------------------------
(* Packing. *)

Lists == [NodeId -> Seq(NodeId)]

LEMMA ListIsSeq ==
  ASSUME NEW adj \in Lists, NEW i
  PROVE  ListOf(adj, i) \in Seq(NodeId)
BY DEF ListOf, Lists

LEMMA PackedSteps ==
  ASSUME next_node_id \in Nat, NEW adj \in Lists
  PROVE  LET M == next_node_id + 1
             f == PackedUpTo(adj)
         IN  /\ f \in [0 .. M -> Seq(NodeId)] /\ f[0] = <<>>
             /\ \A i \in 1 .. M : f[i] = f[i - 1] \o ListOf(adj, i - 1)
<1> DEFINE M == next_node_id + 1
           V == Seq(NodeId)
           L == [i \in 0 .. M |-> ListOf(adj, i)]
           F == [i \in 1 .. M |-> [v \in V |-> v \o L[i - 1]]]
           f == PackedUpTo(adj)
<1>1. M \in Nat
  OBVIOUS
<1>2. \A i \in 0 .. M : L[i] = ListOf(adj, i) /\ L[i] \in V
  BY ListIsSeq
<1>3. F \in [1 .. M -> [V -> V]]
  BY <1>1, <1>2
<1>4. ASSUME NEW i \in 1 .. M, NEW v \in V PROVE F[i][v] = v \o ListOf(adj, i - 1)
  <2>1. i - 1 \in 0 .. M
    BY <1>1
  <2>2. L[i - 1] = ListOf(adj, i - 1)
    BY <1>2, <2>1
  <2>3. F[i][v] = v \o L[i - 1]
    OBVIOUS
  <2> QED BY <2>2, <2>3
<1> DEFINE none == <<>>
<1>5. none \in V /\ none = <<>>
  OBVIOUS
<1>6. f = CHOOSE g : g = [i \in 0 .. M |-> IF i = 0 THEN <<>> ELSE g[i - 1] \o ListOf(adj, i - 1)]
  BY DEF PackedUpTo
<1> HIDE DEF F, V, L, M, f, none
<1>7. PICK g \in [0 .. M -> V] : g[0] = none /\ \A i \in 1 .. M : g[i] = F[i][g[i - 1]]
  <2>1. none \in V
    BY <1>5
  <2>2. Stepped(M, V, none, F)
    BY <1>1, <1>3, <2>1, Stepwise, Zenon
  <2> QED BY <2>2 DEF Stepped
<1>8. \A i \in 1 .. M : g[i] = g[i - 1] \o ListOf(adj, i - 1)
  <2> SUFFICES ASSUME NEW i \in 1 .. M PROVE g[i] = g[i - 1] \o ListOf(adj, i - 1)
    OBVIOUS
  <2>1. g[i - 1] \in V
    BY <1>1
  <2> QED BY <1>4, <1>7, <2>1
<1>9. g = [i \in 0 .. M |-> IF i = 0 THEN <<>> ELSE g[i - 1] \o ListOf(adj, i - 1)]
  <2>1. \A i \in 0 .. M : i # 0 => i \in 1 .. M
    BY <1>1
  <2> QED BY <1>5, <1>7, <1>8, <2>1
<1>10. f = [i \in 0 .. M |-> IF i = 0 THEN <<>> ELSE f[i - 1] \o ListOf(adj, i - 1)]
  BY <1>6, <1>9
<1>11. f[0] = <<>> /\ \A i \in 1 .. M : f[i] = f[i - 1] \o ListOf(adj, i - 1)
  <2>1. 0 \in 0 .. M /\ \A i \in 1 .. M : i \in 0 .. M /\ i # 0
    BY <1>1
  <2> QED BY <1>10, <2>1
<1> DEFINE S == {i \in Nat : f[i] \in V}
<1>12. \A i \in 0 .. M : i \in S
  <2>1. 0 \in S
    BY <1>5, <1>11
  <2>2. ASSUME NEW i \in 0 .. M - 1, i \in S PROVE i + 1 \in S
    <3>1. i + 1 \in 1 .. M /\ (i + 1) - 1 = i
      BY <1>1
    <3>2. f[i + 1] = f[i] \o ListOf(adj, i)
      BY <1>11, <3>1
    <3>3. f[i] \in Seq(NodeId) /\ ListOf(adj, i) \in Seq(NodeId)
      BY <2>2, ListIsSeq DEF V
    <3>4. f[i + 1] \in V
      BY <3>2, <3>3, ConcatProperties DEF V
    <3> QED BY <3>1, <3>4
  <2> HIDE DEF S
  <2> QED BY <1>1, <2>1, <2>2, Ascend
<1>13. f \in [0 .. M -> V]
  BY <1>10, <1>12
<1> QED BY <1>11, <1>13 DEF M, f, V

(* What a node packs is not moved by the nodes after it. *)
Accumulates(M, f, L) ==
  \A i \in 1 .. M : L[i - 1] \in Seq(NodeId) /\ f[i] = f[i - 1] \o L[i - 1]

KeptFrom(n, M, f) ==
  \A i \in n .. M : Len(f[n]) <= Len(f[i]) /\ \A j \in 1 .. Len(f[n]) : f[i][j] = f[n][j]

LEMMA PackedStays ==
  ASSUME NEW M \in Nat, NEW f \in [0 .. M -> Seq(NodeId)], NEW L, Accumulates(M, f, L),
         NEW n \in 0 .. M
  PROVE  KeptFrom(n, M, f)
<1> DEFINE Keeps(i) == Len(f[n]) <= Len(f[i]) /\ \A j \in 1 .. Len(f[n]) : f[i][j] = f[n][j]
           S == {i \in Nat : i + n <= M => Keeps(i + n)}
<1>1. 0 \in S
  BY DEF Keeps
<1>2. ASSUME NEW i \in 0 .. (M - n) - 1, i \in S PROVE i + 1 \in S
  <2>1. i + n \in 0 .. M /\ i + n + 1 \in 1 .. M /\ (i + n + 1) - 1 = i + n
    BY <1>2
  <2>2. Keeps(i + n) /\ f[i + n] \in Seq(NodeId) /\ f[n] \in Seq(NodeId)
    BY <1>2, <2>1
  <2>3. f[i + n + 1] = f[i + n] \o L[i + n] /\ L[i + n] \in Seq(NodeId)
    BY <2>1 DEF Accumulates
  <2> DEFINE x == f[n]
             a == f[i + n]
             b == L[i + n]
             c == f[i + n + 1]
  <2>4. /\ x \in Seq(NodeId) /\ a \in Seq(NodeId) /\ b \in Seq(NodeId) /\ c = a \o b
        /\ Len(x) <= Len(a) /\ \A j \in 1 .. Len(x) : a[j] = x[j]
    BY <2>2, <2>3
  <2>5. Keeps(i + n + 1)
    <3>1. Len(x) <= Len(c) /\ \A j \in 1 .. Len(x) : c[j] = x[j]
      <4> HIDE DEF x, a, b, c
      <4>1. Len(a \o b) = Len(a) + Len(b) /\ Len(a) \in Nat /\ Len(b) \in Nat /\ Len(x) \in Nat
        BY <2>4, ConcatProperties
      <4>2. \A j \in 1 .. Len(a) : (a \o b)[j] = a[j]
        BY <2>4, <4>1, ConcatProperties
      <4>3. Len(c) = Len(a) + Len(b) /\ Len(x) <= Len(a)
        BY <2>4, <4>1
      <4>4. Len(x) <= Len(c)
        BY <4>1, <4>3
      <4>5. \A j \in 1 .. Len(x) : j \in 1 .. Len(a)
        BY <4>1, <4>3
      <4>6. \A j \in 1 .. Len(x) : c[j] = x[j]
        BY <2>4, <4>2, <4>5
      <4> QED BY <4>4, <4>6
    <3> QED BY <3>1
  <2>6. i + n + 1 = (i + 1) + n
    BY <2>1
  <2> HIDE DEF Keeps
  <2> QED BY <2>5, <2>6
<1>3. \A i \in 0 .. M - n : i \in S
  <2> HIDE DEF S
  <2>1. M - n \in Nat
    OBVIOUS
  <2> QED BY <1>1, <1>2, <2>1, Ascend
<1>4. ASSUME NEW i \in n .. M PROVE Keeps(i)
  <2>1. i - n \in 0 .. M - n /\ (i - n) + n = i /\ i <= M
    OBVIOUS
  <2>2. i - n \in S
    <3> HIDE DEF S
    <3> QED BY <1>3, <2>1
  <2> HIDE DEF Keeps
  <2>3. (i - n) + n <= M => Keeps((i - n) + n)
    BY <2>2
  <2> QED BY <2>1, <2>3
<1> QED BY <1>4 DEF KeptFrom

(* What was appended after x can be cut out again. *)
LEMMA CutOut ==
  ASSUME NEW V, NEW x \in Seq(V), NEW y \in Seq(V), NEW t \in Seq(V),
         Len(x \o y) <= Len(t), \A j \in 1 .. Len(x \o y) : t[j] = (x \o y)[j]
  PROVE  SubSeq(t, Len(x) + 1, Len(x \o y)) = y
<1> DEFINE m == Len(x) + 1
           n == Len(x \o y)
           s == SubSeq(t, m, n)
<1>1. /\ n = Len(x) + Len(y) /\ Len(x) \in Nat /\ Len(y) \in Nat /\ Len(t) \in Nat
      /\ \A j \in 1 .. n : (x \o y)[j] = IF j <= Len(x) THEN x[j] ELSE y[j - Len(x)]
  BY ConcatProperties
<1>2. m \in Int /\ n \in Int /\ \A j \in m .. n : t[j] \in V
  BY <1>1
<1>3. /\ s \in Seq(V) /\ Len(s) = (IF m <= n THEN n - m + 1 ELSE 0)
      /\ \A j \in 1 .. n - m + 1 : s[j] = t[m + j - 1]
  <2> HIDE DEF m, n
  <2> QED BY <1>2, SubSeqProperties
<1>4. Len(s) = Len(y)
  BY <1>1, <1>3
<1>5. ASSUME NEW j \in 1 .. Len(s) PROVE s[j] = y[j]
  <2>1. m + j - 1 \in 1 .. n /\ ~(m + j - 1 <= Len(x)) /\ (m + j - 1) - Len(x) = j
    BY <1>1, <1>4
  <2>2. j \in 1 .. n - m + 1
    BY <1>1, <1>4
  <2>3. s[j] = t[m + j - 1]
    BY <1>3, <2>2
  <2>4. t[m + j - 1] = (x \o y)[m + j - 1]
    BY <2>1
  <2>5. (x \o y)[m + j - 1] = y[j]
    <3> DEFINE k == m + j - 1
    <3>1. k \in 1 .. n /\ ~(k <= Len(x)) /\ k - Len(x) = j
      BY <2>1
    <3> HIDE DEF k, m, n
    <3>2. (x \o y)[k] = y[k - Len(x)]
      BY <1>1, <3>1
    <3> QED BY <3>1, <3>2 DEF k
  <2> QED BY <2>3, <2>4, <2>5
<1> HIDE DEF s
<1>6. s = y
  BY <1>3, <1>4, <1>5, SeqEqual
<1> QED BY <1>6 DEF s

(* A node's slice of the arrays is the list that was packed. *)
LEMMA PackedSlices ==
  ASSUME next_node_id \in Nat, NEW adj \in Lists
  PROVE  /\ Len(Pack(adj).offsets) = next_node_id + 2
         /\ \A n \in 0 .. next_node_id : Slice(Pack(adj), n) = ListOf(adj, n)
<1> DEFINE N == next_node_id
           M == N + 1
           f == PackedUpTo(adj)
           L == [i \in 0 .. M |-> ListOf(adj, i)]
           p == Pack(adj)
<1>1. /\ f \in [0 .. M -> Seq(NodeId)] /\ f[0] = <<>>
      /\ \A i \in 1 .. M : f[i] = f[i - 1] \o ListOf(adj, i - 1)
  BY PackedSteps
<1>2. p.offsets = [i \in 1 .. N + 2 |-> Len(f[i - 1])] /\ p.targets = f[M]
  BY DEF Pack
<1>3. N \in Nat /\ M = N + 1
  OBVIOUS
<1>4. \A i \in 1 .. M : i - 1 \in 0 .. M
  OBVIOUS
<1>5. \A i \in 0 .. M : L[i] = ListOf(adj, i) /\ L[i] \in Seq(NodeId)
  BY ListIsSeq
<1>6. \A i \in 1 .. M : L[i - 1] \in Seq(NodeId) /\ f[i] = f[i - 1] \o L[i - 1]
  <2> HIDE DEF L, f, M
  <2> QED BY <1>1, <1>4, <1>5
<1>7. \A k \in 1 .. N + 2 : p.offsets[k] = Len(f[k - 1])
  BY <1>2
<1> HIDE DEF f, L, p, M, N
<1>8. f \in [0 .. M -> Seq(NodeId)] /\ Accumulates(M, f, L)
  BY <1>1, <1>6 DEF Accumulates
<1>9. Len(p.offsets) = N + 2
  BY <1>2, <1>3
<1>10. ASSUME NEW n \in 0 .. N PROVE Slice(p, n) = ListOf(adj, n)
  <2>1. n + 1 \in 0 .. M /\ M \in Nat /\ M \in n + 1 .. M /\ n \in 0 .. M /\ n + 1 \in 1 .. M
        /\ (n + 1) - 1 = n /\ n + 1 \in 1 .. N + 2 /\ n + 2 \in 1 .. N + 2 /\ (n + 2) - 1 = n + 1
    BY <1>3
  <2> DEFINE x == f[n]
             y == L[n]
             z == f[n + 1]
             t == f[M]
  <2>2. x \in Seq(NodeId) /\ y \in Seq(NodeId) /\ t \in Seq(NodeId) /\ z = x \o y
    <3>1. f[n] \in Seq(NodeId) /\ f[M] \in Seq(NodeId)
      BY <1>8, <2>1
    <3>2. L[n] \in Seq(NodeId)
      BY <1>5, <2>1
    <3>3. f[n + 1] = f[(n + 1) - 1] \o L[(n + 1) - 1]
      BY <1>6, <2>1, Zenon
    <3>4. f[n + 1] = f[n] \o L[n]
      BY <2>1, <3>3
    <3> QED BY <3>1, <3>2, <3>4
  <2>3. Len(z) <= Len(t) /\ \A j \in 1 .. Len(z) : t[j] = z[j]
    <3>1. \A i \in n + 1 .. M : Len(f[n + 1]) <= Len(f[i])
                                 /\ \A j \in 1 .. Len(f[n + 1]) : f[i][j] = f[n + 1][j]
      BY <1>8, <2>1, PackedStays, Zenon DEF KeptFrom
    <3> QED BY <2>1, <3>1
  <2>4. p.offsets[n + 1] = Len(x) /\ p.offsets[n + 2] = Len(z) /\ p.targets = t
    <3>1. p.offsets[n + 1] = Len(f[(n + 1) - 1]) /\ p.offsets[n + 2] = Len(f[(n + 2) - 1])
      BY <1>7, <2>1, Zenon
    <3> QED BY <1>2, <2>1, <3>1
  <2>5. y = ListOf(adj, n)
    BY <1>5, <2>1
  <2> HIDE DEF x, y, z, t
  <2>6. SubSeq(t, Len(x) + 1, Len(x \o y)) = y
    BY <2>2, <2>3, CutOut
  <2>7. Slice(p, n) = SubSeq(t, Len(x) + 1, Len(z))
    BY <2>4 DEF Slice
  <2> QED BY <2>2, <2>5, <2>6, <2>7
<1> QED BY <1>9, <1>10 DEF p, N

-----------------------------------------------------------------------------
(* What queries answer, of a list and the edges alone. *)
Ends(list, es, n, from, to) ==
  \E at \in [DOMAIN list -> DOMAIN es] :
    /\ \A j \in DOMAIN list : es[at[j]][from] = n /\ list[j] = es[at[j]][to]
    /\ \A i, j \in DOMAIN list : i < j => at[i] < at[j]
    /\ \A k \in DOMAIN es : es[k][from] = n => \E j \in DOMAIN list : at[j] = k

(* A node without an edge has the empty list. *)
LEMMA EndsOfNone ==
  ASSUME NEW es, NEW n, NEW from, NEW to, \A k \in DOMAIN es : es[k][from] # n
  PROVE  Ends(<<>>, es, n, from, to)
<1>1. <<>> \in [DOMAIN <<>> -> DOMAIN es] /\ DOMAIN <<>> = {}
  OBVIOUS
<1> QED BY <1>1 DEF Ends

(* An edge that starts elsewhere leaves the list, one that starts here extends it. *)
LEMMA EndsOfOther ==
  ASSUME NEW E, NEW es \in Seq(E), NEW e \in E, NEW n, NEW from, NEW to, e[from] # n,
         NEW list, Ends(list, es, n, from, to)
  PROVE  Ends(list, Append(es, e), n, from, to)
<1> DEFINE es2 == Append(es, e)
<1>1. PICK at \in [DOMAIN list -> DOMAIN es] :
        /\ \A j \in DOMAIN list : es[at[j]][from] = n /\ list[j] = es[at[j]][to]
        /\ \A i, j \in DOMAIN list : i < j => at[i] < at[j]
        /\ \A k \in DOMAIN es : es[k][from] = n => \E j \in DOMAIN list : at[j] = k
  BY DEF Ends
<1>2. /\ DOMAIN es = 1 .. Len(es) /\ Len(es) \in Nat /\ DOMAIN es2 = 1 .. Len(es) + 1
      /\ es2[Len(es) + 1] = e /\ \A k \in DOMAIN es : es2[k] = es[k]
  OBVIOUS
<1> HIDE DEF es2
<1>3. at \in [DOMAIN list -> DOMAIN es2]
  BY <1>2
<1>4. \A j \in DOMAIN list : es2[at[j]][from] = n /\ list[j] = es2[at[j]][to]
  BY <1>1, <1>2
<1>5. ASSUME NEW k \in DOMAIN es2, es2[k][from] = n PROVE \E j \in DOMAIN list : at[j] = k
  <2>1. k \in DOMAIN es
    BY <1>2, <1>5
  <2> QED BY <1>1, <1>2, <1>5, <2>1
<1>6. Ends(list, es2, n, from, to)
  BY <1>1, <1>3, <1>4, <1>5 DEF Ends
<1> QED BY <1>6 DEF es2

LEMMA EndsOfSame ==
  ASSUME NEW E, NEW es \in Seq(E), NEW e \in E, NEW n, NEW from, NEW to, e[from] = n,
         NEW V, NEW list \in Seq(V), e[to] \in V, Ends(list, es, n, from, to)
  PROVE  Ends(Append(list, e[to]), Append(es, e), n, from, to)
<1> DEFINE es2 == Append(es, e)
           list2 == Append(list, e[to])
           l == Len(list)
           m == Len(es)
<1>1. PICK at \in [DOMAIN list -> DOMAIN es] :
        /\ \A j \in DOMAIN list : es[at[j]][from] = n /\ list[j] = es[at[j]][to]
        /\ \A i, j \in DOMAIN list : i < j => at[i] < at[j]
        /\ \A k \in DOMAIN es : es[k][from] = n => \E j \in DOMAIN list : at[j] = k
  BY DEF Ends
<1>2. /\ DOMAIN es = 1 .. m /\ m \in Nat /\ DOMAIN es2 = 1 .. m + 1
      /\ es2[m + 1] = e /\ \A k \in 1 .. m : es2[k] = es[k]
  OBVIOUS
<1>3. /\ DOMAIN list = 1 .. l /\ l \in Nat /\ DOMAIN list2 = 1 .. l + 1
      /\ list2[l + 1] = e[to] /\ \A j \in 1 .. l : list2[j] = list[j]
  OBVIOUS
<1> DEFINE at2 == [j \in 1 .. l + 1 |-> IF j = l + 1 THEN m + 1 ELSE at[j]]
<1> HIDE DEF es2, list2, l, m
<1>4. \A j \in 1 .. l : at[j] \in 1 .. m
  BY <1>2, <1>3
<1>5. at2 \in [DOMAIN list2 -> DOMAIN es2] /\ at2[l + 1] = m + 1 /\ \A j \in 1 .. l : at2[j] = at[j]
  BY <1>2, <1>3, <1>4
<1> HIDE DEF at2
<1>6. ASSUME NEW j \in DOMAIN list2 PROVE es2[at2[j]][from] = n /\ list2[j] = es2[at2[j]][to]
  <2>1. CASE j = l + 1
    BY <1>2, <1>3, <1>5, <2>1
  <2>2. CASE j # l + 1
    <3>1. j \in 1 .. l
      BY <1>3, <2>2
    <3> QED BY <1>1, <1>2, <1>3, <1>4, <1>5, <3>1
  <2> QED BY <2>1, <2>2
<1>7. ASSUME NEW i \in DOMAIN list2, NEW j \in DOMAIN list2, i < j PROVE at2[i] < at2[j]
  <2>1. i \in 1 .. l /\ at2[i] = at[i] /\ at[i] \in 1 .. m
    BY <1>3, <1>4, <1>5, <1>7
  <2>2. CASE j = l + 1
    BY <1>2, <1>5, <2>1, <2>2
  <2>3. CASE j # l + 1
    <3>1. j \in 1 .. l
      BY <1>3, <2>3
    <3>2. at[i] < at[j]
      BY <1>1, <1>3, <1>7, <2>1, <3>1
    <3>3. at2[j] = at[j]
      BY <1>5, <3>1
    <3> QED BY <2>1, <3>2, <3>3
  <2> QED BY <2>2, <2>3
<1>8. ASSUME NEW k \in DOMAIN es2, es2[k][from] = n PROVE \E j \in DOMAIN list2 : at2[j] = k
  <2>1. CASE k = m + 1
    BY <1>3, <1>5, <2>1
  <2>2. CASE k # m + 1
    <3>1. k \in 1 .. m /\ es[k][from] = n
      BY <1>2, <1>8, <2>2
    <3>2. PICK j \in 1 .. l : at[j] = k
      BY <1>1, <1>2, <1>3, <3>1
    <3>3. j \in DOMAIN list2
      BY <1>3, <3>2
    <3>4. at2[j] = k
      BY <1>5, <3>2, Zenon
    <3> QED BY <3>3, <3>4
  <2> QED BY <2>1, <2>2
<1>9. Ends(list2, es2, n, from, to)
  BY <1>5, <1>6, <1>7, <1>8 DEF Ends
<1> QED BY <1>9 DEF es2, list2

-----------------------------------------------------------------------------
(***************************************************************************)
(* The graph's invariant.  Lists that are not packed hold the ends of the  *)
(* edges; of a frozen graph the slices do, for every node the offsets      *)
(* have, which are those there are and at most one more.                   *)
(***************************************************************************)
ListsHold(lists, from, to) ==
  lists \in Lists /\ \A n \in NodeId : Ends(lists[n], edges, n, from, to)

SlicesHold(packed, from, to) ==
  \A n \in Nat : n + 1 < Len(packed.offsets) =>
    Slice(packed, n) \in Seq(NodeId) /\ Ends(Slice(packed, n), edges, n, from, to)

GraphInv ==
  ~strained =>
    /\ ~panicked
    /\ kind \in Seq(Kind) /\ next_node_id <= MaxNodes
    /\ edges \in Seq(EdgeChoice)
    /\ \A k \in DOMAIN edges : edges[k][1] \in Nodes /\ edges[k][2] \in Nodes
    /\ ~IsFrozen => ListsHold(forward, 1, 2) /\ ListsHold(reverse, 2, 1)
    /\ IsFrozen =>
         /\ forward = NoAdjacency /\ reverse = NoAdjacency
         /\ Len(csr.forward.offsets) \in Nat /\ next_node_id + 1 <= Len(csr.forward.offsets)
         /\ Len(csr.reverse.offsets) = Len(csr.forward.offsets)
         /\ SlicesHold(csr.forward, 1, 2) /\ SlicesHold(csr.reverse, 2, 1)

LEMMA GraphStarts ==
  ASSUME GraphInit
  PROVE  GraphInv
<1>1. ~IsFrozen /\ ~panicked /\ kind = <<>> /\ edges = <<>> /\ forward = NoAdjacency /\ reverse = NoAdjacency
  BY DEF GraphInit, IsFrozen
<1>2. NoAdjacency \in Lists /\ \A n \in NodeId : NoAdjacency[n] = <<>>
  BY DEF NoAdjacency, Lists
<1>3. \A n \in NodeId : Ends(<<>>, edges, n, 1, 2) /\ Ends(<<>>, edges, n, 2, 1)
  BY <1>1, EndsOfNone
<1>4. ListsHold(forward, 1, 2) /\ ListsHold(reverse, 2, 1)
  BY <1>1, <1>2, <1>3 DEF ListsHold
<1>5. kind \in Seq(Kind) /\ next_node_id <= MaxNodes /\ edges \in Seq(EdgeChoice) /\ DOMAIN edges = {}
  BY <1>1, GraphBounds DEF next_node_id
<1> QED BY <1>1, <1>4, <1>5 DEF GraphInv

LEMMA AddNodeKeeps ==
  ASSUME GraphInv, NEW k \in Kind, AddNode(k)
  PROVE  GraphInv'
<1> SUFFICES ASSUME ~strained' PROVE GraphInv'
  BY DEF GraphInv
<1>1. /\ ~panicked' /\ edges' = edges /\ forward' = forward /\ reverse' = reverse /\ csr' = csr
      /\ ~strained /\ (IsFrozen => ~(Len(csr.forward.offsets) < next_node_id + 2))
      /\ next_node_id < MaxNodes /\ kind' = Append(kind, k)
  BY DEF AddNode
<1>2. kind \in Seq(Kind) /\ next_node_id \in Nat
  BY <1>1 DEF GraphInv, next_node_id
<1>3. kind' \in Seq(Kind) /\ next_node_id' = next_node_id + 1 /\ IsFrozen' = IsFrozen
  BY <1>1, <1>2 DEF next_node_id, IsFrozen
<1>4. next_node_id' <= MaxNodes
  BY <1>1, <1>2, <1>3, GraphBounds
<1>5. \A n \in Nodes : n \in Nodes'
  BY <1>2, <1>3 DEF Nodes
<1>6. IsFrozen => next_node_id' + 1 <= Len(csr.forward.offsets)
  BY <1>1, <1>2, <1>3 DEF GraphInv
<1>7. /\ ListsHold(forward, 1, 2)' = ListsHold(forward, 1, 2)
      /\ ListsHold(reverse, 2, 1)' = ListsHold(reverse, 2, 1)
      /\ SlicesHold(csr.forward, 1, 2)' = SlicesHold(csr.forward, 1, 2)
      /\ SlicesHold(csr.reverse, 2, 1)' = SlicesHold(csr.reverse, 2, 1)
  BY <1>1 DEF ListsHold, SlicesHold
<1> QED BY <1>1, <1>3, <1>4, <1>5, <1>6, <1>7 DEF GraphInv

(* invalidate_csr gives back the lists that were packed. *)
Rebuilt(packed, adj) ==
  [n \in NodeId |-> IF IsFrozen /\ n < next_node_id /\ Slice(packed, n) # <<>>
                    THEN Slice(packed, n) ELSE adj[n]]

LEMMA RebuiltHolds ==
  ASSUME NEW packed, NEW adj, NEW from \in {1, 2}, NEW to \in {1, 2}, next_node_id \in Nat,
         \A k \in DOMAIN edges : edges[k][1] \in Nodes /\ edges[k][2] \in Nodes,
         ~IsFrozen => ListsHold(adj, from, to),
         IsFrozen => /\ adj = NoAdjacency
                     /\ Len(packed.offsets) \in Nat /\ next_node_id + 1 <= Len(packed.offsets)
                     /\ SlicesHold(packed, from, to)
  PROVE  ListsHold(Rebuilt(packed, adj), from, to)
<1>1. CASE ~IsFrozen
  <2>1. adj \in Lists /\ \A n \in NodeId : Rebuilt(packed, adj)[n] = adj[n]
    BY <1>1 DEF Rebuilt, ListsHold
  <2>2. Rebuilt(packed, adj) = [n \in NodeId |-> adj[n]]
    BY <1>1 DEF Rebuilt
  <2>3. Rebuilt(packed, adj) = adj
    BY <2>1, <2>2 DEF Lists
  <2> QED BY <1>1, <2>3
<1>2. CASE IsFrozen
  <2> SUFFICES ASSUME NEW n \in NodeId
               PROVE  /\ Rebuilt(packed, adj)[n] \in Seq(NodeId)
                      /\ Ends(Rebuilt(packed, adj)[n], edges, n, from, to)
    BY DEF ListsHold, Lists, Rebuilt
  <2>1. adj[n] = <<>>
    BY <1>2 DEF NoAdjacency
  <2>2. n \in Nat
    BY DEF NodeId
  <2>3. CASE n < next_node_id
    <3>1. n + 1 < Len(packed.offsets)
      BY <1>2, <2>2, <2>3
    <3>2. Slice(packed, n) \in Seq(NodeId) /\ Ends(Slice(packed, n), edges, n, from, to)
      BY <1>2, <2>2, <3>1 DEF SlicesHold
    <3>3. Rebuilt(packed, adj)[n] = Slice(packed, n)
      BY <1>2, <2>1, <2>3 DEF Rebuilt
    <3> QED BY <3>2, <3>3
  <2>4. CASE ~(n < next_node_id)
    <3>1. n \notin Nodes
      BY <2>2, <2>4 DEF Nodes
    <3>2. Rebuilt(packed, adj)[n] = <<>>
      BY <2>1, <2>4 DEF Rebuilt
    <3>3. \A k \in DOMAIN edges : edges[k][from] # n
      BY <3>1
    <3>4. Ends(<<>>, edges, n, from, to)
      BY <3>3, EndsOfNone
    <3> QED BY <3>2, <3>4
  <2> QED BY <2>3, <2>4
<1> QED BY <1>1, <1>2

(* The edge added is at the end of its nodes' lists. *)
LEMMA AppendHolds ==
  ASSUME NEW lists, NEW from \in {1, 2}, NEW to \in {1, 2}, ListsHold(lists, from, to),
         edges \in Seq(EdgeChoice), NEW e \in EdgeChoice, edges' = Append(edges, e),
         e[from] \in NodeId, e[to] \in NodeId
  PROVE  LET l == [lists EXCEPT ![e[from]] = Append(@, e[to])]
         IN  l \in Lists /\ \A n \in NodeId : Ends(l[n], edges', n, from, to)
<1> DEFINE l == [lists EXCEPT ![e[from]] = Append(@, e[to])]
<1>1. lists \in Lists /\ \A n \in NodeId : Ends(lists[n], edges, n, from, to)
  BY DEF ListsHold
<1>2. l \in Lists
  BY <1>1 DEF Lists
<1>3. ASSUME NEW n \in NodeId PROVE Ends(l[n], edges', n, from, to)
  <2>1. lists[n] \in Seq(NodeId) /\ Ends(lists[n], edges, n, from, to)
    BY <1>1 DEF Lists
  <2>2. CASE n = e[from]
    <3>1. l[n] = Append(lists[n], e[to])
      BY <1>1, <2>2 DEF Lists
    <3>2. Ends(Append(lists[n], e[to]), Append(edges, e), n, from, to)
      BY <2>1, <2>2, EndsOfSame
    <3> QED BY <3>1, <3>2
  <2>3. CASE n # e[from]
    <3>1. l[n] = lists[n]
      BY <1>1, <2>3 DEF Lists
    <3>2. Ends(lists[n], Append(edges, e), n, from, to)
      BY <2>1, <2>3, EndsOfOther
    <3> QED BY <3>1, <3>2
  <2> QED BY <2>2, <2>3
<1> HIDE DEF l
<1>4. l \in Lists /\ \A n \in NodeId : Ends(l[n], edges', n, from, to)
  BY <1>2, <1>3
<1> QED BY <1>4 DEF l

LEMMA AddEdgeKeeps ==
  ASSUME GraphInv, NEW e \in EdgeChoice, AddEdge(e)
  PROVE  GraphInv'
<1> SUFFICES ASSUME ~strained' PROVE GraphInv'
  BY DEF GraphInv
<1>1. ~strained /\ ~panicked /\ kind' = kind /\ {e[1], e[2]} \subseteq Nodes
  BY DEF AddEdge, Nodes
<1>2. OffsetsCover
  BY <1>1 DEF GraphInv, OffsetsCover
<1>3. /\ forward' = [Rebuilt(csr.forward, forward) EXCEPT ![e[1]] = Append(@, e[2])]
      /\ reverse' = [Rebuilt(csr.reverse, reverse) EXCEPT ![e[2]] = Append(@, e[1])]
      /\ csr' = Unfrozen /\ edges' = Append(edges, e) /\ panicked' = panicked
  BY <1>2 DEF AddEdge, InvalidateCsr, Rebuilt
<1>4. /\ kind \in Seq(Kind) /\ next_node_id \in Nat /\ next_node_id <= MaxNodes
      /\ edges \in Seq(EdgeChoice)
      /\ \A k \in DOMAIN edges : edges[k][1] \in Nodes /\ edges[k][2] \in Nodes
  BY <1>1 DEF GraphInv, next_node_id
<1>5. e[1] \in NodeId /\ e[2] \in NodeId
  BY <1>1, <1>4, GraphBounds DEF Nodes, NodeId
<1>6. ListsHold(Rebuilt(csr.forward, forward), 1, 2)
  <2>1. ~IsFrozen => ListsHold(forward, 1, 2)
    BY <1>1 DEF GraphInv
  <2>2. IsFrozen => /\ forward = NoAdjacency
                    /\ Len(csr.forward.offsets) \in Nat
                    /\ next_node_id + 1 <= Len(csr.forward.offsets)
                    /\ SlicesHold(csr.forward, 1, 2)
    BY <1>1 DEF GraphInv
  <2> QED BY <1>4, <2>1, <2>2, RebuiltHolds
<1>7. ListsHold(Rebuilt(csr.reverse, reverse), 2, 1)
  <2>1. ~IsFrozen => ListsHold(reverse, 2, 1)
    BY <1>1 DEF GraphInv
  <2>2. IsFrozen => /\ reverse = NoAdjacency
                    /\ Len(csr.reverse.offsets) \in Nat
                    /\ next_node_id + 1 <= Len(csr.reverse.offsets)
                    /\ SlicesHold(csr.reverse, 2, 1)
    BY <1>1 DEF GraphInv
  <2> QED BY <1>4, <2>1, <2>2, RebuiltHolds
<1>8. ListsHold(forward, 1, 2)'
  <2>1. forward' \in Lists /\ \A n \in NodeId : Ends(forward'[n], edges', n, 1, 2)
    BY <1>3, <1>4, <1>5, <1>6, AppendHolds
  <2> QED BY <2>1 DEF ListsHold
<1>9. ListsHold(reverse, 2, 1)'
  <2>1. reverse' \in Lists /\ \A n \in NodeId : Ends(reverse'[n], edges', n, 2, 1)
    BY <1>3, <1>4, <1>5, <1>7, AppendHolds
  <2> QED BY <2>1 DEF ListsHold
<1>10. ~IsFrozen'
  BY <1>3 DEF IsFrozen
<1>11. Nodes' = Nodes /\ next_node_id' = next_node_id
  BY <1>1 DEF Nodes, next_node_id
<1>12. edges' \in Seq(EdgeChoice) /\ \A k \in DOMAIN edges' : edges'[k][1] \in Nodes /\ edges'[k][2] \in Nodes
  <2>1. edges' \in Seq(EdgeChoice) /\ \A k \in DOMAIN edges' : edges'[k] = e \/ (k \in DOMAIN edges /\ edges'[k] = edges[k])
    BY <1>3, <1>4
  <2> QED BY <1>1, <1>4, <2>1
<1> QED BY <1>1, <1>3, <1>4, <1>8, <1>9, <1>10, <1>11, <1>12 DEF GraphInv

(* Of lists packed, the slices hold what the lists held. *)
LEMMA PackHolds ==
  ASSUME NEW lists, NEW from \in {1, 2}, NEW to \in {1, 2}, ListsHold(lists, from, to),
         next_node_id \in Nat, next_node_id <= MaxNodes,
         \A k \in DOMAIN edges : edges[k][1] \in Nodes /\ edges[k][2] \in Nodes
  PROVE  /\ Len(Pack(lists).offsets) = next_node_id + 2
         /\ SlicesHold(Pack(lists), from, to)
<1>1. lists \in Lists /\ \A n \in NodeId : Ends(lists[n], edges, n, from, to)
  BY DEF ListsHold
<1>2. /\ Len(Pack(lists).offsets) = next_node_id + 2
      /\ \A n \in 0 .. next_node_id : Slice(Pack(lists), n) = ListOf(lists, n)
  BY <1>1, PackedSlices
<1>3. ASSUME NEW n \in Nat, n + 1 < Len(Pack(lists).offsets)
      PROVE  /\ Slice(Pack(lists), n) \in Seq(NodeId)
             /\ Ends(Slice(Pack(lists), n), edges, n, from, to)
  <2>1. n \in 0 .. next_node_id
    BY <1>2, <1>3
  <2>2. Slice(Pack(lists), n) = ListOf(lists, n)
    BY <1>2, <2>1
  <2>3. ListOf(lists, n) \in Seq(NodeId)
    BY <1>1, ListIsSeq
  <2>4. Ends(ListOf(lists, n), edges, n, from, to)
    <3>1. CASE n \in NodeId
      BY <1>1, <3>1 DEF ListOf
    <3>2. CASE n \notin NodeId
      <4>1. n \notin Nodes
        BY <2>1, <3>2, GraphBounds DEF Nodes, NodeId
      <4>2. \A k \in DOMAIN edges : edges[k][from] # n
        BY <4>1
      <4> QED BY <3>2, <4>2, EndsOfNone DEF ListOf
    <3> QED BY <3>1, <3>2
  <2> QED BY <2>2, <2>3, <2>4
<1> QED BY <1>2, <1>3 DEF SlicesHold

LEMMA FreezeKeeps ==
  ASSUME GraphInv, Freeze
  PROVE  GraphInv'
<1> SUFFICES ASSUME ~strained' PROVE GraphInv'
  BY DEF GraphInv
<1>1. /\ ~strained /\ ~IsFrozen /\ ~panicked' /\ kind' = kind /\ edges' = edges
      /\ csr' = [forward |-> Pack(forward), reverse |-> Pack(reverse)]
      /\ forward' = NoAdjacency /\ reverse' = NoAdjacency
  BY DEF Freeze
<1>2. /\ kind \in Seq(Kind) /\ next_node_id \in Nat /\ next_node_id <= MaxNodes
      /\ edges \in Seq(EdgeChoice)
      /\ \A k \in DOMAIN edges : edges[k][1] \in Nodes /\ edges[k][2] \in Nodes
      /\ ListsHold(forward, 1, 2) /\ ListsHold(reverse, 2, 1)
  BY <1>1 DEF GraphInv, next_node_id
<1>3. /\ Len(Pack(forward).offsets) = next_node_id + 2 /\ SlicesHold(Pack(forward), 1, 2)
      /\ Len(Pack(reverse).offsets) = next_node_id + 2 /\ SlicesHold(Pack(reverse), 2, 1)
  BY <1>2, PackHolds
<1>4. csr'.forward = Pack(forward) /\ csr'.reverse = Pack(reverse)
  BY <1>1
<1>5. Nodes' = Nodes /\ next_node_id' = next_node_id
  BY <1>1 DEF Nodes, next_node_id
<1>6. SlicesHold(csr.forward, 1, 2)' /\ SlicesHold(csr.reverse, 2, 1)'
  BY <1>1, <1>3, <1>4 DEF SlicesHold
<1>7. IsFrozen'
  <2>1. DOMAIN Pack(forward) = {"offsets", "targets"}
    BY DEF Pack
  <2>2. csr'.forward # <<>>
    BY <1>4, <2>1
  <2> QED BY <2>2 DEF IsFrozen, Unfrozen
<1> QED BY <1>1, <1>2, <1>3, <1>4, <1>5, <1>6, <1>7 DEF GraphInv

LEMMA ClearKeeps ==
  ASSUME GraphInv, Clear
  PROVE  GraphInv'
<1>1. /\ ~IsFrozen' /\ ~panicked' /\ kind' = <<>> /\ edges' = <<>>
      /\ forward' = NoAdjacency /\ reverse' = NoAdjacency
  BY DEF Clear, IsFrozen
<1>2. NoAdjacency \in Lists /\ \A n \in NodeId : NoAdjacency[n] = <<>>
  BY DEF NoAdjacency, Lists
<1>3. \A n \in NodeId : Ends(<<>>, edges', n, 1, 2) /\ Ends(<<>>, edges', n, 2, 1)
  BY <1>1, EndsOfNone
<1>4. ListsHold(forward, 1, 2)' /\ ListsHold(reverse, 2, 1)'
  BY <1>1, <1>2, <1>3 DEF ListsHold
<1>5. (kind \in Seq(Kind) /\ next_node_id <= MaxNodes /\ edges \in Seq(EdgeChoice) /\ DOMAIN edges = {})'
  BY <1>1, GraphBounds DEF next_node_id
<1> QED BY <1>1, <1>4, <1>5 DEF GraphInv

(* Nothing of the graph that the invariant speaks of is changed. *)
LEMMA GraphStands ==
  ASSUME GraphInv, UNCHANGED <<kind, edges, forward, reverse, csr, panicked, strained>>
  PROVE  GraphInv'
<1>1. Nodes' = Nodes /\ next_node_id' = next_node_id /\ IsFrozen' = IsFrozen
  BY DEF Nodes, next_node_id, IsFrozen
<1>2. /\ ListsHold(forward, 1, 2)' = ListsHold(forward, 1, 2)
      /\ ListsHold(reverse, 2, 1)' = ListsHold(reverse, 2, 1)
      /\ SlicesHold(csr.forward, 1, 2)' = SlicesHold(csr.forward, 1, 2)
      /\ SlicesHold(csr.reverse, 2, 1)' = SlicesHold(csr.reverse, 2, 1)
  BY DEF ListsHold, SlicesHold
<1> QED BY <1>1, <1>2 DEF GraphInv

LEMMA GraphKept ==
  ASSUME GraphInv, [DataflowNext]_vars
  PROVE  GraphInv'
<1>1. CASE ChangeGraph
  <2>1. CASE \E k \in Kind : AddNode(k)
    BY <2>1, AddNodeKeeps
  <2>2. CASE \E e \in EdgeChoice : AddEdge(e)
    BY <2>2, AddEdgeKeeps
  <2>3. CASE Freeze
    BY <2>3, FreezeKeeps
  <2>4. CASE \E n \in EntryChoice : SetEntry(n)
    BY <2>4, GraphStands DEF SetEntry
  <2>5. CASE \E n \in ExitChoice : SetExit(n)
    BY <2>5, GraphStands DEF SetExit
  <2>6. CASE Clear
    BY <2>6, ClearKeeps
  <2> QED BY <1>1, <2>1, <2>2, <2>3, <2>4, <2>5, <2>6 DEF ChangeGraph, GraphNext
<1>2. CASE \E d \in Direction : Start(d)
  BY <1>2, GraphStands DEF Start, graphVars
<1>3. CASE Visit
  BY <1>3, GraphStands DEF Visit, graphVars
<1>4. CASE Drop
  BY <1>4, GraphStands DEF Drop, graphVars
<1>5. CASE UNCHANGED vars
  BY <1>5, GraphStands DEF vars, graphVars
<1> QED BY <1>1, <1>2, <1>3, <1>4, <1>5 DEF DataflowNext

(* What a query answers, of a node there is. *)
LEMMA QueriesAnswer ==
  ASSUME GraphInv, ~strained, NEW n \in Nodes
  PROVE  /\ Successors(n) \in Seq(NodeId) /\ Ends(Successors(n), edges, n, 1, 2)
         /\ Predecessors(n) \in Seq(NodeId) /\ Ends(Predecessors(n), edges, n, 2, 1)
<1>1. n \in Nat /\ n < next_node_id /\ next_node_id \in Nat /\ n \in NodeId
  BY GraphBounds DEF Nodes, GraphInv, next_node_id, NodeId
<1>2. CASE ~IsFrozen
  <2>1. Successors(n) = forward[n] /\ Predecessors(n) = reverse[n]
    BY <1>2 DEF Successors, Predecessors, Neighbours
  <2>2. ListsHold(forward, 1, 2) /\ ListsHold(reverse, 2, 1)
    BY <1>2 DEF GraphInv
  <2> QED BY <1>1, <2>1, <2>2 DEF ListsHold, Lists
<1>3. CASE IsFrozen
  <2>1. /\ n + 1 < Len(csr.forward.offsets) /\ n + 1 < Len(csr.reverse.offsets)
        /\ SlicesHold(csr.forward, 1, 2) /\ SlicesHold(csr.reverse, 2, 1)
    BY <1>1, <1>3 DEF GraphInv
  <2>2. Successors(n) = Slice(csr.forward, n) /\ Predecessors(n) = Slice(csr.reverse, n)
    BY <1>3, <2>1 DEF Successors, Predecessors, Neighbours
  <2> QED BY <1>1, <2>1, <2>2 DEF SlicesHold
<1> QED BY <1>2, <1>3

(***************************************************************************)
(* Whatever was packed, unpacked and added in between, a node's successors *)
(* and predecessors are those of the edges added, in order, and no call    *)
(* runs past the arrays: for graphs of any size.                           *)
(***************************************************************************)
THEOREM QueriesAlwaysMatch == DataflowSpec => []QueriesMatchEdges
<1>1. DataflowInit => GraphInv
  BY GraphStarts DEF DataflowInit
<1>2. GraphInv /\ [DataflowNext]_vars => GraphInv'
  BY GraphKept
<1>3. GraphInv => QueriesMatchEdges
  <2> SUFFICES ASSUME GraphInv, ~strained PROVE QueriesMatchEdges
    BY DEF QueriesMatchEdges
  <2>1. ASSUME NEW n \in 0 .. next_node_id - 1
        PROVE  ListsEnds(Successors(n), n, 1, 2) /\ ListsEnds(Predecessors(n), n, 2, 1)
    <3>1. Ends(Successors(n), edges, n, 1, 2) /\ Ends(Predecessors(n), edges, n, 2, 1)
      BY QueriesAnswer DEF Nodes
    <3> QED BY <3>1 DEF Ends, ListsEnds
  <2> QED BY <2>1 DEF QueriesMatchEdges, GraphInv
<1> QED BY <1>1, <1>2, <1>3, PTL DEF DataflowSpec

-----------------------------------------------------------------------------
(* Merging is the least upper bound of Below, whichever way the analysis goes. *)
LEMMA MergeLaws ==
  /\ Extreme(direction) \in Value
  /\ \A a \in Value : Merge(Extreme(direction), a) = a /\ Merge(a, a) = a
  /\ \A a, b \in Value : Merge(a, b) \in Value /\ Merge(a, b) = Merge(b, a)
  /\ \A a, b, c \in Value : Merge(Merge(a, b), c) = Merge(a, Merge(b, c))
<1>1. CASE direction = "forward"
  BY <1>1, DomainAssumption DEF IsSemilattice, Extreme, Merge
<1>2. CASE direction # "forward"
  BY <1>2, DomainAssumption DEF IsSemilattice, Extreme, Merge
<1> QED BY <1>1, <1>2

LEMMA BelowLaws ==
  /\ \A a \in Value : Below(Extreme(direction), a) /\ Below(a, a)
  /\ \A a, b \in Value : Below(a, Merge(a, b)) /\ Below(b, Merge(a, b))
  /\ \A a, b, c \in Value : Below(a, b) /\ Below(b, c) => Below(a, c)
  /\ \A a, b, c \in Value : Below(a, c) /\ Below(b, c) => Below(Merge(a, b), c)
<1>1. \A a \in Value : Below(Extreme(direction), a) /\ Below(a, a)
  BY MergeLaws DEF Below
<1>2. ASSUME NEW a \in Value, NEW b \in Value PROVE Below(a, Merge(a, b)) /\ Below(b, Merge(a, b))
  <2>1. Merge(a, Merge(a, b)) = Merge(Merge(a, a), b) /\ Merge(a, a) = a
    BY MergeLaws
  <2>2. Merge(b, Merge(a, b)) = Merge(b, Merge(b, a)) /\ Merge(b, Merge(b, a)) = Merge(Merge(b, b), a)
        /\ Merge(b, b) = b /\ Merge(b, a) = Merge(a, b)
    BY MergeLaws
  <2> QED BY <2>1, <2>2 DEF Below
<1>3. ASSUME NEW a \in Value, NEW b \in Value, NEW c \in Value, Below(a, b), Below(b, c)
      PROVE  Below(a, c)
  <2>1. Merge(Merge(a, b), c) = Merge(a, Merge(b, c))
    BY MergeLaws
  <2> QED BY <1>3, <2>1 DEF Below
<1>4. ASSUME NEW a \in Value, NEW b \in Value, NEW c \in Value, Below(a, c), Below(b, c)
      PROVE  Below(Merge(a, b), c)
  <2>1. Merge(Merge(a, b), c) = Merge(a, Merge(b, c))
    BY MergeLaws
  <2> QED BY <1>4, <2>1 DEF Below
<1> QED BY <1>1, <1>2, <1>3, <1>4

LEMMA EffectLaws ==
  ASSUME kind \in Seq(Kind), NEW n \in Nodes
  PROVE  /\ \A v \in Value : Effect(n, v) \in Value
         /\ MonotoneTransfer => \A v, w \in Value : Below(v, w) => Below(Effect(n, v), Effect(n, w))
<1>1. kind[n + 1] \in Kind
  <2>1. n + 1 \in 1 .. Len(kind)
    BY DEF Nodes, next_node_id
  <2> QED BY <2>1, ElementOfSeq
<1>2. \A v \in Value : Effect(n, v) \in Value
  BY <1>1, DomainAssumption DEF Effect
<1>3. ASSUME MonotoneTransfer, NEW v \in Value, NEW w \in Value, Below(v, w)
      PROVE  Below(Effect(n, v), Effect(n, w))
  <2>1. CASE direction = "forward"
    BY <1>1, <1>3, <2>1 DEF MonotoneTransfer, Below, Merge, Effect
  <2>2. CASE direction # "forward"
    BY <1>1, <1>3, <2>2 DEF MonotoneTransfer, Below, Merge, Effect
  <2> QED BY <2>1, <2>2
<1> QED BY <1>2, <1>3

(* A merge over a list is above each of its facts and below all that are above them. *)
LEMMA MergeOfSteps ==
  ASSUME NEW nodes \in Seq(Nodes), after \in [Nodes -> Value]
  PROVE  \E g \in [0 .. Len(nodes) -> Value] :
           /\ g[0] = Extreme(direction) /\ g[Len(nodes)] = MergeOf(nodes)
           /\ \A i \in 1 .. Len(nodes) : g[i] = Merge(g[i - 1], after[nodes[i]])
<1> DEFINE M == Len(nodes)
           e == Extreme(direction)
           F == [i \in 1 .. M |-> [v \in Value |-> Merge(v, after[nodes[i]])]]
           f == CHOOSE g : g = [i \in 0 .. M |-> IF i = 0 THEN e ELSE Merge(g[i - 1], after[nodes[i]])]
<1>1. M \in Nat /\ e \in Value
  BY MergeLaws
<1>2. \A i \in 1 .. M : after[nodes[i]] \in Value
  OBVIOUS
<1>3. F \in [1 .. M -> [Value -> Value]]
  BY <1>2, MergeLaws
<1>4. \A i \in 1 .. M : \A v \in Value : F[i][v] = Merge(v, after[nodes[i]])
  OBVIOUS
<1>5. MergeOf(nodes) = f[M]
  BY DEF MergeOf
<1>6. f = CHOOSE g : g = [i \in 0 .. M |-> IF i = 0 THEN e ELSE Merge(g[i - 1], after[nodes[i]])]
  OBVIOUS
<1>7. e = Extreme(direction) /\ M = Len(nodes)
  OBVIOUS
<1> HIDE DEF M, e, F, f
<1>8. PICK g \in [0 .. M -> Value] : g[0] = e /\ \A i \in 1 .. M : g[i] = F[i][g[i - 1]]
  <2>1. Stepped(M, Value, e, F)
    BY <1>1, <1>3, Stepwise, Zenon
  <2> QED BY <2>1 DEF Stepped
<1>9. \A i \in 1 .. M : g[i] = Merge(g[i - 1], after[nodes[i]])
  <2> SUFFICES ASSUME NEW i \in 1 .. M PROVE g[i] = Merge(g[i - 1], after[nodes[i]])
    OBVIOUS
  <2>1. g[i - 1] \in Value
    BY <1>1
  <2>2. F[i][g[i - 1]] = Merge(g[i - 1], after[nodes[i]])
    BY <1>4, <2>1
  <2> QED BY <1>8, <2>2
<1>10. g = [i \in 0 .. M |-> IF i = 0 THEN e ELSE Merge(g[i - 1], after[nodes[i]])]
  <2>1. \A i \in 0 .. M : i # 0 => i \in 1 .. M
    BY <1>1
  <2> QED BY <1>8, <1>9, <2>1
<1>11. f = [i \in 0 .. M |-> IF i = 0 THEN e ELSE Merge(f[i - 1], after[nodes[i]])]
  BY <1>6, <1>10
<1>12. f[0] = e /\ \A i \in 1 .. M : f[i] = Merge(f[i - 1], after[nodes[i]])
  <2>1. 0 \in 0 .. M /\ \A i \in 1 .. M : i \in 0 .. M /\ i # 0
    BY <1>1
  <2> QED BY <1>11, <2>1
<1> DEFINE S == {i \in Nat : f[i] \in Value}
<1>13. \A i \in 0 .. M : i \in S
  <2>1. 0 \in S
    BY <1>1, <1>12
  <2>2. ASSUME NEW i \in 0 .. M - 1, i \in S PROVE i + 1 \in S
    <3>1. i + 1 \in 1 .. M /\ (i + 1) - 1 = i
      BY <1>1
    <3>2. f[i + 1] = Merge(f[i], after[nodes[i + 1]])
      BY <1>12, <3>1
    <3>3. f[i] \in Value /\ after[nodes[i + 1]] \in Value
      BY <1>2, <2>2, <3>1
    <3> QED BY <3>1, <3>2, <3>3, MergeLaws
  <2> HIDE DEF S
  <2> QED BY <1>1, <2>1, <2>2, Ascend
<1>14. f \in [0 .. M -> Value]
  BY <1>11, <1>13
<1> QED BY <1>5, <1>7, <1>12, <1>14

LEMMA MergeOfIsLeast ==
  ASSUME NEW nodes \in Seq(Nodes), after \in [Nodes -> Value]
  PROVE  /\ MergeOf(nodes) \in Value
         /\ \A i \in DOMAIN nodes : Below(after[nodes[i]], MergeOf(nodes))
         /\ \A b \in Value : (\A i \in DOMAIN nodes : Below(after[nodes[i]], b)) => Below(MergeOf(nodes), b)
<1> DEFINE M == Len(nodes)
<1>1. PICK g \in [0 .. M -> Value] :
        /\ g[0] = Extreme(direction) /\ g[M] = MergeOf(nodes)
        /\ \A i \in 1 .. M : g[i] = Merge(g[i - 1], after[nodes[i]])
  BY MergeOfSteps
<1>2. M \in Nat /\ DOMAIN nodes = 1 .. M /\ \A i \in 1 .. M : after[nodes[i]] \in Value
  OBVIOUS
<1> HIDE DEF M
<1>3. MergeOf(nodes) \in Value
  BY <1>1, <1>2
<1>4. ASSUME NEW i \in 0 .. M - 1
      PROVE  /\ i + 1 \in 1 .. M /\ g[i] \in Value /\ g[i + 1] \in Value /\ after[nodes[i + 1]] \in Value
             /\ g[i + 1] = Merge(g[i], after[nodes[i + 1]])
  <2>1. i + 1 \in 1 .. M /\ (i + 1) - 1 = i /\ i \in 0 .. M /\ i + 1 \in 0 .. M
    BY <1>2
  <2> QED BY <1>1, <1>2, <2>1
<1>5. ASSUME NEW k \in 1 .. M PROVE Below(after[nodes[k]], MergeOf(nodes))
  <2> DEFINE S == {i \in Nat : k <= i => Below(after[nodes[k]], g[i])}
  <2>1. 0 \in S
    BY <1>2
  <2>2. ASSUME NEW i \in 0 .. M - 1, i \in S PROVE i + 1 \in S
    <3>1. CASE k = i + 1
      <4>1. Below(after[nodes[i + 1]], g[i + 1])
        BY <1>4, BelowLaws
      <4> QED BY <1>2, <3>1, <4>1
    <3>2. CASE k # i + 1
      <4>1. k <= i + 1 => k <= i
        BY <1>2, <3>2
      <4>2. Below(g[i], g[i + 1])
        BY <1>4, BelowLaws
      <4>3. Below(after[nodes[k]], g[i]) => Below(after[nodes[k]], g[i + 1])
        <5>1. after[nodes[k]] \in Value /\ g[i] \in Value /\ g[i + 1] \in Value
          BY <1>2, <1>4
        <5> QED BY <4>2, <5>1, BelowLaws
      <4> QED BY <1>2, <2>2, <4>1, <4>3
    <3> QED BY <3>1, <3>2
  <2>3. M \in S
    <3> HIDE DEF S
    <3>1. \A i \in 0 .. M : i \in S
      BY <1>2, <2>1, <2>2, Ascend
    <3> QED BY <1>2, <3>1
  <2> QED BY <1>1, <1>2, <2>3
<1>6. ASSUME NEW b \in Value, \A i \in 1 .. M : Below(after[nodes[i]], b)
      PROVE  Below(MergeOf(nodes), b)
  <2> DEFINE S == {i \in Nat : Below(g[i], b)}
  <2>1. 0 \in S
    BY <1>1, BelowLaws
  <2>2. ASSUME NEW i \in 0 .. M - 1, i \in S PROVE i + 1 \in S
    <3>1. Below(g[i], b) /\ Below(after[nodes[i + 1]], b)
      BY <1>4, <1>6, <2>2
    <3>2. Below(Merge(g[i], after[nodes[i + 1]]), b)
      BY <1>4, <3>1, BelowLaws
    <3> QED BY <1>2, <1>4, <3>2
  <2>3. M \in S
    <3> HIDE DEF S
    <3>1. \A i \in 0 .. M : i \in S
      BY <1>2, <2>1, <2>2, Ascend
    <3> QED BY <1>2, <3>1
  <2> QED BY <1>1, <2>3
<1> QED BY <1>2, <1>3, <1>5, <1>6

-----------------------------------------------------------------------------
(* What is upstream of a node, by the edges. *)
UpstreamExact ==
  /\ \A e \in ToSet(edges) : Source(e) \in Nodes /\ Target(e) \in Nodes
  /\ \A n \in Nodes :
       /\ Upstream(n) \in Seq(Nodes)
       /\ \A j \in DOMAIN Upstream(n) :
            \E e \in ToSet(edges) : Source(e) = Upstream(n)[j] /\ Target(e) = n
       /\ \A e \in ToSet(edges) : Target(e) = n =>
            \E j \in DOMAIN Upstream(n) : Upstream(n)[j] = Source(e)

LEMMA ListedNeighbours ==
  ASSUME NEW list, NEW V, list \in Seq(V), NEW n, NEW from \in {1, 2}, NEW to \in {1, 2},
         Ends(list, edges, n, from, to),
         \A k \in DOMAIN edges : edges[k][1] \in Nodes /\ edges[k][2] \in Nodes
  PROVE  /\ list \in Seq(Nodes)
         /\ \A j \in DOMAIN list : \E e \in ToSet(edges) : e[to] = list[j] /\ e[from] = n
         /\ \A e \in ToSet(edges) : e[from] = n => \E j \in DOMAIN list : list[j] = e[to]
<1>1. PICK at \in [DOMAIN list -> DOMAIN edges] :
        /\ \A j \in DOMAIN list : edges[at[j]][from] = n /\ list[j] = edges[at[j]][to]
        /\ \A k \in DOMAIN edges : edges[k][from] = n => \E j \in DOMAIN list : at[j] = k
  BY DEF Ends
<1>2. \A j \in DOMAIN list : at[j] \in DOMAIN edges /\ list[j] \in Nodes
  BY <1>1
<1>3. list \in Seq(Nodes)
  <2>1. DOMAIN list = 1 .. Len(list) /\ Len(list) \in Nat /\ list = [j \in 1 .. Len(list) |-> list[j]]
    OBVIOUS
  <2>2. list \in [1 .. Len(list) -> Nodes]
    BY <1>2, <2>1
  <2> QED BY <2>1, <2>2
<1>4. ASSUME NEW j \in DOMAIN list PROVE \E e \in ToSet(edges) : e[to] = list[j] /\ e[from] = n
  <2>1. edges[at[j]] \in ToSet(edges)
    BY <1>2 DEF ToSet
  <2> QED BY <1>1, <2>1
<1>5. ASSUME NEW e \in ToSet(edges), e[from] = n PROVE \E j \in DOMAIN list : list[j] = e[to]
  <2>1. PICK k \in DOMAIN edges : edges[k] = e
    BY DEF ToSet
  <2>2. PICK j \in DOMAIN list : at[j] = k
    BY <1>1, <1>5, <2>1
  <2> QED BY <1>1, <2>1, <2>2
<1> QED BY <1>3, <1>4, <1>5

LEMMA UpstreamIs ==
  ASSUME GraphInv, ~strained
  PROVE  UpstreamExact
<1>1. \A k \in DOMAIN edges : edges[k][1] \in Nodes /\ edges[k][2] \in Nodes
  BY DEF GraphInv
<1>2. \A e \in ToSet(edges) : Source(e) \in Nodes /\ Target(e) \in Nodes
  BY <1>1 DEF ToSet, Source, Target
<1>3. ASSUME NEW n \in Nodes
      PROVE  /\ Upstream(n) \in Seq(Nodes)
             /\ \A j \in DOMAIN Upstream(n) :
                  \E e \in ToSet(edges) : Source(e) = Upstream(n)[j] /\ Target(e) = n
             /\ \A e \in ToSet(edges) : Target(e) = n =>
                  \E j \in DOMAIN Upstream(n) : Upstream(n)[j] = Source(e)
  <2>1. /\ Successors(n) \in Seq(NodeId) /\ Ends(Successors(n), edges, n, 1, 2)
        /\ Predecessors(n) \in Seq(NodeId) /\ Ends(Predecessors(n), edges, n, 2, 1)
    BY QueriesAnswer
  <2>2. CASE direction = "forward"
    <3>1. Upstream(n) = Predecessors(n) /\ \A e : Source(e) = e[1] /\ Target(e) = e[2]
      BY <2>2 DEF Upstream, Source, Target
    <3> DEFINE l == Predecessors(n)
    <3>2. /\ l \in Seq(Nodes)
          /\ \A j \in DOMAIN l : \E e \in ToSet(edges) : e[1] = l[j] /\ e[2] = n
          /\ \A e \in ToSet(edges) : e[2] = n => \E j \in DOMAIN l : l[j] = e[1]
      <4>1. l \in Seq(NodeId) /\ Ends(l, edges, n, 2, 1)
        BY <2>1
      <4> HIDE DEF l
      <4> QED BY <1>1, <4>1, ListedNeighbours
    <3> QED BY <3>1, <3>2
  <2>3. CASE direction # "forward"
    <3>1. Upstream(n) = Successors(n) /\ \A e : Source(e) = e[2] /\ Target(e) = e[1]
      BY <2>3 DEF Upstream, Source, Target
    <3> DEFINE l == Successors(n)
    <3>2. /\ l \in Seq(Nodes)
          /\ \A j \in DOMAIN l : \E e \in ToSet(edges) : e[2] = l[j] /\ e[1] = n
          /\ \A e \in ToSet(edges) : e[1] = n => \E j \in DOMAIN l : l[j] = e[2]
      <4>1. l \in Seq(NodeId) /\ Ends(l, edges, n, 1, 2)
        BY <2>1
      <4> HIDE DEF l
      <4> QED BY <1>1, <4>1, ListedNeighbours
    <3> QED BY <3>1, <3>2
  <2> QED BY <2>2, <2>3
<1> QED BY <1>2, <1>3 DEF UpstreamExact

(***************************************************************************)
(* The run's invariant.  No fact exceeds any solution's, save that of a    *)
(* boundary with nodes upstream, until its first visit; a pass that has    *)
(* changed nothing leaves the nodes it visited as their visit would.       *)
(***************************************************************************)
Pending == IF phase = "running" THEN ToSet(todo) ELSE {}

RunTyped ==
  /\ ~strained /\ kind \in Seq(Kind)
  /\ before \in [Nodes -> Value] /\ after \in [Nodes -> Value]
  /\ order \in Seq(Nodes) /\ order # <<>> /\ Nodes \subseteq ToSet(order)
  /\ todo \in Seq(Nodes) /\ todo # <<>>
  /\ phase = "done" => ~changed

FactsBelow ==
  \A X \in [Nodes -> Value] : Respects(X) =>
    \A n \in Nodes :
      /\ \/ n \in Pending /\ n = Boundary /\ Upstream(n) # <<>>
         \/ Below(before[n], X[n])
      /\ Below(after[n], Effect(n, X[n]))

FactsSettled ==
  ~changed => \A n \in Nodes \ Pending : before[n] = Merged(n) /\ after[n] = Effect(n, before[n])

SourcesKept ==
  \A n \in Nodes : Upstream(n) = <<>> =>
    before[n] = IF n = Boundary THEN Initial ELSE Extreme(direction)

RunInv ==
  /\ phase \in {"idle", "running", "done"}
  /\ phase # "idle" => RunTyped /\ FactsBelow /\ FactsSettled /\ SourcesKept

(* A sequence that lists a finite set without repetition lists all of it. *)
LEMMA ListsAll ==
  ASSUME NEW S, IsFiniteSet(S), NEW s \in SetToSeqs(S)
  PROVE  s \in Seq(S) /\ \A x \in S : \E i \in DOMAIN s : s[i] = x
<1> DEFINE D == 1 .. Cardinality(S)
<1>1. Cardinality(S) \in Nat
  BY FS_CardinalityType
<1>2. s \in [D -> S] /\ \A i, j \in D : i # j => s[i] # s[j]
  BY DEF SetToSeqs
<1>3. IsFiniteSet(D) /\ Cardinality(D) = Cardinality(S)
  BY <1>1, FS_Interval
<1>4. s \in Injection(D, S)
  BY <1>2 DEF Injection, IsInjective
<1>5. s \in Surjection(D, S)
  BY <1>3, <1>4, FS_Injection
<1>6. s \in Seq(S)
  BY <1>1, <1>2
<1> QED BY <1>2, <1>5, <1>6 DEF Surjection

(* What an analysis reads of the graph stands while it runs. *)
LEMMA GraphRead ==
  ASSUME UNCHANGED <<graphVars, direction>>
  PROVE  /\ Nodes' = Nodes /\ Boundary' = Boundary
         /\ \A n : Upstream(n)' = Upstream(n)
         /\ \A n, v : Effect(n, v)' = Effect(n, v)
         /\ \A a, b : Below(a, b)' = Below(a, b)
         /\ \A X : Respects(X)' = Respects(X)
<1> USE DEF graphVars
<1>1. Nodes' = Nodes /\ Boundary' = Boundary /\ next_node_id' = next_node_id
  BY DEF Nodes, Boundary, next_node_id
<1>2. \A n : Upstream(n)' = Upstream(n)
  BY DEF Upstream, Predecessors, Successors, Neighbours, Slice, IsFrozen
<1>3. \A n, v : Effect(n, v)' = Effect(n, v)
  BY DEF Effect
<1>4. \A a, b : Below(a, b)' = Below(a, b)
  BY DEF Below, Merge
<1>5. \A X : Respects(X)' = Respects(X)
  BY DEF Respects, Nodes, Boundary, next_node_id, Effect, Below, Merge, Source, Target
<1> QED BY <1>1, <1>2, <1>3, <1>4, <1>5

(* The same laws of the state after a step. *)
LEMMA NextLaws ==
  /\ (GraphInv /\ ~strained => UpstreamExact)'
  /\ (\A a \in Value : Below(Extreme(direction), a) /\ Below(a, a))'
  /\ (kind \in Seq(Kind) => \A n \in Nodes : \A v \in Value : Effect(n, v) \in Value)'
<1>1. GraphInv /\ ~strained => UpstreamExact
  BY UpstreamIs
<1>2. \A a \in Value : Below(Extreme(direction), a) /\ Below(a, a)
  BY BelowLaws
<1>3. kind \in Seq(Kind) => \A n \in Nodes : \A v \in Value : Effect(n, v) \in Value
  BY EffectLaws
<1> QED BY <1>1, <1>2, <1>3, PTL

LEMMA StartKeeps ==
  ASSUME GraphInv, NEW d \in Direction, Start(d), GraphInv'
  PROVE  RunInv'
<1>1. /\ ~strained' /\ Nodes # {} /\ phase' = "running" /\ direction' = d /\ order' \in SetToSeqs(Nodes)
      /\ todo' = order' /\ ~changed' /\ kind' = kind /\ entry' = entry /\ exit' = exit
  BY DEF Start, graphVars
<1>2. Nodes' = Nodes /\ kind' \in Seq(Kind)
  BY <1>1 DEF Nodes, next_node_id, GraphInv
<1>3. \A n \in Nodes : before'[n] = IF n = Boundary' THEN Initial ELSE Extreme(direction')
  BY <1>1 DEF Start, Boundary
<1>4. \A n \in Nodes : after'[n] = Extreme(direction')
  BY <1>1 DEF Start
<1>5. before' \in [Nodes -> Value] /\ after' \in [Nodes -> Value]
  <2>1. Initial \in Value /\ Extreme(d) \in Value
    BY DomainAssumption DEF IsSemilattice, Extreme
  <2> QED BY <2>1 DEF Start
<1>6. order' \in Seq(Nodes) /\ Nodes \subseteq ToSet(order') /\ order' # <<>>
  <2>1. IsFiniteSet(Nodes)
    BY <1>2, FS_Interval DEF Nodes, next_node_id
  <2>2. order' \in Seq(Nodes) /\ \A x \in Nodes : \E i \in DOMAIN order' : order'[i] = x
    BY <1>1, <2>1, ListsAll
  <2>3. order' # <<>>
    BY <1>1, <2>2
  <2> QED BY <2>2, <2>3 DEF ToSet
<1>7. RunTyped'
  BY <1>1, <1>2, <1>5, <1>6 DEF RunTyped
<1>8. Nodes \subseteq Pending'
  BY <1>1, <1>6 DEF Pending
<1>9. UpstreamExact'
  BY <1>1, NextLaws
<1>10. ASSUME NEW X \in [Nodes -> Value], Respects(X)', NEW n \in Nodes
       PROVE  /\ \/ n \in Pending' /\ n = Boundary' /\ Upstream(n)' # <<>>
                 \/ Below(before[n], X[n])'
              /\ Below(after[n], Effect(n, X[n]))'
  <2>1. X[n] \in Value /\ Effect(n, X[n])' \in Value
    <3>1. X[n] \in Value
      OBVIOUS
    <3>2. \A v \in Value : Effect(n, v)' \in Value
      BY <1>2, NextLaws
    <3> QED BY <3>1, <3>2
  <2>2. Below(after[n], Effect(n, X[n]))'
    <3>1. Below(Extreme(direction), Effect(n, X[n]))'
      BY <2>1, NextLaws
    <3> QED BY <1>4, <3>1 DEF Below, Merge
  <2>3. CASE n # Boundary'
    <3>1. Below(Extreme(direction), X[n])'
      BY <2>1, NextLaws
    <3> QED BY <1>3, <2>2, <2>3, <3>1 DEF Below, Merge
  <2>4. CASE n = Boundary' /\ Upstream(n)' = <<>>
    <3>1. \A e \in ToSet(edges') : Target(e)' # n
      BY <1>2, <1>9, <2>4 DEF UpstreamExact
    <3>2. Below(Initial, X[n])'
      BY <1>2, <1>10, <2>4, <3>1 DEF Respects
    <3> QED BY <1>3, <2>2, <2>4, <3>2 DEF Below, Merge
  <2>5. CASE n = Boundary' /\ Upstream(n)' # <<>>
    BY <1>8, <2>2, <2>5
  <2> QED BY <2>3, <2>4, <2>5
<1>11. FactsBelow'
  BY <1>2, <1>10 DEF FactsBelow
<1>12. FactsSettled'
  BY <1>2, <1>8 DEF FactsSettled
<1>13. SourcesKept'
  BY <1>2, <1>3 DEF SourcesKept
<1> QED BY <1>1, <1>7, <1>11, <1>12, <1>13 DEF RunInv

LEMMA MergedKept ==
  ASSUME UNCHANGED <<graphVars, direction, before, after>>
  PROVE  \A n : Merged(n)' = Merged(n)
<1>1. \A s : MergeOf(s)' = MergeOf(s)
  BY DEF MergeOf, Merge, Extreme
<1>2. \A n : Upstream(n)' = Upstream(n)
  BY GraphRead
<1> QED BY <1>1, <1>2 DEF Merged

(* A visit leaves a fact that no solution is below. *)
LEMMA MergedBelow ==
  ASSUME UpstreamExact, RunTyped, FactsBelow, NEW n \in Nodes,
         NEW X \in [Nodes -> Value], Respects(X)
  PROVE  Below(Merged(n), X[n])
<1>1. CASE Upstream(n) = <<>>
  BY <1>1 DEF FactsBelow, Merged
<1>2. CASE Upstream(n) # <<>>
  <2> DEFINE up == Upstream(n)
  <2>1. up \in Seq(Nodes) /\ after \in [Nodes -> Value] /\ X[n] \in Value /\ kind \in Seq(Kind)
    BY DEF UpstreamExact, RunTyped
  <2>2. ASSUME NEW j \in DOMAIN up PROVE Below(after[up[j]], X[n])
    <3>1. PICK e \in ToSet(edges) : Source(e) = up[j] /\ Target(e) = n
      BY DEF UpstreamExact
    <3>2. up[j] \in Nodes
      BY <2>1
    <3>3. Below(Effect(up[j], X[up[j]]), X[n])
      BY <3>1 DEF Respects
    <3>4. Below(after[up[j]], Effect(up[j], X[up[j]]))
      BY <3>2 DEF FactsBelow
    <3>5. after[up[j]] \in Value /\ X[up[j]] \in Value
      BY <2>1, <3>2
    <3>6. Effect(up[j], X[up[j]]) \in Value
      BY <2>1, <3>2, <3>5, EffectLaws
    <3> QED BY <2>1, <3>3, <3>4, <3>5, <3>6, BelowLaws
  <2>3. Below(MergeOf(up), X[n])
    <3> HIDE DEF up
    <3> QED BY <2>1, <2>2, MergeOfIsLeast
  <2> QED BY <1>2, <2>3 DEF Merged
<1> QED BY <1>1, <1>2

LEMMA VisitKeeps ==
  ASSUME MonotoneTransfer, GraphInv, RunInv, Visit
  PROVE  RunInv'
<1> DEFINE n == Head(todo)
           up == Merged(n)
<1>1. RunTyped /\ FactsBelow /\ FactsSettled /\ SourcesKept /\ phase = "running"
  BY DEF RunInv, Visit
<1>2. UpstreamExact /\ kind \in Seq(Kind)
  BY <1>1, UpstreamIs DEF RunTyped
<1>3. /\ before' = [before EXCEPT ![n] = up] /\ after' = [after EXCEPT ![n] = Effect(n, up)]
      /\ UNCHANGED <<graphVars, direction, order>>
      /\ \/ /\ Len(todo) > 1 /\ todo' = Tail(todo) /\ changed' = Changed(n, up) /\ phase' = "running"
         \/ /\ ~(Len(todo) > 1) /\ Changed(n, up) /\ phase' = "running" /\ todo' = order /\ ~changed'
         \/ /\ ~(Len(todo) > 1) /\ ~Changed(n, up) /\ phase' = "done" /\ todo' = order /\ ~changed'
  BY <1>1 DEF Visit
<1>4. /\ Nodes' = Nodes /\ Boundary' = Boundary /\ kind' = kind /\ strained' = strained
      /\ direction' = direction /\ order' = order
      /\ \A m : Upstream(m)' = Upstream(m)
      /\ \A m, v : Effect(m, v)' = Effect(m, v)
      /\ \A a, b : Below(a, b)' = Below(a, b)
      /\ \A X : Respects(X)' = Respects(X)
  BY <1>3, GraphRead DEF graphVars
<1>5. /\ todo \in Seq(Nodes) /\ todo # <<>> /\ n \in Nodes /\ Tail(todo) \in Seq(Nodes)
      /\ (Len(todo) > 1 => Tail(todo) # <<>>)
      /\ \A m \in ToSet(todo) : m = n \/ (Len(todo) > 1 /\ m \in ToSet(Tail(todo)))
  <2>1. /\ todo \in Seq(Nodes) /\ todo # <<>>
    BY <1>1 DEF RunTyped
  <2>2. /\ n = todo[1] /\ n \in Nodes /\ Len(todo) \in Nat \ {0} /\ DOMAIN todo = 1 .. Len(todo)
        /\ Tail(todo) \in Seq(Nodes) /\ DOMAIN Tail(todo) = 1 .. Len(todo) - 1
        /\ \A i \in 1 .. Len(todo) - 1 : Tail(todo)[i] = todo[i + 1]
    <3>1. /\ Tail(todo) \in Seq(Nodes) /\ Len(Tail(todo)) = Len(todo) - 1
          /\ \A i \in 1 .. Len(Tail(todo)) : Tail(todo)[i] = todo[i + 1]
      BY <2>1, HeadTailProperties
    <3>2. Len(todo) \in Nat \ {0} /\ DOMAIN todo = 1 .. Len(todo)
      BY <2>1
    <3>3. n = todo[1] /\ todo[1] \in Nodes
      BY <2>1, <3>2
    <3>4. DOMAIN Tail(todo) = 1 .. Len(Tail(todo))
      BY <3>1
    <3> QED BY <3>1, <3>2, <3>3, <3>4
  <2>3. Len(todo) > 1 => Tail(todo) # <<>>
    <3>1. Len(todo) > 1 => 1 \in DOMAIN Tail(todo)
      BY <2>2
    <3>2. 1 \notin DOMAIN <<>>
      OBVIOUS
    <3> QED BY <3>1, <3>2
  <2>4. ASSUME NEW i \in DOMAIN todo, i # 1
        PROVE  Len(todo) > 1 /\ todo[i] \in ToSet(Tail(todo))
    <3>1. i - 1 \in 1 .. Len(todo) - 1 /\ (i - 1) + 1 = i /\ Len(todo) > 1
      BY <2>2, <2>4
    <3>2. Tail(todo)[i - 1] = todo[i] /\ i - 1 \in DOMAIN Tail(todo)
      BY <2>2, <3>1
    <3> QED BY <3>1, <3>2 DEF ToSet
  <2> HIDE DEF n
  <2> QED BY <2>1, <2>2, <2>3, <2>4 DEF ToSet
<1>6. before \in [Nodes -> Value] /\ after \in [Nodes -> Value]
  BY <1>1 DEF RunTyped
<1>7. up \in Value /\ Effect(n, up) \in Value
  <2>1. Upstream(n) \in Seq(Nodes)
    BY <1>2, <1>5 DEF UpstreamExact
  <2>2. MergeOf(Upstream(n)) \in Value
    BY <1>6, <2>1, MergeOfIsLeast
  <2>3. up \in Value
    BY <1>5, <1>6, <2>2 DEF Merged
  <2> HIDE DEF n, up
  <2> QED BY <1>2, <1>5, <2>3, EffectLaws
<1>8. up = Merged(n) /\ n = Head(todo)
  OBVIOUS
<1> HIDE DEF n, up
<1>9. /\ before' \in [Nodes -> Value] /\ after' \in [Nodes -> Value]
      /\ before'[n] = up /\ after'[n] = Effect(n, up)
      /\ \A m \in Nodes : m # n => before'[m] = before[m] /\ after'[m] = after[m]
  BY <1>3, <1>5, <1>6, <1>7
<1>10. order \in Seq(Nodes) /\ order # <<>> /\ Nodes \subseteq ToSet(order) /\ ~strained
  BY <1>1 DEF RunTyped
<1>11. RunTyped'
  <2>1. todo' \in Seq(Nodes) /\ todo' # <<>> /\ (phase' = "done" => ~changed')
    BY <1>3, <1>5, <1>10
  <2> QED BY <1>2, <1>4, <1>9, <1>10, <2>1 DEF RunTyped
<1>12. \A m \in Nodes : m \in Pending => m = n \/ m \in Pending' \/ phase' = "done"
  <2>1. Pending = ToSet(todo)
    BY <1>1 DEF Pending
  <2>2. phase' # "done" => Pending' = ToSet(todo')
    BY <1>3 DEF Pending
  <2> SUFFICES ASSUME NEW m \in Nodes, m \in ToSet(todo), m # n, phase' # "done"
               PROVE  m \in ToSet(todo')
    BY <2>1, <2>2
  <2>3. Len(todo) > 1 /\ m \in ToSet(Tail(todo))
    BY <1>5
  <2>4. todo' = Tail(todo)
    BY <1>3, <2>3
  <2> QED BY <2>3, <2>4
<1>13. phase' = "done" => ~Changed(n, up) /\ \A m \in Pending : m = n
  <2>1. Pending = ToSet(todo)
    BY <1>1 DEF Pending
  <2> QED BY <1>3, <1>5, <2>1
<1>14. \A m \in Nodes : m \in Pending => m = n \/ m \in Pending'
  BY <1>12, <1>13
<1>15. ~changed' => ~Changed(n, up) \/ Nodes \subseteq Pending'
  <2>1. phase' # "done" => Pending' = ToSet(todo')
    BY <1>3 DEF Pending
  <2> QED BY <1>3, <1>10, <2>1
<1>16. ASSUME NEW X \in [Nodes -> Value], Respects(X), NEW m \in Nodes
       PROVE  /\ \/ m \in Pending' /\ m = Boundary /\ Upstream(m) # <<>>
                 \/ Below(before'[m], X[m])
              /\ Below(after'[m], Effect(m, X[m]))
  <2>1. CASE m = n
    <3>1. Below(up, X[n])
      BY <1>1, <1>2, <1>5, <1>8, <1>16, MergedBelow
    <3>2. X[n] \in Value
      BY <1>5
    <3>3. Below(Effect(n, up), Effect(n, X[n]))
      BY <1>2, <1>5, <1>7, <3>1, <3>2, EffectLaws
    <3> QED BY <1>9, <2>1, <3>1, <3>3
  <2>2. CASE m # n
    <3>1. before'[m] = before[m] /\ after'[m] = after[m]
      BY <1>9, <2>2
    <3>2. /\ \/ m \in Pending /\ m = Boundary /\ Upstream(m) # <<>>
             \/ Below(before[m], X[m])
          /\ Below(after[m], Effect(m, X[m]))
      BY <1>1, <1>16 DEF FactsBelow
    <3> QED BY <1>14, <2>2, <3>1, <3>2
  <2> QED BY <2>1, <2>2
<1>17. FactsBelow'
  BY <1>4, <1>16 DEF FactsBelow
<1>18. ASSUME ~changed', NEW m \in Nodes, m \notin Pending'
       PROVE  before'[m] = Merged(m)' /\ after'[m] = Effect(m, before'[m])
  <2>1. ~changed /\ before[n] = up /\ after[n] = Effect(n, up)
    BY <1>15, <1>18 DEF Changed
  <2>2. before' = before /\ after' = after
    BY <1>3, <1>6, <2>1
  <2>3. Merged(m)' = Merged(m)
    BY <1>3, <2>2, MergedKept
  <2>4. CASE m = n
    BY <1>8, <2>1, <2>2, <2>3, <2>4
  <2>5. CASE m # n
    <3>1. m \notin Pending
      BY <1>14, <1>18, <2>5
    <3> QED BY <1>1, <2>1, <2>2, <2>3, <3>1 DEF FactsSettled
  <2> QED BY <2>4, <2>5
<1>19. FactsSettled'
  BY <1>4, <1>18 DEF FactsSettled
<1>20. SourcesKept'
  <2> SUFFICES ASSUME NEW m \in Nodes, Upstream(m) = <<>>
               PROVE  before'[m] = IF m = Boundary THEN Initial ELSE Extreme(direction)
    BY <1>4 DEF SourcesKept
  <2>1. before'[m] = before[m]
    BY <1>8, <1>9 DEF Merged
  <2> QED BY <1>1, <2>1 DEF SourcesKept
<1>21. phase' \in {"idle", "running", "done"}
  BY <1>3
<1> QED BY <1>11, <1>17, <1>19, <1>20, <1>21 DEF RunInv

(* A run that ends has the least facts. *)
LEMMA DoneIsLeast ==
  ASSUME GraphInv, RunInv
  PROVE  FinishedIsLeast
<1> SUFFICES ASSUME phase = "done", ~strained
             PROVE  /\ Respects(before)
                    /\ \A n \in Nodes : after[n] = Effect(n, before[n])
                    /\ \A X \in [Nodes -> Value] : Respects(X) =>
                         \A n \in Nodes : Below(before[n], X[n])
  BY DEF FinishedIsLeast
<1>1. RunTyped /\ FactsBelow /\ SourcesKept /\ Pending = {}
  BY DEF RunInv, Pending
<1>2. \A n \in Nodes : before[n] = Merged(n) /\ after[n] = Effect(n, before[n])
  BY <1>1 DEF RunInv, RunTyped, FactsSettled
<1>3. UpstreamExact /\ after \in [Nodes -> Value]
  BY <1>1, UpstreamIs DEF RunTyped
<1>4. ASSUME NEW e \in ToSet(edges)
      PROVE  Below(Effect(Source(e), before[Source(e)]), before[Target(e)])
  <2> DEFINE s == Source(e)
             t == Target(e)
             up == Upstream(t)
  <2>1. s \in Nodes /\ t \in Nodes
    BY <1>3 DEF UpstreamExact
  <2>2. up \in Seq(Nodes) /\ \E j \in DOMAIN up : up[j] = s
    BY <1>3, <2>1 DEF UpstreamExact
  <2>3. before[t] = Merged(t) /\ after[s] = Effect(s, before[s])
    BY <1>2, <2>1
  <2>4. up # <<>> => Merged(t) = MergeOf(up)
    BY DEF Merged
  <2> HIDE DEF s, t, up
  <2>5. PICK j \in DOMAIN up : up[j] = s
    BY <2>2
  <2>6. Below(after[up[j]], MergeOf(up))
    BY <1>3, <2>2, MergeOfIsLeast
  <2>7. up # <<>>
    BY <2>2
  <2>8. Below(Effect(s, before[s]), before[t])
    BY <2>3, <2>4, <2>5, <2>6, <2>7
  <2> QED BY <2>8 DEF s, t
<1>5. ASSUME Boundary \in Nodes \ {Target(e) : e \in ToSet(edges)}
      PROVE  Below(Initial, before[Boundary])
  <2>1. Upstream(Boundary) = <<>>
    <3> DEFINE up == Upstream(Boundary)
    <3>1. up \in Seq(Nodes) /\ \A j \in DOMAIN up : \E e \in ToSet(edges) : Target(e) = Boundary
      BY <1>3, <1>5 DEF UpstreamExact
    <3>2. DOMAIN up = {}
      BY <1>5, <3>1
    <3> HIDE DEF up
    <3>3. up = <<>>
      BY <3>1, <3>2
    <3> QED BY <3>3 DEF up
  <2>2. before[Boundary] = Initial
    BY <1>1, <1>5, <2>1 DEF SourcesKept
  <2> QED BY <2>2, BelowLaws, DomainAssumption
<1>6. Respects(before)
  BY <1>4, <1>5 DEF Respects
<1>7. \A X \in [Nodes -> Value] : Respects(X) => \A n \in Nodes : Below(before[n], X[n])
  BY <1>1 DEF FactsBelow
<1> QED BY <1>2, <1>6, <1>7

LEMMA RunStarts ==
  ASSUME AnalysisInit
  PROVE  RunInv
BY DEF AnalysisInit, RunInv

LEMMA RunKept ==
  ASSUME MonotoneTransfer, GraphInv, RunInv, [DataflowNext]_vars, GraphInv'
  PROVE  RunInv'
<1>1. CASE ChangeGraph
  BY <1>1 DEF ChangeGraph, analysisVars, RunInv
<1>2. CASE \E d \in Direction : Start(d)
  BY <1>2, StartKeeps
<1>3. CASE Visit
  BY <1>3, VisitKeeps
<1>4. CASE Drop
  BY <1>4 DEF Drop, RunInv
<1>5. CASE UNCHANGED vars
  <2>1. UNCHANGED <<graphVars, direction, order, todo, changed, phase, before, after>>
    BY <1>5 DEF vars, analysisVars
  <2>2. Nodes' = Nodes /\ kind' = kind /\ strained' = strained /\ Pending' = Pending
    BY <2>1, GraphRead DEF graphVars, Pending
  <2>3. RunTyped' = RunTyped
    BY <2>1, <2>2 DEF RunTyped
  <2>4. FactsBelow' = FactsBelow
    BY <2>1, <2>2, GraphRead DEF FactsBelow
  <2>5. FactsSettled' = FactsSettled
    BY <2>1, <2>2, GraphRead, MergedKept DEF FactsSettled
  <2>6. SourcesKept' = SourcesKept
    BY <2>1, <2>2, GraphRead DEF SourcesKept
  <2> QED BY <2>1, <2>3, <2>4, <2>5, <2>6 DEF RunInv
<1> QED BY <1>1, <1>2, <1>3, <1>4, <1>5 DEF DataflowNext

(***************************************************************************)
(* For any graph, any lattice and any order of the nodes, a finished       *)
(* analysis holds the least facts that respect the edges and the boundary, *)
(* given what the trait does not say: that transfer functions are          *)
(* monotone.                                                               *)
(***************************************************************************)
THEOREM FinishedAlwaysLeast ==
  ASSUME MonotoneTransfer
  PROVE  DataflowSpec => []FinishedIsLeast
<1>1. DataflowInit => GraphInv /\ RunInv
  BY GraphStarts, RunStarts DEF DataflowInit
<1>2. GraphInv /\ RunInv /\ [DataflowNext]_vars => GraphInv' /\ RunInv'
  BY GraphKept, RunKept
<1>3. GraphInv /\ RunInv => FinishedIsLeast
  BY DoneIsLeast
<1> QED BY <1>1, <1>2, <1>3, PTL DEF DataflowSpec

=============================================================================
