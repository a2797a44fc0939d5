--------------------------- MODULE UnionFindProofs ---------------------------
(***************************************************************************)
(* OwnershipUnionFind represents the sets its callers have united, and     *)
(* answers as Partition says, for any finite set of elements.  The         *)
(* inductive invariant is UFTypeOK /\ RepresentsSets.  Its key is that a   *)
(* root has a higher rank than every other member of its set: it makes the *)
(* root unique, and shows that the pointers compress_path installs lead    *)
(* upwards, without an induction on the length of a path.                  *)
(***************************************************************************)
EXTENDS UnionFind, FiniteSetTheorems, TLAPS

IInv == UFTypeOK /\ RepresentsSets

SetsInv == ClassInv /\ ForestInv

-----------------------------------------------------------------------------
(* Facts about the sets. *)

(* Two roots of one set are the same element. *)
LEMMA OneRoot ==
  ASSUME ForestInv, NEW r, NEW s, IsRoot(r), IsRoot(s), class[r] = class[s]
  PROVE  r = s
BY DEF ForestInv, IsRoot

(* A set of elements is finite. *)
LEMMA ClassesFinite ==
  ASSUME UFTypeOK, NEW x \in Element
  PROVE  IsFiniteSet(class[x])
<1>1. class[x] \in SUBSET Element
  BY DEF UFTypeOK
<1> QED BY <1>1, FS_Subset, ElementAssumption

(* The initial state: no element is there, and no call is running. *)
LEMMA InitInv == UFInit => IInv
<1> SUFFICES ASSUME UFInit PROVE IInv
  OBVIOUS
<1>1. PICK x \in Element : arg = Pair(x, x) /\ cursor = x
  BY DEF UFInit
<1>2. UFTypeOK
  <2>1. Present = {}
    BY DEF UFInit, Present
  <2>2. parent \in [Present -> Present] /\ rank \in [Present -> Nat] /\ size \in [Present -> Nat]
    BY <2>1 DEF UFInit
  <2>3. arg \in [{1, 2} -> Element] /\ cursor \in Element
    BY <1>1 DEF Pair
  <2>4. root \in [{1, 2} -> Element \cup {NoRoot}]
    BY DEF UFInit, Pair
  <2>5. class \in [Element -> SUBSET Element]
    BY DEF UFInit
  <2>6. /\ pc \in {"idle", "find", "climb", "compress"}
        /\ op \in {"union", "connected", "set_size"}
        /\ last \in {1, 2} /\ turn \in 1 .. (last + 1) /\ members \in Nat
    BY DEF UFInit
  <2>7. together \in BOOLEAN
    BY DEF UFInit
  <2>8. Present \subseteq Element
    BY <2>1
  <2> QED BY <2>2, <2>3, <2>4, <2>5, <2>6, <2>7, <2>8, Zenon DEF UFTypeOK
<1>3. ClassInv
  BY DEF UFInit, ClassInv, Present
<1>4. ForestInv
  BY DEF UFInit, ForestInv, Present
<1>5. CallInv
  BY DEF UFInit, CallInv
<1> QED BY <1>2, <1>3, <1>4, <1>5 DEF IInv, RepresentsSets

-----------------------------------------------------------------------------
(* make_set. *)

(* The maps stay maps of the elements present. *)
LEMMA MakeSetsType ==
  ASSUME UFTypeOK, NEW S \in SUBSET Element, MakeSets(S)
  PROVE  /\ Present' = Present \cup S
         /\ Present' \subseteq Element
         /\ parent' \in [Present' -> Present']
         /\ rank' \in [Present' -> Nat]
         /\ size' \in [Present' -> Nat]
         /\ class' \in [Element -> SUBSET Element]
<1>1. Present' = Present \cup S
  BY DEF MakeSets, Present
<1>2. DOMAIN class = Element
  BY DEF UFTypeOK
<1>3. class' \in [Element -> SUBSET Element]
  BY <1>2 DEF MakeSets, Inserted, UFTypeOK
<1>4. parent' \in [Present \cup S -> Present \cup S]
  BY DEF MakeSets, UFTypeOK
<1>5. rank' \in [Present \cup S -> Nat] /\ size' \in [Present \cup S -> Nat]
  BY DEF MakeSets, UFTypeOK
<1> QED BY <1>1, <1>3, <1>4, <1>5 DEF UFTypeOK

(* What a new element gets, and that an old one keeps what it had. *)
LEMMA MakeSetsValues ==
  ASSUME UFTypeOK, ClassInv, NEW S \in SUBSET Element, MakeSets(S)
  PROVE  /\ Present' = Present \cup S
         /\ \A x \in Present : /\ parent'[x] = parent[x] /\ rank'[x] = rank[x]
                               /\ size'[x] = size[x] /\ class'[x] = class[x]
         /\ \A x \in S \ Present : /\ parent'[x] = x /\ rank'[x] = 0
                                   /\ size'[x] = 1 /\ class'[x] = {x}
         /\ \A x \in Element \ Present' : class'[x] = {}
<1>1. Present' = Present \cup S
  BY DEF MakeSets, Present
<1>2. DOMAIN class = Element /\ Present \subseteq Element
  BY DEF UFTypeOK
<1>3. \A x \in Element : class'[x] = IF x \in S /\ class[x] = {} THEN {x} ELSE class[x]
  BY <1>2 DEF MakeSets, Inserted
<1>4. \A x \in Present : class[x] # {}
  BY <1>2 DEF ClassInv
<1>5. \A x \in Element \ Present : class[x] = {}
  BY DEF ClassInv
<1>6. \A x \in Present : /\ parent'[x] = parent[x] /\ rank'[x] = rank[x] /\ size'[x] = size[x]
  BY DEF MakeSets
<1>7. \A x \in S \ Present : parent'[x] = x /\ rank'[x] = 0 /\ size'[x] = 1
  BY DEF MakeSets
<1> QED BY <1>1, <1>2, <1>3, <1>4, <1>5, <1>6, <1>7

(* New elements are in sets of their own; the other sets are untouched. *)
LEMMA MakeSetsInv ==
  ASSUME UFTypeOK, SetsInv, NEW S \in SUBSET Element, MakeSets(S)
  PROVE  SetsInv'
<1> USE DEF SetsInv
<1>1. Present' = Present \cup S
  BY MakeSetsValues
<1>2. \A x \in Present : /\ parent'[x] = parent[x] /\ rank'[x] = rank[x]
                         /\ size'[x] = size[x] /\ class'[x] = class[x]
  BY MakeSetsValues
<1>3. \A x \in S \ Present : /\ parent'[x] = x /\ rank'[x] = 0
                             /\ size'[x] = 1 /\ class'[x] = {x}
  BY MakeSetsValues
<1>4. \A x \in Element \ Present' : class'[x] = {}
  BY MakeSetsValues
<1>5. \A x \in Present : x \in class[x] /\ class[x] \subseteq Present /\ parent[x] \in Present
  BY DEF ClassInv, UFTypeOK
<1>6. ClassInv'
  <2>1. \A x \in Element : x \in Present' <=> class'[x] # {}
    BY <1>1, <1>2, <1>3, <1>4, <1>5
  <2>2. \A x \in Present' : x \in class'[x] /\ class'[x] \subseteq Present'
    BY <1>1, <1>2, <1>3, <1>5
  <2>3. \A x \in Present' : \A y \in class'[x] : class'[y] = class'[x]
    BY <1>1, <1>2, <1>3, <1>5 DEF ClassInv
  <2> QED BY <2>1, <2>2, <2>3 DEF ClassInv
<1>7. \A x \in Present : IsRoot(x)' <=> IsRoot(x)
  BY <1>1, <1>2 DEF IsRoot
<1>8. ForestInv'
  <2>1. \A x \in Present' : class'[parent'[x]] = class'[x]
    BY <1>1, <1>2, <1>3, <1>5 DEF ForestInv
  <2>2. \A x \in Present' : parent'[x] # x => rank'[x] < rank'[parent'[x]]
    BY <1>1, <1>2, <1>3, <1>5 DEF ForestInv
  <2>3. ASSUME NEW r \in Present', NEW x \in Present', IsRoot(r)', class'[x] = class'[r], x # r
        PROVE  ~IsRoot(x)' /\ rank'[x] < rank'[r]
    <3>1. r \in Present /\ x \in Present
      BY <2>3, <1>1, <1>2, <1>3, <1>5
    <3> QED BY <2>3, <3>1, <1>2, <1>7 DEF ForestInv
  <2>4. ASSUME NEW r \in Present', IsRoot(r)'
        PROVE  size'[r] = Cardinality(class'[r])
    <3>1. CASE r \in Present
      BY <2>4, <3>1, <1>2, <1>7 DEF ForestInv
    <3>2. CASE r \in S \ Present
      BY <3>2, <1>3, FS_Singleton
    <3> QED BY <3>1, <3>2, <1>1
  <2> QED BY <2>1, <2>2, <2>3, <2>4 DEF ForestInv
<1> QED BY <1>6, <1>8

-----------------------------------------------------------------------------
(* Uniting two sets: the sets themselves. *)

(* Joined is a partition again. *)
LEMMA JoinedClasses ==
  ASSUME UFTypeOK, ClassInv, NEW x \in Present, NEW y \in Present,
         Present' = Present, class' = Joined(class, x, y)
  PROVE  /\ class' \in [Element -> SUBSET Element]
         /\ ClassInv'
         /\ \A z \in Element :
              class'[z] = IF z \in class[x] \cup class[y] THEN class[x] \cup class[y] ELSE class[z]
<1> DEFINE U == class[x] \cup class[y]
<1>1. DOMAIN class = Element /\ Present \subseteq Element
  BY DEF UFTypeOK
<1>2. \A z \in Element : class'[z] = IF z \in U THEN U ELSE class[z]
  BY <1>1 DEF Joined
<1>3. class' \in [Element -> SUBSET Element]
  BY <1>1 DEF Joined, UFTypeOK
<1>4. x \in U /\ U \subseteq Present
  BY DEF ClassInv
<1>5. \A z \in Present : z \notin U => class[z] \cap U = {}
  <2> SUFFICES ASSUME NEW z \in Present, NEW w \in class[z], w \in U
               PROVE  z \in U
    OBVIOUS
  <2>1. class[w] = class[z]
    BY DEF ClassInv
  <2>2. class[w] = class[x] \/ class[w] = class[y]
    BY DEF ClassInv
  <2>3. z \in class[z]
    BY DEF ClassInv
  <2> QED BY <2>1, <2>2, <2>3
<1> HIDE DEF U
<1>6. \A z \in Element : z \in Present' <=> class'[z] # {}
  BY <1>1, <1>2, <1>4 DEF ClassInv
<1>7. \A z \in Present' : z \in class'[z] /\ class'[z] \subseteq Present'
  BY <1>1, <1>2, <1>4 DEF ClassInv
<1>8. \A z \in Present' : \A w \in class'[z] : class'[w] = class'[z]
  <2> SUFFICES ASSUME NEW z \in Present, NEW w \in class'[z]
               PROVE  class'[w] = class'[z]
    OBVIOUS
  <2>1. CASE z \in U
    <3>1. class'[z] = U
      BY <2>1, <1>1, <1>2
    <3> QED BY <3>1, <1>1, <1>2, <1>4
  <2>2. CASE z \notin U
    <3>1. class'[z] = class[z]
      BY <2>2, <1>1, <1>2
    <3>2. w \notin U /\ class[w] = class[z] /\ w \in Element
      BY <3>1, <2>2, <1>1, <1>5 DEF ClassInv
    <3> QED BY <3>1, <3>2, <1>2
  <2> QED BY <2>1, <2>2
<1> QED BY <1>2, <1>3, <1>6, <1>7, <1>8 DEF ClassInv, U

(* Link hangs one root below another of no smaller rank. *)
LEMMA LinkInv ==
  ASSUME UFTypeOK, SetsInv, NEW a, NEW b, NEW x \in Present, NEW y \in Present,
         IsRoot(a), IsRoot(b), class[a] # class[b], rank[a] <= rank[b],
         class[x] \cup class[y] = class[a] \cup class[b],
         class' = Joined(class, x, y), Link(a, b)
  PROVE  /\ Present' = Present
         /\ parent' \in [Present -> Present]
         /\ rank' \in [Present -> Nat]
         /\ size' \in [Present -> Nat]
         /\ class' \in [Element -> SUBSET Element]
         /\ SetsInv'
<1> DEFINE U == class[a] \cup class[b]
<1>1. /\ a \in Present /\ b \in Present /\ a # b
      /\ parent[a] = a /\ parent[b] = b
  BY DEF IsRoot
<1>2. Present \subseteq Element
  BY DEF UFTypeOK
<1>3. Present' = Present
  BY DEF Link, Present
<1>4. /\ parent' \in [Present -> Present]
      /\ \A z \in Present : parent'[z] = IF z = a THEN b ELSE parent[z]
  BY <1>1 DEF Link, UFTypeOK
<1>5. /\ rank' \in [Present -> Nat]
      /\ \A z \in Present : z # b => rank'[z] = rank[z]
      /\ rank[a] < rank'[b] /\ rank[b] <= rank'[b]
  BY <1>1 DEF Link, UFTypeOK
<1>6. /\ size' \in [Present -> Nat]
      /\ \A z \in Present : z # b => size'[z] = size[z]
      /\ size'[b] = size[a] + size[b]
  BY <1>1 DEF Link, UFTypeOK
<1>7. /\ class' \in [Element -> SUBSET Element]
      /\ ClassInv'
      /\ \A z \in Present : class'[z] = IF z \in U THEN U ELSE class[z]
  BY <1>2, <1>3, JoinedClasses DEF SetsInv
<1>8. /\ \A z \in Present : class[z] = class[a] <=> z \in class[a]
      /\ \A z \in Present : class[z] = class[b] <=> z \in class[b]
  BY <1>1 DEF SetsInv, ClassInv
<1>9. a \in U /\ b \in U
  BY <1>1 DEF SetsInv, ClassInv
<1>10. \A z \in Present : IsRoot(z)' <=> IsRoot(z) /\ z # a
  BY <1>1, <1>3, <1>4 DEF IsRoot
<1>11. \A z \in Present : z \in U => rank'[z] <= rank'[b] /\ (z # b => rank'[z] < rank'[b])
  <2> SUFFICES ASSUME NEW z \in Present, z \in U, z # b
               PROVE  rank'[z] < rank'[b]
    BY <1>1, <1>5
  <2>1. rank'[z] = rank[z] /\ rank[z] \in Nat /\ rank[a] \in Nat /\ rank[b] \in Nat
        /\ rank'[b] \in Nat
    BY <1>1, <1>5 DEF UFTypeOK
  <2>2. CASE class[z] = class[a]
    <3>1. z = a \/ rank[z] < rank[a]
      BY <2>2, <1>1 DEF SetsInv, ForestInv
    <3> QED BY <3>1, <2>1, <1>5
  <2>3. CASE class[z] = class[b]
    <3>1. rank[z] < rank[b]
      BY <2>3, <1>1 DEF SetsInv, ForestInv
    <3> QED BY <3>1, <2>1, <1>5
  <2> QED BY <2>2, <2>3, <1>8
<1>12. \A z \in Present : parent'[z] # z => rank'[z] < rank'[parent'[z]]
  <2> SUFFICES ASSUME NEW z \in Present, parent'[z] # z
               PROVE  rank'[z] < rank'[parent'[z]]
    OBVIOUS
  <2>1. CASE z = a
    BY <2>1, <1>1, <1>4, <1>5
  <2>2. CASE z # a
    <3>1. parent'[z] = parent[z] /\ parent[z] # z /\ parent[z] \in Present /\ z # b
      BY <2>2, <1>1, <1>4 DEF UFTypeOK
    <3>2. rank[z] < rank[parent[z]]
      BY <3>1 DEF SetsInv, ForestInv
    <3>3. rank'[z] = rank[z]
      BY <3>1, <1>5
    <3>4. rank[z] \in Nat /\ rank[parent[z]] \in Nat /\ rank'[parent[z]] \in Nat
      BY <3>1, <1>5 DEF UFTypeOK
    <3>5. rank[parent[z]] <= rank'[parent[z]]
      BY <3>1, <3>4, <1>5
    <3> QED BY <3>1, <3>2, <3>3, <3>4, <3>5
  <2> QED BY <2>1, <2>2
<1>13. \A z \in Present : class'[parent'[z]] = class'[z]
  <2> SUFFICES ASSUME NEW z \in Present PROVE class'[parent'[z]] = class'[z]
    OBVIOUS
  <2>1. CASE z = a
    BY <2>1, <1>1, <1>4, <1>7, <1>9
  <2>2. CASE z # a
    <3>1. parent'[z] = parent[z] /\ parent[z] \in Present /\ class[parent[z]] = class[z]
      BY <2>2, <1>4 DEF UFTypeOK, SetsInv, ForestInv
    <3>2. parent[z] \in U <=> z \in U
      BY <3>1, <1>8
    <3> QED BY <3>1, <3>2, <1>7
  <2> QED BY <2>1, <2>2
<1>14. ASSUME NEW r \in Present, NEW z \in Present, IsRoot(r)', class'[z] = class'[r], z # r
       PROVE  ~IsRoot(z)' /\ rank'[z] < rank'[r]
  <2>1. IsRoot(r) /\ r # a
    BY <1>14, <1>10
  <2>2. z \in class'[z] /\ r \in class'[r]
    BY <1>3, <1>7 DEF ClassInv
  <2>3. CASE r \in U
    <3>1. r = b
      BY <2>1, <2>3, <1>1, <1>8, OneRoot DEF SetsInv
    <3>2. z \in U
      BY <1>14, <2>2, <2>3, <1>7
    <3>3. ~IsRoot(z) \/ z = a
      BY <3>1, <3>2, <1>14, <1>1, <1>8, OneRoot DEF SetsInv
    <3> QED BY <3>1, <3>2, <3>3, <1>14, <1>10, <1>11
  <2>4. CASE r \notin U
    <3>1. z \notin U
      BY <1>14, <2>2, <2>4, <1>7
    <3>2. class[z] = class[r]
      BY <3>1, <1>14, <2>4, <1>7
    <3>3. ~IsRoot(z) /\ rank[z] < rank[r]
      BY <3>2, <2>1, <1>14 DEF SetsInv, ForestInv
    <3>4. z # b /\ r # b
      BY <3>1, <2>4, <1>9
    <3> QED BY <3>3, <3>4, <1>5, <1>10
  <2> QED BY <2>3, <2>4
<1>15. ASSUME NEW r \in Present, IsRoot(r)'
       PROVE  size'[r] = Cardinality(class'[r])
  <2>1. IsRoot(r) /\ r # a
    BY <1>15, <1>10
  <2>2. CASE r = b
    <3>1. IsFiniteSet(class[a]) /\ IsFiniteSet(class[b])
      BY <1>1, <1>2, ClassesFinite
    <3>2. class[a] \cap class[b] = {}
      BY <1>1, <1>8 DEF SetsInv, ClassInv
    <3>3. Cardinality(class[a] \cap class[b]) = 0
      BY <3>2, FS_EmptySet
    <3>4. Cardinality(U) = Cardinality(class[a]) + Cardinality(class[b])
                             - Cardinality(class[a] \cap class[b])
      BY <3>1, FS_Union
    <3>5. size[a] = Cardinality(class[a]) /\ size[b] = Cardinality(class[b])
      BY <1>1 DEF SetsInv, ForestInv
    <3>6. size[a] \in Nat /\ size[b] \in Nat
      BY <1>1 DEF UFTypeOK
    <3>7. Cardinality(U) = size[a] + size[b]
      BY <3>3, <3>4, <3>5, <3>6
    <3> QED BY <3>7, <2>2, <1>1, <1>6, <1>7, <1>9
  <2>3. CASE r # b
    <3>1. r \notin U
      BY <2>1, <2>3, <1>1, <1>8, OneRoot DEF SetsInv
    <3>2. size[r] = Cardinality(class[r])
      BY <2>1 DEF SetsInv, ForestInv
    <3> QED BY <3>1, <3>2, <2>3, <1>6, <1>7
  <2> QED BY <2>2, <2>3
<1>16. ForestInv'
  BY <1>3, <1>12, <1>13, <1>14, <1>15 DEF ForestInv
<1> QED BY <1>3, <1>4, <1>5, <1>6, <1>7, <1>16 DEF SetsInv

-----------------------------------------------------------------------------
(* find: a path is compressed by pointing its nodes at the root. *)

(* What the calls of find leave alone. *)
LEMMA Untouched ==
  ASSUME SetsInv, UNCHANGED <<forest, class>>
  PROVE  SetsInv' /\ Present' = Present
BY DEF SetsInv, ClassInv, ForestInv, IsRoot, Present, forest

(* A set keeps its root, and ranks still rise along every pointer. *)
LEMMA CompressSets ==
  ASSUME IInv, Compress
  PROVE  /\ Present' = Present
         /\ parent' \in [Present -> Present]
         /\ SetsInv'
         /\ \A z \in Present : IsRoot(z)' <=> IsRoot(z)
         /\ parent[cursor] \in Present /\ class[parent[cursor]] = class[cursor]
<1> USE DEF IInv, RepresentsSets
<1> DEFINE r == root[turn]
<1>1. /\ pc = "compress" /\ cursor # r
      /\ parent' = [parent EXCEPT ![cursor] = r]
      /\ rank' = rank /\ size' = size /\ class' = class
  BY DEF Compress
<1>2. /\ turn \in {1, 2} /\ cursor \in Present /\ class[cursor] = class[arg[turn]]
      /\ IsRoot(r) /\ class[r] = class[arg[turn]]
  BY <1>1 DEF CallInv, RootOf, UFTypeOK
<1>3. r \in Present /\ parent[r] = r
  BY <1>2 DEF IsRoot
<1>4. ~IsRoot(cursor) /\ rank[cursor] < rank[r]
  BY <1>1, <1>2, <1>3 DEF ForestInv
<1> HIDE DEF r
<1>5. Present' = Present
  BY <1>1 DEF Present
<1>6. /\ parent' \in [Present -> Present]
      /\ \A z \in Present : parent'[z] = IF z = cursor THEN r ELSE parent[z]
  BY <1>1, <1>2, <1>3 DEF UFTypeOK
<1>7. \A z \in Present : IsRoot(z)' <=> IsRoot(z)
  BY <1>1, <1>4, <1>5, <1>6 DEF IsRoot
<1>8. ClassInv'
  BY <1>1, <1>5 DEF ClassInv
<1>9. ForestInv'
  <2>1. \A z \in Present : class'[parent'[z]] = class'[z]
    BY <1>1, <1>2, <1>6 DEF ForestInv
  <2>2. \A z \in Present : parent'[z] # z => rank'[z] < rank'[parent'[z]]
    BY <1>1, <1>4, <1>6 DEF ForestInv
  <2>3. \A s, z \in Present : IsRoot(s)' /\ class'[z] = class'[s] /\ z # s =>
          ~IsRoot(z)' /\ rank'[z] < rank'[s]
    BY <1>1, <1>7 DEF ForestInv
  <2>4. \A s \in Present : IsRoot(s)' => size'[s] = Cardinality(class'[s])
    BY <1>1, <1>7 DEF ForestInv
  <2> QED BY <1>5, <2>1, <2>2, <2>3, <2>4 DEF ForestInv
<1>10. parent[cursor] \in Present /\ class[parent[cursor]] = class[cursor]
  BY <1>2 DEF UFTypeOK, ForestInv
<1> QED BY <1>5, <1>6, <1>7, <1>8, <1>9, <1>10 DEF SetsInv

-----------------------------------------------------------------------------
(* The calls, one lemma for each action. *)

(* A new call has found no root yet. *)
LEMMA CallStarts ==
  ASSUME IInv, NEW x \in Element, NEW y \in Element, NEW n \in {1, 2},
         NEW name \in {"union", "connected", "set_size"}, (n = 1) = (name = "set_size"),
         Call(name, x, y, n),
         name = "union" => x \in Present' /\ y \in Present',
         Present' \subseteq Element /\ parent' \in [Present' -> Present'],
         rank' \in [Present' -> Nat] /\ size' \in [Present' -> Nat],
         class' \in [Element -> SUBSET Element]
  PROVE  UFTypeOK' /\ CallInv'
<1>1. /\ pc' = "find" /\ op' = name /\ last' = n /\ turn' = 1
      /\ cursor' = cursor /\ together' = together /\ members' = members
  BY DEF Call, answers
<1>2. arg' \in [{1, 2} -> Element] /\ arg'[1] = x /\ arg'[2] = y
  BY DEF Call, Pair
<1>3. root' \in [{1, 2} -> Element \cup {NoRoot}] /\ root'[1] = NoRoot /\ root'[2] = NoRoot
  BY DEF Call, Pair
<1>4. UFTypeOK'
  BY <1>1, <1>2, <1>3 DEF IInv, UFTypeOK
<1>5. CallInv'
  BY <1>1, <1>2, <1>3 DEF CallInv
<1> QED BY <1>4, <1>5

(* make_set, called by a client. *)
LEMMA MakeSetStep ==
  ASSUME IInv, NEW x \in Element, MakeSet(x)
  PROVE  IInv'
<1>1. /\ MakeSets({x}) /\ pc = "idle" /\ pc' = pc /\ op' = op /\ arg' = arg /\ last' = last
      /\ root' = root /\ turn' = turn /\ cursor' = cursor
      /\ together' = together /\ members' = members
  BY DEF MakeSet, callVars, answers
<1>2. UFTypeOK /\ SetsInv
  BY DEF IInv, RepresentsSets, SetsInv
<1>3. SetsInv'
  BY <1>1, <1>2, MakeSetsInv
<1>4. /\ Present' \subseteq Element
      /\ parent' \in [Present' -> Present']
      /\ rank' \in [Present' -> Nat]
      /\ size' \in [Present' -> Nat]
      /\ class' \in [Element -> SUBSET Element]
  BY <1>1, <1>2, MakeSetsType
<1>5. UFTypeOK'
  BY <1>1, <1>2, <1>4 DEF UFTypeOK
<1>6. CallInv'
  BY <1>1 DEF CallInv
<1> QED BY <1>3, <1>5, <1>6 DEF IInv, RepresentsSets, SetsInv

(* union adds both its arguments first. *)
LEMMA CallUnionStep ==
  ASSUME IInv, NEW x \in Element, NEW y \in Element, CallUnion(x, y)
  PROVE  IInv'
<1>1. MakeSets({x, y}) /\ Call("union", x, y, 2)
  BY DEF CallUnion
<1>2. UFTypeOK /\ SetsInv
  BY DEF IInv, RepresentsSets, SetsInv
<1>3. SetsInv'
  BY <1>1, <1>2, MakeSetsInv
<1>4. /\ Present' = Present \cup {x, y}
      /\ Present' \subseteq Element
      /\ parent' \in [Present' -> Present']
      /\ rank' \in [Present' -> Nat]
      /\ size' \in [Present' -> Nat]
      /\ class' \in [Element -> SUBSET Element]
  BY <1>1, <1>2, MakeSetsType
<1>5. x \in Present' /\ y \in Present'
  BY <1>4
<1>6. UFTypeOK' /\ CallInv'
  BY <1>1, <1>4, <1>5, CallStarts
<1> QED BY <1>3, <1>6 DEF IInv, RepresentsSets, SetsInv

(* connected and set_size add nothing. *)
LEMMA CallQueryStep ==
  ASSUME IInv, NEW x \in Element, NEW y \in Element,
         CallConnected(x, y) \/ CallSetSize(x)
  PROVE  IInv'
<1>1. UNCHANGED <<forest, class>>
  BY DEF CallConnected, CallSetSize
<1>2. SetsInv' /\ Present' = Present
  BY <1>1, Untouched DEF IInv, RepresentsSets, SetsInv
<1>3. /\ Present' \subseteq Element
      /\ parent' \in [Present' -> Present']
      /\ rank' \in [Present' -> Nat]
      /\ size' \in [Present' -> Nat]
      /\ class' \in [Element -> SUBSET Element]
  BY <1>1, <1>2 DEF IInv, UFTypeOK, forest
<1>4. CASE CallConnected(x, y)
  <2>1. Call("connected", x, y, 2)
    BY <1>4 DEF CallConnected
  <2>2. UFTypeOK' /\ CallInv'
    BY <2>1, <1>3, CallStarts
  <2> QED BY <2>2, <1>2 DEF IInv, RepresentsSets, SetsInv
<1>5. CASE CallSetSize(x)
  <2>1. Call("set_size", x, x, 1)
    BY <1>5 DEF CallSetSize
  <2>2. UFTypeOK' /\ CallInv'
    BY <2>1, <1>3, CallStarts
  <2> QED BY <2>2, <1>2 DEF IInv, RepresentsSets, SetsInv
<1> QED BY <1>4, <1>5

(* find begins, or answers None at once. *)
LEMMA FindStep ==
  ASSUME IInv, Find
  PROVE  IInv'
<1>1. /\ pc = "find" /\ turn <= last
      /\ UNCHANGED <<forest, class>>
      /\ op' = op /\ arg' = arg /\ last' = last /\ root' = root
      /\ together' = together /\ members' = members
  BY DEF Find, callVars, answers
<1>2. SetsInv' /\ Present' = Present
  BY <1>1, Untouched DEF IInv, RepresentsSets, SetsInv
<1>3. turn \in {1, 2} /\ last \in {1, 2} /\ arg[turn] \in Element
  BY <1>1 DEF IInv, UFTypeOK
<1>4. \A k \in {1, 2} : RootOf(k)' <=> RootOf(k)
  BY <1>1, <1>2 DEF RootOf, IsRoot, forest
<1>5. CASE arg[turn] \in Present
  <2>1. pc' = "climb" /\ cursor' = arg[turn] /\ turn' = turn
    BY <1>5 DEF Find
  <2>2. UFTypeOK'
    BY <1>1, <1>2, <1>3, <2>1 DEF IInv, UFTypeOK, forest
  <2>3. CallInv'
    BY <1>1, <1>2, <1>3, <1>4, <1>5, <2>1 DEF IInv, RepresentsSets, CallInv
  <2> QED BY <1>2, <2>2, <2>3 DEF IInv, RepresentsSets, SetsInv
<1>6. CASE arg[turn] \notin Present
  <2>1. pc' = pc /\ cursor' = cursor /\ turn' = turn + 1
    BY <1>6 DEF Find
  <2>2. UFTypeOK'
    BY <1>1, <1>2, <1>3, <2>1 DEF IInv, UFTypeOK, forest
  <2>3. CallInv'
    BY <1>1, <1>2, <1>3, <1>4, <1>6, <2>1 DEF IInv, RepresentsSets, CallInv
  <2> QED BY <1>2, <2>2, <2>3 DEF IInv, RepresentsSets, SetsInv
<1> QED BY <1>5, <1>6

(* find_root goes one pointer up, which stays in the set. *)
LEMMA ClimbStep ==
  ASSUME IInv, Climb
  PROVE  IInv'
<1>1. /\ pc = "climb" /\ pc' = pc /\ cursor' = parent[cursor]
      /\ UNCHANGED <<forest, class>>
      /\ op' = op /\ arg' = arg /\ last' = last /\ root' = root /\ turn' = turn
      /\ together' = together /\ members' = members
  BY DEF Climb, callVars, answers
<1>2. SetsInv' /\ Present' = Present
  BY <1>1, Untouched DEF IInv, RepresentsSets, SetsInv
<1>3. /\ turn \in {1, 2} /\ cursor \in Present /\ parent[cursor] \in Present
      /\ class[parent[cursor]] = class[arg[turn]]
  BY <1>1 DEF IInv, RepresentsSets, UFTypeOK, CallInv, ForestInv
<1>4. \A k \in {1, 2} : RootOf(k)' <=> RootOf(k)
  BY <1>1, <1>2 DEF RootOf, IsRoot, forest
<1>5. UFTypeOK'
  BY <1>1, <1>2, <1>3 DEF IInv, UFTypeOK, forest
<1>6. CallInv'
  BY <1>1, <1>2, <1>3, <1>4 DEF IInv, RepresentsSets, CallInv
<1> QED BY <1>2, <1>5, <1>6 DEF IInv, RepresentsSets, SetsInv

(* find_root is at the root of its argument's set. *)
LEMMA RootFoundStep ==
  ASSUME IInv, RootFound
  PROVE  IInv'
<1>1. /\ pc = "climb" /\ pc' = "compress" /\ parent[cursor] = cursor
      /\ root' = [root EXCEPT ![turn] = cursor] /\ cursor' = arg[turn]
      /\ UNCHANGED <<forest, class>>
      /\ op' = op /\ arg' = arg /\ last' = last /\ turn' = turn
      /\ together' = together /\ members' = members
  BY DEF RootFound, callVars, answers
<1>2. SetsInv' /\ Present' = Present
  BY <1>1, Untouched DEF IInv, RepresentsSets, SetsInv
<1>3. /\ turn \in {1, 2} /\ turn <= last /\ cursor \in Present /\ cursor \in Element
      /\ class[cursor] = class[arg[turn]] /\ arg[turn] \in Present
      /\ root \in [{1, 2} -> Element \cup {NoRoot}]
  BY <1>1 DEF IInv, RepresentsSets, UFTypeOK, CallInv
<1>4. /\ root' \in [{1, 2} -> Element \cup {NoRoot}]
      /\ root'[turn] = cursor
      /\ \A k \in {1, 2} : k # turn => root'[k] = root[k]
  BY <1>1, <1>3
<1>5. RootOf(turn)'
  BY <1>1, <1>2, <1>3, <1>4 DEF RootOf, IsRoot, forest
<1>6. \A k \in {1, 2} : k # turn => (RootOf(k)' <=> RootOf(k))
  BY <1>1, <1>2, <1>4 DEF RootOf, IsRoot, forest
<1>7. UFTypeOK'
  BY <1>1, <1>2, <1>3, <1>4 DEF IInv, UFTypeOK, forest
<1>8. CallInv'
  BY <1>1, <1>2, <1>3, <1>4, <1>5, <1>6 DEF IInv, RepresentsSets, CallInv
<1> QED BY <1>2, <1>7, <1>8 DEF IInv, RepresentsSets, SetsInv

(* compress_path points one node at the root. *)
LEMMA CompressStep ==
  ASSUME IInv, Compress
  PROVE  IInv'
<1>1. /\ pc = "compress" /\ pc' = pc /\ cursor' = parent[cursor]
      /\ rank' = rank /\ size' = size /\ class' = class
      /\ op' = op /\ arg' = arg /\ last' = last /\ root' = root /\ turn' = turn
      /\ together' = together /\ members' = members
  BY DEF Compress, callVars, answers
<1>2. /\ Present' = Present /\ parent' \in [Present -> Present] /\ SetsInv'
      /\ \A z \in Present : IsRoot(z)' <=> IsRoot(z)
      /\ parent[cursor] \in Present /\ class[parent[cursor]] = class[cursor]
  BY CompressSets
<1>3. turn \in {1, 2} /\ class[cursor] = class[arg[turn]]
  BY <1>1 DEF IInv, RepresentsSets, UFTypeOK, CallInv
<1>4. \A k \in {1, 2} : RootOf(k)' <=> RootOf(k)
  BY <1>1, <1>2 DEF RootOf, IsRoot
<1>5. UFTypeOK'
  BY <1>1, <1>2, <1>3 DEF IInv, UFTypeOK
<1>6. CallInv'
  BY <1>1, <1>2, <1>3, <1>4 DEF IInv, RepresentsSets, CallInv
<1> QED BY <1>2, <1>5, <1>6 DEF IInv, RepresentsSets, SetsInv

(* find returns. *)
LEMMA CompressedStep ==
  ASSUME IInv, Compressed
  PROVE  IInv'
<1>1. /\ pc = "compress" /\ pc' = "find" /\ turn' = turn + 1
      /\ UNCHANGED <<forest, class>>
      /\ op' = op /\ arg' = arg /\ last' = last /\ root' = root /\ cursor' = cursor
      /\ together' = together /\ members' = members
  BY DEF Compressed, callVars, answers
<1>2. SetsInv' /\ Present' = Present
  BY <1>1, Untouched DEF IInv, RepresentsSets, SetsInv
<1>3. /\ turn \in {1, 2} /\ last \in {1, 2} /\ turn <= last
      /\ RootOf(turn) /\ arg[turn] \in Present
  BY <1>1 DEF IInv, RepresentsSets, UFTypeOK, CallInv
<1>4. \A k \in {1, 2} : RootOf(k)' <=> RootOf(k)
  BY <1>1, <1>2 DEF RootOf, IsRoot, forest
<1>5. UFTypeOK'
  BY <1>1, <1>2, <1>3 DEF IInv, UFTypeOK, forest
<1>6. CallInv'
  BY <1>1, <1>2, <1>3, <1>4 DEF IInv, RepresentsSets, CallInv
<1> QED BY <1>2, <1>5, <1>6 DEF IInv, RepresentsSets, SetsInv

(* When find has returned, the roots are those of the arguments' sets. *)
LEMMA RootsKnown ==
  ASSUME IInv, NEW name, Returning(name), NEW k \in {1, 2}, k <= last
  PROVE  IF arg[k] \in Present THEN RootOf(k) ELSE root[k] = NoRoot
BY DEF IInv, RepresentsSets, UFTypeOK, CallInv, Returning

(* union links the roots, or finds that they are one. *)
LEMMA ReturnUnionStep ==
  ASSUME IInv, ReturnUnion
  PROVE  IInv' /\ together' = ~Together(class, arg[1], arg[2])
<1> USE DEF IInv, RepresentsSets
<1>1. /\ pc = "find" /\ op = "union" /\ pc' = "idle" /\ Returning("union")
      /\ op' = op /\ arg' = arg /\ last' = last /\ root' = root /\ turn' = turn
      /\ cursor' = cursor /\ members' = members
      /\ class' = Joined(class, arg[1], arg[2])
  BY DEF ReturnUnion, Returning, callVars
<1>2. arg[1] \in Present /\ arg[2] \in Present /\ last = 2
  BY <1>1 DEF CallInv, UFTypeOK
<1>3. RootOf(1) /\ RootOf(2)
  BY <1>1, <1>2, RootsKnown
<1>4. /\ IsRoot(root[1]) /\ class[root[1]] = class[arg[1]] /\ root[1] \in Present
      /\ IsRoot(root[2]) /\ class[root[2]] = class[arg[2]] /\ root[2] \in Present
  BY <1>3 DEF RootOf, IsRoot
<1>5. class[arg[1]] # {}
  BY <1>2 DEF ClassInv, UFTypeOK
<1>6. CallInv'
  BY <1>1 DEF CallInv
<1>7. CASE root[1] = root[2]
  <2>1. together' = FALSE /\ UNCHANGED forest
    BY <1>7 DEF ReturnUnion
  <2>2. class[arg[1]] = class[arg[2]]
    BY <1>4, <1>7
  <2>3. class' = class
    <3>1. class' = [z \in Element |-> IF z \in class[arg[1]] THEN class[arg[1]] ELSE class[z]]
      BY <1>1, <2>2 DEF Joined, UFTypeOK
    <3>2. \A z \in Element : z \in class[arg[1]] => class[z] = class[arg[1]]
      BY <1>2 DEF ClassInv
    <3>3. class = [z \in Element |-> class[z]]
      BY DEF UFTypeOK
    <3> QED BY <3>1, <3>2, <3>3
  <2>4. SetsInv' /\ Present' = Present
    BY <2>1, <2>3, Untouched DEF SetsInv
  <2>5. UFTypeOK'
    BY <1>1, <2>1, <2>3, <2>4 DEF UFTypeOK, forest
  <2> QED BY <1>5, <1>6, <2>1, <2>2, <2>4, <2>5 DEF SetsInv, Together
<1>8. CASE root[1] # root[2]
  <2>1. together' = TRUE
    BY <1>8 DEF ReturnUnion
  <2>2. class[root[1]] # class[root[2]]
    BY <1>4, <1>8, OneRoot
  <2>3. /\ Present' = Present /\ parent' \in [Present -> Present]
        /\ rank' \in [Present -> Nat] /\ size' \in [Present -> Nat]
        /\ class' \in [Element -> SUBSET Element] /\ SetsInv'
    <3>1. rank[root[1]] \in Nat /\ rank[root[2]] \in Nat
      BY <1>4 DEF UFTypeOK
    <3>2. CASE rank[root[1]] < rank[root[2]]
      <4>1. Link(root[1], root[2])
        BY <1>8, <3>2 DEF ReturnUnion
      <4>2. rank[root[1]] <= rank[root[2]]
        BY <3>1, <3>2
      <4>3. class[arg[1]] \cup class[arg[2]] = class[root[1]] \cup class[root[2]]
        BY <1>4
      <4> QED BY <1>1, <1>2, <1>4, <2>2, <4>1, <4>2, <4>3, LinkInv DEF SetsInv
    <3>3. CASE ~(rank[root[1]] < rank[root[2]])
      <4>1. Link(root[2], root[1])
        BY <1>8, <3>3 DEF ReturnUnion
      <4>2. rank[root[2]] <= rank[root[1]]
        BY <3>1, <3>3
      <4>3. class[arg[1]] \cup class[arg[2]] = class[root[2]] \cup class[root[1]]
        BY <1>4
      <4> QED BY <1>1, <1>2, <1>4, <2>2, <4>1, <4>2, <4>3, LinkInv DEF SetsInv
    <3> QED BY <3>2, <3>3
  <2>4. UFTypeOK'
    BY <1>1, <2>1, <2>3 DEF UFTypeOK
  <2> QED BY <1>4, <1>6, <2>1, <2>2, <2>3, <2>4 DEF SetsInv, Together
<1> QED BY <1>7, <1>8

(* connected compares the roots, if both are there. *)
LEMMA ReturnConnectedStep ==
  ASSUME IInv, ReturnConnected
  PROVE  IInv' /\ together' = Together(class, arg[1], arg[2])
<1> USE DEF IInv, RepresentsSets
<1>1. /\ pc = "find" /\ op = "connected" /\ pc' = "idle" /\ Returning("connected")
      /\ UNCHANGED <<forest, class>>
      /\ op' = op /\ arg' = arg /\ last' = last /\ root' = root /\ turn' = turn
      /\ cursor' = cursor /\ members' = members
      /\ together' = (root[1] # NoRoot /\ root[1] = root[2])
  BY DEF ReturnConnected, Returning, callVars
<1>2. SetsInv' /\ Present' = Present
  BY <1>1, Untouched DEF SetsInv
<1>3. UFTypeOK'
  BY <1>1, <1>2 DEF UFTypeOK, forest
<1>4. CallInv'
  BY <1>1 DEF CallInv
<1>5. last = 2 /\ arg[1] \in Element /\ arg[2] \in Element
  BY <1>1 DEF CallInv, UFTypeOK
<1>6. /\ IF arg[1] \in Present THEN RootOf(1) ELSE root[1] = NoRoot
      /\ IF arg[2] \in Present THEN RootOf(2) ELSE root[2] = NoRoot
  BY <1>1, <1>5, RootsKnown
<1>7. \A k \in {1, 2} : arg[k] \in Present => root[k] # NoRoot
  <2> SUFFICES ASSUME NEW k \in {1, 2}, arg[k] \in Present PROVE root[k] # NoRoot
    OBVIOUS
  <2>1. root[k] \in Present
    BY <1>6 DEF RootOf, IsRoot
  <2> QED BY <2>1, NoRootAssumption DEF UFTypeOK
<1>8. CASE arg[1] \in Present /\ arg[2] \in Present
  <2>1. root[1] = root[2] <=> class[arg[1]] = class[arg[2]]
    BY <1>6, <1>8, OneRoot DEF RootOf
  <2>2. class[arg[1]] # {}
    BY <1>5, <1>8 DEF ClassInv
  <2> QED BY <1>1, <1>2, <1>3, <1>4, <1>7, <1>8, <2>1, <2>2 DEF SetsInv, Together
<1>9. CASE ~(arg[1] \in Present /\ arg[2] \in Present)
  <2>1. class[arg[1]] = {} \/ class[arg[2]] = {}
    BY <1>5, <1>9 DEF ClassInv
  <2>2. ~(root[1] # NoRoot /\ root[1] = root[2])
    BY <1>6, <1>9
  <2> QED BY <1>1, <1>2, <1>3, <1>4, <2>1, <2>2 DEF SetsInv, Together
<1> QED BY <1>8, <1>9

(* set_size reads the size at the root. *)
LEMMA ReturnSetSizeStep ==
  ASSUME IInv, ReturnSetSize
  PROVE  IInv' /\ members' = Cardinality(class[arg[1]])
<1> USE DEF IInv, RepresentsSets
<1>1. /\ pc = "find" /\ op = "set_size" /\ pc' = "idle" /\ Returning("set_size")
      /\ UNCHANGED <<forest, class>>
      /\ op' = op /\ arg' = arg /\ last' = last /\ root' = root /\ turn' = turn
      /\ cursor' = cursor /\ together' = together
      /\ members' = IF root[1] = NoRoot THEN 0 ELSE size[root[1]]
  BY DEF ReturnSetSize, Returning, callVars
<1>2. SetsInv' /\ Present' = Present
  BY <1>1, Untouched DEF SetsInv
<1>3. arg[1] \in Element /\ last \in {1, 2}
  BY DEF UFTypeOK
<1>4. IF arg[1] \in Present THEN RootOf(1) ELSE root[1] = NoRoot
  BY <1>1, <1>3, RootsKnown
<1>5. CallInv'
  BY <1>1 DEF CallInv
<1>6. members' \in Nat /\ members' = Cardinality(class[arg[1]])
  <2>1. CASE arg[1] \in Present
    <3>1. root[1] \in Present /\ IsRoot(root[1]) /\ class[root[1]] = class[arg[1]]
      BY <1>4, <2>1 DEF RootOf, IsRoot
    <3>2. root[1] # NoRoot
      BY <3>1, NoRootAssumption DEF UFTypeOK
    <3>3. size[root[1]] = Cardinality(class[root[1]]) /\ size[root[1]] \in Nat
      BY <3>1 DEF ForestInv, UFTypeOK
    <3> QED BY <1>1, <3>1, <3>2, <3>3
  <2>2. CASE arg[1] \notin Present
    <3>1. class[arg[1]] = {}
      BY <1>3, <2>2 DEF ClassInv
    <3> QED BY <1>1, <1>4, <2>2, <3>1, FS_EmptySet
  <2> QED BY <2>1, <2>2
<1>7. UFTypeOK'
  BY <1>1, <1>2, <1>6 DEF UFTypeOK, forest
<1> QED BY <1>2, <1>5, <1>6, <1>7 DEF SetsInv

(* A step that changes nothing. *)
LEMMA StutterStep ==
  ASSUME IInv, UNCHANGED ufVars
  PROVE  IInv'
BY DEF IInv, UFTypeOK, RepresentsSets, ClassInv, ForestInv, CallInv, RootOf, IsRoot, Present,
       ufVars

-----------------------------------------------------------------------------
(* The invariant is inductive. *)
LEMMA NextInv == IInv /\ [UFNext]_ufVars => IInv'
<1> SUFFICES ASSUME IInv, [UFNext]_ufVars PROVE IInv'
  OBVIOUS
<1>1. ASSUME NEW x \in Element, MakeSet(x) PROVE IInv'
  BY <1>1, MakeSetStep
<1>2. ASSUME NEW x \in Element, CallSetSize(x) PROVE IInv'
  BY <1>2, CallQueryStep
<1>3. ASSUME NEW x \in Element, NEW y \in Element, CallUnion(x, y) PROVE IInv'
  BY <1>3, CallUnionStep
<1>4. ASSUME NEW x \in Element, NEW y \in Element, CallConnected(x, y) PROVE IInv'
  BY <1>4, CallQueryStep
<1>5. CASE CallStep
  BY <1>5, FindStep, ClimbStep, RootFoundStep, CompressStep, CompressedStep,
     ReturnUnionStep, ReturnConnectedStep, ReturnSetSizeStep DEF CallStep
<1>6. CASE UNCHANGED ufVars
  BY <1>6, StutterStep
<1> QED BY <1>1, <1>2, <1>3, <1>4, <1>5, <1>6 DEF UFNext

(***************************************************************************)
(* In every reachable state the maps have the types the code gives them.   *)
(***************************************************************************)
THEOREM ForestTypeCorrect == UFSpec => []UFTypeOK
<1>1. IInv => UFTypeOK
  BY DEF IInv
<1> QED BY <1>1, InitInv, NextInv, PTL DEF UFSpec

(***************************************************************************)
(* In every reachable state, in the middle of a call too, the forest of    *)
(* parent pointers represents exactly the sets the callers have united.    *)
(***************************************************************************)
THEOREM ForestCorrect == UFSpec => []RepresentsSets
<1>1. IInv => RepresentsSets
  BY DEF IInv
<1> QED BY <1>1, InitInv, NextInv, PTL DEF UFSpec

(* The first state of the union-find is one of Partition. *)
LEMMA InitRefines == UFInit => Sets!PartitionInit
BY DEF UFInit, Sets!PartitionInit

(* A step of the union-find is a step of Partition or changes none of its  *)
(* variables.                                                              *)
LEMMA NextRefines ==
  IInv /\ [UFNext]_ufVars => [Sets!PartitionNext]_<<class, together, members>>
<1> SUFFICES ASSUME IInv, [UFNext]_ufVars
             PROVE  [Sets!PartitionNext]_<<class, together, members>>
  OBVIOUS
<1>1. ASSUME NEW x \in Element, MakeSet(x)
      PROVE  Sets!PartitionNext
  <2>1. Sets!Insert({x})
    BY <1>1 DEF MakeSet, MakeSets, Inserted, Sets!Insert, Sets!Inserted, answers
  <2> QED BY <2>1 DEF Sets!PartitionNext
<1>2. ASSUME NEW x \in Element, CallSetSize(x)
      PROVE  UNCHANGED <<class, together, members>>
  BY <1>2 DEF CallSetSize, Call, answers
<1>3. ASSUME NEW x \in Element, NEW y \in Element, CallUnion(x, y)
      PROVE  Sets!PartitionNext
  <2>1. Sets!Insert({x, y})
    BY <1>3 DEF CallUnion, Call, MakeSets, Inserted, Sets!Insert, Sets!Inserted, answers
  <2> QED BY <2>1 DEF Sets!PartitionNext
<1>4. ASSUME NEW x \in Element, NEW y \in Element, CallConnected(x, y)
      PROVE  UNCHANGED <<class, together, members>>
  BY <1>4 DEF CallConnected, Call, answers
<1>5. CASE Find \/ Climb \/ RootFound \/ Compress \/ Compressed
  BY <1>5 DEF Find, Climb, RootFound, Compress, Compressed, answers
<1>6. CASE ReturnUnion
  <2>1. arg[1] \in Present /\ arg[2] \in Present /\ arg[1] \in Element /\ arg[2] \in Element
    BY <1>6 DEF IInv, RepresentsSets, UFTypeOK, CallInv, ReturnUnion, Returning
  <2>2. class[arg[1]] # {} /\ class[arg[2]] # {}
    BY <2>1 DEF IInv, RepresentsSets, ClassInv
  <2>3. together' = ~Together(class, arg[1], arg[2])
    BY <1>6, ReturnUnionStep
  <2>4. Sets!Unite(arg[1], arg[2])
    BY <1>6, <2>2, <2>3
    DEF ReturnUnion, Joined, Together, Sets!Unite, Sets!Joined, Sets!Together
  <2> QED BY <2>1, <2>4 DEF Sets!PartitionNext
<1>7. CASE ReturnConnected
  <2>1. together' = Together(class, arg[1], arg[2])
    BY <1>7, ReturnConnectedStep
  <2>2. Sets!AskConnected(arg[1], arg[2])
    BY <1>7, <2>1 DEF ReturnConnected, Together, Sets!AskConnected, Sets!Together
  <2>3. arg[1] \in Element /\ arg[2] \in Element
    BY DEF IInv, UFTypeOK
  <2> QED BY <2>2, <2>3 DEF Sets!PartitionNext
<1>8. CASE ReturnSetSize
  <2>1. members' = Cardinality(class[arg[1]])
    BY <1>8, ReturnSetSizeStep
  <2>2. Sets!AskSize(arg[1])
    BY <1>8, <2>1 DEF ReturnSetSize, Cardinality, Sets!AskSize, Sets!Cardinality
  <2>3. arg[1] \in Element
    BY DEF IInv, UFTypeOK
  <2> QED BY <2>2, <2>3 DEF Sets!PartitionNext
<1>9. CASE UNCHANGED ufVars
  BY <1>9 DEF ufVars
<1> QED BY <1>1, <1>2, <1>3, <1>4, <1>5, <1>6, <1>7, <1>8, <1>9 DEF UFNext, CallStep

(***************************************************************************)
(* The union-find implements Partition: union, connected and set_size      *)
(* answer for the sets as they are, whatever the forest looks like.        *)
(***************************************************************************)
THEOREM UnionFindImplementsPartition == UFSpec => ImplementsPartition
<1> QED BY InitInv, NextInv, InitRefines, NextRefines, PTL
        DEF UFSpec, ImplementsPartition, Sets!PartitionSpec

-----------------------------------------------------------------------------
(* The height of the trees.                                                *)

(* A set has twice the subsets of one with an element less.                *)
LEMMA PowerDoubles ==
  ASSUME NEW n \in Nat
  PROVE  2 ^ n \in Nat /\ 2 ^ (n + 1) = 2 ^ n + 2 ^ n
<1> DEFINE S == 1 .. n
           T == 1 .. n + 1
           A == SUBSET S
           P == SUBSET T
           f == [s \in A |-> s \cup {n + 1}]
           B == {s \cup {n + 1} : s \in A}
<1>1. IsFiniteSet(S) /\ Cardinality(S) = n /\ IsFiniteSet(T) /\ Cardinality(T) = n + 1
  <2>1. IsFiniteSet(S) /\ Cardinality(S) = n
    BY FS_Interval
  <2>2. n + 1 \in Nat
    OBVIOUS
  <2>3. IsFiniteSet(T) /\ Cardinality(T) = n + 1
    BY <2>2, FS_Interval
  <2> QED BY <2>1, <2>3
<1>2. T = S \cup {n + 1} /\ n + 1 \notin S
  OBVIOUS
<1> HIDE DEF S, T
<1>3. IsFiniteSet(A) /\ Cardinality(A) = 2 ^ Cardinality(S)
  BY <1>1, FS_SUBSET
<1>4. IsFiniteSet(P) /\ Cardinality(P) = 2 ^ Cardinality(T)
  BY <1>1, FS_SUBSET
<1>5. f \in [A -> B] /\ \A s \in A : f[s] = s \cup {n + 1}
  OBVIOUS
<1>6. \A s, t \in A : f[s] = f[t] => s = t
  <2>1. ASSUME NEW s \in A PROVE (s \cup {n + 1}) \ {n + 1} = s
    BY <1>2
  <2> QED BY <2>1
<1>7. \A b \in B : \E s \in A : f[s] = b
  BY <1>5
<1>8. P = A \cup B
  <2>1. ASSUME NEW t \in P PROVE t \in A \cup B
    <3>1. CASE n + 1 \in t
      <4>1. t \ {n + 1} \in A /\ t = (t \ {n + 1}) \cup {n + 1}
        BY <1>2, <3>1
      <4> QED BY <4>1
    <3>2. CASE n + 1 \notin t
      BY <1>2, <3>2
    <3> QED BY <3>1, <3>2
  <2>2. ASSUME NEW t \in A \cup B PROVE t \in P
    BY <1>2
  <2> QED BY <2>1, <2>2
<1>9. A \cap B = {}
  BY <1>2
<1> HIDE DEF A, P, f, B
<1>10. f \in Bijection(A, B)
  BY <1>5, <1>6, <1>7 DEF Bijection, Injection, Surjection, IsInjective
<1>11. ExistsBijection(A, B)
  BY <1>10 DEF ExistsBijection
<1>12. IsFiniteSet(B) /\ Cardinality(B) = Cardinality(A)
  BY <1>3, <1>11, FS_Bijection
<1>13. Cardinality(A \cup B) = Cardinality(A) + Cardinality(B) - Cardinality(A \cap B)
  BY <1>3, <1>12, FS_Union
<1>14. Cardinality(A \cap B) = 0
  BY <1>9, FS_EmptySet
<1>15. Cardinality(A) \in Nat
  BY <1>3, FS_CardinalityType
<1>16. Cardinality(P) = Cardinality(A) + Cardinality(A)
  BY <1>8, <1>12, <1>13, <1>14, <1>15
<1> QED BY <1>1, <1>3, <1>4, <1>15, <1>16

(* New elements are trees of rank 0 and size 1.                            *)
LEMMA MakeSetsShallow ==
  ASSUME IInv, TreesAreShallow, NEW S \in SUBSET Element, MakeSets(S)
  PROVE  TreesAreShallow'
<1>1. UFTypeOK /\ ClassInv
  BY DEF IInv, RepresentsSets
<1>2. Present' = Present \cup S
  BY <1>1, MakeSetsValues
<1>3. \A x \in Present : parent'[x] = parent[x] /\ rank'[x] = rank[x] /\ size'[x] = size[x]
  BY <1>1, MakeSetsValues
<1>4. \A x \in S \ Present : parent'[x] = x /\ rank'[x] = 0 /\ size'[x] = 1
  BY <1>1, MakeSetsValues
<1>5. 2 ^ 0 <= 1
  OBVIOUS
<1>6. ASSUME NEW r \in Present', IsRoot(r)'
      PROVE  2 ^ (rank'[r]) <= size'[r]
  <2>1. CASE r \in Present
    <3>1. IsRoot(r)
      BY <1>3, <1>6, <2>1 DEF IsRoot
    <3>2. 2 ^ (rank[r]) <= size[r]
      BY <2>1, <3>1 DEF TreesAreShallow
    <3> QED BY <1>3, <2>1, <3>2
  <2>2. CASE r \in S \ Present
    BY <1>4, <1>5, <2>2
  <2> QED BY <1>2, <2>1, <2>2
<1> QED BY <1>6 DEF TreesAreShallow

(* Linking two of one rank doubles what the new rank asks for.             *)
LEMMA LinkShallow ==
  ASSUME IInv, TreesAreShallow, NEW a \in Present, NEW b \in Present,
         IsRoot(a), IsRoot(b), a # b, rank[a] <= rank[b], Link(a, b)
  PROVE  TreesAreShallow'
<1>1. /\ parent \in [Present -> Present] /\ rank \in [Present -> Nat] /\ size \in [Present -> Nat]
  BY DEF IInv, UFTypeOK
<1>2. Present' = Present
  BY DEF Link, Present
<1>3. \A z \in Present : parent'[z] = IF z = a THEN b ELSE parent[z]
  BY <1>1 DEF Link
<1>4. /\ \A z \in Present : z # b => rank'[z] = rank[z] /\ size'[z] = size[z]
      /\ rank'[b] = IF rank[a] = rank[b] THEN rank[b] + 1 ELSE rank[b]
      /\ size'[b] = size[b] + size[a]
  BY <1>1 DEF Link
<1>5. 2 ^ (rank[a]) <= size[a] /\ 2 ^ (rank[b]) <= size[b]
  BY DEF TreesAreShallow
<1>6. rank[a] \in Nat /\ rank[b] \in Nat /\ size[a] \in Nat /\ size[b] \in Nat
  BY <1>1
<1>7. 2 ^ (rank[b]) \in Nat /\ 2 ^ (rank[b] + 1) = 2 ^ (rank[b]) + 2 ^ (rank[b])
  BY <1>6, PowerDoubles
<1>8. 2 ^ (rank'[b]) <= size'[b]
  <2>1. CASE rank[a] = rank[b]
    <3>1. 2 ^ (rank[b]) <= size[a]
      BY <1>5, <2>1
    <3>2. 2 ^ (rank[b]) + 2 ^ (rank[b]) <= size[b] + size[a]
      BY <1>5, <1>6, <1>7, <3>1
    <3>3. rank'[b] = rank[b] + 1
      BY <1>4, <2>1
    <3> QED BY <1>4, <1>7, <3>2, <3>3
  <2>2. CASE rank[a] # rank[b]
    <3>1. rank'[b] = rank[b]
      BY <1>4, <2>2
    <3>2. 2 ^ (rank[b]) <= size[b] + size[a]
      BY <1>5, <1>6, <1>7
    <3> QED BY <1>4, <3>1, <3>2
  <2> QED BY <2>1, <2>2
<1>9. ASSUME NEW r \in Present', IsRoot(r)'
      PROVE  2 ^ (rank'[r]) <= size'[r]
  <2>1. r \in Present /\ r # a
    BY <1>2, <1>3, <1>9 DEF IsRoot
  <2>2. CASE r = b
    BY <1>8, <2>2
  <2>3. CASE r # b
    <3>1. IsRoot(r)
      BY <1>3, <1>9, <2>1 DEF IsRoot
    <3>2. 2 ^ (rank[r]) <= size[r]
      BY <2>1, <3>1 DEF TreesAreShallow
    <3>3. rank'[r] = rank[r] /\ size'[r] = size[r]
      BY <1>4, <2>1, <2>3
    <3> QED BY <3>2, <3>3
  <2> QED BY <2>2, <2>3
<1> QED BY <1>9 DEF TreesAreShallow

LEMMA UnionShallow ==
  ASSUME IInv, TreesAreShallow, ReturnUnion
  PROVE  TreesAreShallow'
<1>1. pc = "find" /\ op = "union" /\ Returning("union")
  BY DEF ReturnUnion, Returning
<1>2. arg[1] \in Present /\ arg[2] \in Present /\ last = 2
  BY <1>1 DEF IInv, RepresentsSets, CallInv, UFTypeOK
<1>3. RootOf(1) /\ RootOf(2)
  BY <1>1, <1>2, RootsKnown
<1>4. /\ IsRoot(root[1]) /\ root[1] \in Present
      /\ IsRoot(root[2]) /\ root[2] \in Present
  BY <1>3 DEF RootOf, IsRoot
<1>5. rank[root[1]] \in Nat /\ rank[root[2]] \in Nat
  BY <1>4 DEF IInv, UFTypeOK
<1>6. CASE root[1] = root[2]
  <2>1. UNCHANGED forest
    BY <1>6 DEF ReturnUnion
  <2> QED BY <2>1 DEF TreesAreShallow, IsRoot, Present, forest
<1>7. CASE root[1] # root[2] /\ rank[root[1]] < rank[root[2]]
  <2>1. Link(root[1], root[2]) /\ rank[root[1]] <= rank[root[2]]
    BY <1>5, <1>7 DEF ReturnUnion
  <2> QED BY <1>4, <1>7, <2>1, LinkShallow
<1>8. CASE root[1] # root[2] /\ ~(rank[root[1]] < rank[root[2]])
  <2>1. Link(root[2], root[1]) /\ rank[root[2]] <= rank[root[1]]
    BY <1>5, <1>8 DEF ReturnUnion
  <2> QED BY <1>4, <1>8, <2>1, LinkShallow
<1> QED BY <1>6, <1>7, <1>8

LEMMA ShallowNext == IInv /\ TreesAreShallow /\ [UFNext]_ufVars => TreesAreShallow'
<1> SUFFICES ASSUME IInv, TreesAreShallow, [UFNext]_ufVars PROVE TreesAreShallow'
  OBVIOUS
<1>1. ASSUME UNCHANGED forest PROVE TreesAreShallow'
  BY <1>1 DEF TreesAreShallow, IsRoot, Present, forest
<1>2. ASSUME NEW x \in Element, MakeSet(x) PROVE TreesAreShallow'
  BY <1>2, MakeSetsShallow DEF MakeSet
<1>3. ASSUME NEW x \in Element, NEW y \in Element, CallUnion(x, y) PROVE TreesAreShallow'
  BY <1>3, MakeSetsShallow DEF CallUnion
<1>4. ASSUME NEW x \in Element, NEW y \in Element, CallConnected(x, y) \/ CallSetSize(x)
      PROVE  TreesAreShallow'
  BY <1>4, <1>1 DEF CallConnected, CallSetSize
<1>5. CASE Find \/ Climb \/ RootFound \/ Compressed \/ ReturnConnected \/ ReturnSetSize
  BY <1>5, <1>1 DEF Find, Climb, RootFound, Compressed, ReturnConnected, ReturnSetSize
<1>6. CASE Compress
  <2>1. Present' = Present /\ rank' = rank /\ size' = size
    BY <1>6, CompressSets DEF Compress
  <2>2. \A z \in Present : IsRoot(z)' <=> IsRoot(z)
    BY <1>6, CompressSets
  <2> QED BY <2>1, <2>2 DEF TreesAreShallow
<1>7. CASE ReturnUnion
  BY <1>7, UnionShallow
<1>8. CASE UNCHANGED ufVars
  BY <1>8, <1>1 DEF ufVars, forest
<1> QED BY <1>2, <1>3, <1>4, <1>5, <1>6, <1>7, <1>8 DEF UFNext, CallStep

(***************************************************************************)
(* A tree of rank r has at least 2^r members, so no path is longer than    *)
(* the logarithm of the set's size: union by rank with path compression,   *)
(* OwnershipUnionFind::union, find_root and compress_path.                 *)
(***************************************************************************)
THEOREM ForestIsShallow == UFSpec => []TreesAreShallow
<1>1. UFInit => TreesAreShallow
  BY DEF UFInit, TreesAreShallow, Present
<1> QED BY InitInv, NextInv, <1>1, ShallowNext, PTL DEF UFSpec
=============================================================================
