------------------------------ MODULE UnionFind ------------------------------
(***************************************************************************)
(* OwnershipUnionFind: disjoint sets as a forest of parent pointers, with  *)
(* path compression and union by rank.  The recursion of find_root and the *)
(* loop of compress_path take one step for each node they visit.           *)
(*                                                                         *)
(* `class` is an auxiliary variable, not in the code: the sets that the    *)
(* calls so far have made, which the forest must represent.                *)
(***************************************************************************)
EXTENDS DisjointSets, Naturals, FiniteSets

CONSTANTS Element,
          NoRoot     \* what find returns for an element it does not know

ASSUME NoRootAssumption == NoRoot \notin Element
ASSUME ElementAssumption == IsFiniteSet(Element)

VARIABLES parent, rank, size,  \* the three maps
          pc, op,              \* the call that is running, if one is
          arg, root,           \* its arguments, and their roots once found
          turn, last,          \* the argument find is at, and the last one
          cursor,              \* the node find_root or compress_path is at
          together, members,   \* the last answers
          class

forest == <<parent, rank, size>>
callVars == <<op, arg, last>>
answers == <<together, members>>
ufVars == <<parent, rank, size, pc, op, arg, root, turn, last, cursor, together, members, class>>

Present == DOMAIN parent

Pair(x, y) == [k \in {1, 2} |-> IF k = 1 THEN x ELSE y]

UFInit ==
  /\ parent = [x \in {} |-> x] /\ rank = [x \in {} |-> 0] /\ size = [x \in {} |-> 0]
  /\ pc = "idle" /\ op = "union"
  /\ \E x \in Element : arg = Pair(x, x) /\ cursor = x
  /\ root = Pair(NoRoot, NoRoot) /\ turn = 1 /\ last = 1
  /\ together = FALSE /\ members = 0
  /\ class = [x \in Element |-> {}]

-----------------------------------------------------------------------------
(* make_set does nothing for an element that is there. *)
MakeSets(S) ==
  /\ parent' = [x \in Present \cup S |-> IF x \in Present THEN parent[x] ELSE x]
  /\ rank' = [x \in Present \cup S |-> IF x \in Present THEN rank[x] ELSE 0]
  /\ size' = [x \in Present \cup S |-> IF x \in Present THEN size[x] ELSE 1]
  /\ class' = Inserted(class, S)

MakeSet(x) ==
  /\ pc = "idle"
  /\ MakeSets({x})
  /\ UNCHANGED <<pc, callVars, root, turn, cursor, answers>>

Call(name, x, y, n) ==
  /\ pc = "idle"
  /\ pc' = "find" /\ op' = name /\ arg' = Pair(x, y) /\ last' = n
  /\ turn' = 1 /\ root' = Pair(NoRoot, NoRoot)
  /\ UNCHANGED <<cursor, answers>>

CallUnion(x, y) == Call("union", x, y, 2) /\ MakeSets({x, y})

CallConnected(x, y) == Call("connected", x, y, 2) /\ UNCHANGED <<forest, class>>

CallSetSize(x) == Call("set_size", x, x, 1) /\ UNCHANGED <<forest, class>>

-----------------------------------------------------------------------------
(* find: `connected` asks for both roots, even when the first is not there. *)
Find ==
  /\ pc = "find" /\ turn <= last
  /\ IF arg[turn] \in Present
       THEN pc' = "climb" /\ cursor' = arg[turn] /\ UNCHANGED turn
       ELSE turn' = turn + 1 /\ UNCHANGED <<pc, cursor>>
  /\ UNCHANGED <<forest, callVars, root, answers, class>>

Climb ==
  /\ pc = "climb" /\ parent[cursor] # cursor
  /\ cursor' = parent[cursor]
  /\ UNCHANGED <<forest, pc, callVars, root, turn, answers, class>>

RootFound ==
  /\ pc = "climb" /\ parent[cursor] = cursor
  /\ root' = [root EXCEPT ![turn] = cursor]
  /\ pc' = "compress" /\ cursor' = arg[turn]
  /\ UNCHANGED <<forest, callVars, turn, answers, class>>

CompressSwapped ==              \* mutant: the root is pointed at the node
  /\ pc = "compress" /\ cursor # root[turn]
  /\ parent' = [parent EXCEPT ![root[turn]] = cursor]
  /\ cursor' = parent[cursor]
  /\ UNCHANGED <<rank, size, pc, callVars, root, turn, answers, class>>

Compress ==
  /\ pc = "compress" /\ cursor # root[turn]
  /\ parent' = [parent EXCEPT ![cursor] = root[turn]]
  /\ cursor' = parent[cursor]
  /\ UNCHANGED <<rank, size, pc, callVars, root, turn, answers, class>>

Compressed ==
  /\ pc = "compress" /\ cursor = root[turn]
  /\ pc' = "find" /\ turn' = turn + 1
  /\ UNCHANGED <<forest, callVars, root, cursor, answers, class>>

-----------------------------------------------------------------------------
Returning(name) == pc = "find" /\ turn > last /\ op = name /\ pc' = "idle"

LinkUncounted(child, top) ==    \* mutant: the size of the united set is not kept
  /\ parent' = [parent EXCEPT ![child] = top]
  /\ rank' = [rank EXCEPT ![top] = IF rank[child] = @ THEN @ + 1 ELSE @]
  /\ UNCHANGED size

LinkRaising(child, top) ==      \* mutant: every union raises the root's rank
  /\ parent' = [parent EXCEPT ![child] = top]
  /\ rank' = [rank EXCEPT ![top] = @ + 1]
  /\ size' = [size EXCEPT ![top] = @ + size[child]]

Link(child, top) ==
  /\ parent' = [parent EXCEPT ![child] = top]
  /\ rank' = [rank EXCEPT ![top] = IF rank[child] = @ THEN @ + 1 ELSE @]
  /\ size' = [size EXCEPT ![top] = @ + size[child]]

(* The root of the smaller rank goes below the other, the second at a tie. *)
ReturnUnion ==
  /\ Returning("union")
  /\ \/ /\ root[1] = root[2]
        /\ together' = FALSE /\ UNCHANGED forest
     \/ /\ root[1] # root[2]
        /\ together' = TRUE
        /\ IF rank[root[1]] < rank[root[2]]
             THEN Link(root[1], root[2])
             ELSE Link(root[2], root[1])
  /\ class' = Joined(class, arg[1], arg[2])
  /\ UNCHANGED <<callVars, root, turn, cursor, members>>

ReturnConnected ==
  /\ Returning("connected")
  /\ together' = (root[1] # NoRoot /\ root[1] = root[2])
  /\ UNCHANGED <<forest, callVars, root, turn, cursor, members, class>>

ReturnSetSize ==
  /\ Returning("set_size")
  /\ members' = IF root[1] = NoRoot THEN 0 ELSE size[root[1]]
  /\ UNCHANGED <<forest, callVars, root, turn, cursor, together, class>>

-----------------------------------------------------------------------------
CallStep ==
  \/ Find \/ Climb \/ RootFound \/ Compress \/ Compressed
  \/ ReturnUnion \/ ReturnConnected \/ ReturnSetSize

UFNext ==
  \/ \E x \in Element : MakeSet(x) \/ CallSetSize(x)
  \/ \E x, y \in Element : CallUnion(x, y) \/ CallConnected(x, y)
  \/ CallStep

UFSpec == UFInit /\ [][UFNext]_ufVars

-----------------------------------------------------------------------------
UFTypeOK ==
  /\ Present \subseteq Element
  /\ parent \in [Present -> Present]
  /\ rank \in [Present -> Nat]
  /\ size \in [Present -> Nat]
  /\ pc \in {"idle", "find", "climb", "compress"}
  /\ op \in {"union", "connected", "set_size"}
  /\ arg \in [{1, 2} -> Element]
  /\ root \in [{1, 2} -> Element \cup {NoRoot}]
  /\ last \in {1, 2} /\ turn \in 1 .. (last + 1)
  /\ cursor \in Element
  /\ together \in BOOLEAN
  /\ members \in Nat
  /\ class \in [Element -> SUBSET Element]

IsRoot(x) == x \in Present /\ parent[x] = x

(* `class` is a partition of the elements present.                         *)
ClassInv ==
  /\ \A x \in Element : x \in Present <=> class[x] # {}
  /\ \A x \in Present : x \in class[x] /\ class[x] \subseteq Present
  /\ \A x \in Present : \A y \in class[x] : class[y] = class[x]

(* The forest represents it: a pointer stays in the set, which has one     *)
(* root, of a higher rank than any other member, that knows the set's size. *)
ForestInv ==
  /\ \A x \in Present : class[parent[x]] = class[x]
  /\ \A x \in Present : parent[x] # x => rank[x] < rank[parent[x]]
  /\ \A r, x \in Present : IsRoot(r) /\ class[x] = class[r] /\ x # r =>
       ~IsRoot(x) /\ rank[x] < rank[r]
  /\ \A r \in Present : IsRoot(r) => size[r] = Cardinality(class[r])

(* A call in progress holds roots of its arguments' sets.                  *)
RootOf(k) == IsRoot(root[k]) /\ class[root[k]] = class[arg[k]]

CallInv ==
  /\ pc \in {"climb", "compress"} =>
       /\ turn <= last /\ arg[turn] \in Present
       /\ cursor \in Present /\ class[cursor] = class[arg[turn]]
  /\ pc = "compress" => RootOf(turn)
  /\ pc # "idle" => \A k \in {1, 2} : k < turn =>
       IF arg[k] \in Present THEN RootOf(k) ELSE root[k] = NoRoot
  /\ pc # "idle" => \A k \in {1, 2} :
       k > turn \/ (k = turn /\ pc # "compress") => root[k] = NoRoot
  /\ pc # "idle" => (last = 1) = (op = "set_size")
  /\ pc # "idle" /\ op = "union" => arg[1] \in Present /\ arg[2] \in Present

(* The union-find represents the sets its callers have united, whatever    *)
(* paths have been compressed and whichever root a union has kept.         *)
RepresentsSets == ClassInv /\ ForestInv /\ CallInv

-----------------------------------------------------------------------------
Sets == INSTANCE Partition

(* What union, connected and set_size return is right for those sets.      *)
ImplementsPartition == Sets!PartitionSpec

(***************************************************************************)
(* A tree of rank r has at least 2^r members: no path is longer than the   *)
(* logarithm of the set's size, and neither is find_root's recursion.      *)
(***************************************************************************)
TreesAreShallow == \A r \in Present : IsRoot(r) => 2 ^ rank[r] <= size[r]
=============================================================================
