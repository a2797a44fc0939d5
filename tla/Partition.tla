------------------------------ MODULE Partition ------------------------------
(***************************************************************************)
(* What OwnershipUnionFind promises, without parents and ranks: elements   *)
(* are added in a set of their own, sets are united, and the answers to    *)
(* the questions asked are those of the sets as they are.                  *)
(***************************************************************************)
EXTENDS DisjointSets, FiniteSets

CONSTANT Element

VARIABLES class,     \* element -> the set it is in
          together,  \* what the last union or connected returned
          members    \* what the last set_size returned, 0 for None

PartitionInit ==
  /\ class = [z \in Element |-> {}]
  /\ together = FALSE /\ members = 0

Insert(S) ==
  /\ class' = Inserted(class, S)
  /\ UNCHANGED <<together, members>>

Unite(x, y) ==
  /\ class[x] # {} /\ class[y] # {}
  /\ together' = ~Together(class, x, y)
  /\ class' = Joined(class, x, y)
  /\ UNCHANGED members

AskConnected(x, y) ==
  /\ together' = Together(class, x, y)
  /\ UNCHANGED <<class, members>>

AskSize(x) ==
  /\ members' = Cardinality(class[x])
  /\ UNCHANGED <<class, together>>

PartitionNext ==
  \/ \E S \in SUBSET Element : Insert(S)
  \/ \E x, y \in Element : Unite(x, y) \/ AskConnected(x, y)
  \/ \E x \in Element : AskSize(x)

PartitionSpec == PartitionInit /\ [][PartitionNext]_<<class, together, members>>
=============================================================================
