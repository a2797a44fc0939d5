--------------------------- MODULE DataflowAnalysis ---------------------------
(***************************************************************************)
(* ForwardAnalysis and BackwardAnalysis over a DataFlowGraph.  The domain  *)
(* is the parameter it is in the code.  The two are one another's mirror   *)
(* image, and one set of actions stands for both: "upstream" are the       *)
(* predecessors forward, the successors backward.  A run borrows the       *)
(* graph, so that the graph stands still until it ends; it visits the      *)
(* nodes in the order of a hash map, any order but the same in each pass   *)
(* of a run.  Each node visited is a step.                                 *)
(***************************************************************************)
EXTENDS Integers, Sequences, SequencesExt

-----------------------------------------------------------------------------
(***************************************************************************)
(* DataFlowGraph: nodes numbered by a counter, edges, and the two          *)
(* adjacencies the analyses ask.  These are hash maps of lists until       *)
(* freeze() packs them into arrays of offsets and targets (CSR) and drops  *)
(* the lists; an edge added later unpacks the arrays first.  A node        *)
(* without an entry in a map is a node with the empty list here, which is  *)
(* how the map is read.                                                    *)
(***************************************************************************)


CONSTANTS Kind,          \* what a node holds, as far as its transfer function tells
          EdgeChoice,    \* bound: the pairs <<from, to>> edges are added between
          EntryChoice,   \* bound: the nodes made the entry
          ExitChoice,    \* bound: the nodes made the exit
          MaxNodes,      \* bound: nodes of a graph
          MaxEdges       \* bound: edges of a graph

ASSUME GraphBounds == MaxNodes \in Nat /\ MaxEdges \in Nat

NoNode   == -1
NodeId   == 0 .. MaxNodes - 1
Unfrozen == [forward |-> <<>>, reverse |-> <<>>]

VARIABLES kind,       \* nodes: the kind of each, node i at place i + 1
          edges,      \* the edges in the order they were added
          forward,    \* forward_adj
          reverse,    \* reverse_adj
          csr,        \* the packed adjacencies, or Unfrozen
          entry, exit,
          panicked,   \* an index was out of bounds
          strained    \* history: freeze() of a frozen graph, or a second node added to one

graphVars == <<kind, edges, forward, reverse, csr, entry, exit, panicked, strained>>

next_node_id == Len(kind)
NoAdjacency  == [n \in NodeId |-> <<>>]

GraphInit ==
  /\ kind = <<>> /\ edges = <<>> /\ csr = Unfrozen
  /\ forward = NoAdjacency /\ reverse = NoAdjacency
  /\ entry = NoNode /\ exit = NoNode /\ panicked = FALSE /\ strained = FALSE

IsFrozen == csr # Unfrozen

(***************************************************************************)
(* offsets[i] .. offsets[i + 1] bound the targets of node i.  There are    *)
(* max_id + 2 offsets, so that one node more than there are has a place.   *)
(***************************************************************************)
ListOf(adj, i) == IF i \in NodeId THEN adj[i] ELSE <<>>

PackedUpTo(adj) ==      \* the targets of the nodes before each
  LET upTo[i \in 0 .. next_node_id + 1] ==
        IF i = 0 THEN <<>> ELSE upTo[i - 1] \o ListOf(adj, i - 1)
  IN upTo

Pack(adj) ==
  [offsets |-> [i \in 1 .. next_node_id + 2 |-> Len(PackedUpTo(adj)[i - 1])],
   targets |-> PackedUpTo(adj)[next_node_id + 1]]

Slice(packed, n) == SubSeq(packed.targets, packed.offsets[n + 1] + 1, packed.offsets[n + 2])

(* A node beyond the offsets has no neighbours. *)
Neighbours(adj, packed, n) ==
  IF ~IsFrozen THEN adj[n]
  ELSE IF n + 1 < Len(packed.offsets) THEN Slice(packed, n) ELSE <<>>

Successors(n)   == Neighbours(forward, csr.forward, n)
Predecessors(n) == Neighbours(reverse, csr.reverse, n)

-----------------------------------------------------------------------------
AddNode(k) ==
  /\ ~panicked /\ next_node_id < MaxNodes
  /\ kind' = Append(kind, k)
  /\ strained' = (strained \/ (IsFrozen /\ Len(csr.forward.offsets) < next_node_id + 2))
  /\ UNCHANGED <<edges, forward, reverse, csr, entry, exit, panicked>>

InvalidateForgets ==     \* mutant: the arrays are dropped, not unpacked
  [forward |-> forward, reverse |-> reverse]

(* The lists invalidate_csr leaves: those of the arrays, in place of its own. *)
InvalidateCsr ==
  LET rebuilt(packed, adj) ==
        [n \in NodeId |-> IF IsFrozen /\ n < next_node_id /\ Slice(packed, n) # <<>>
                          THEN Slice(packed, n) ELSE adj[n]]
  IN [forward |-> rebuilt(csr.forward, forward), reverse |-> rebuilt(csr.reverse, reverse)]

(* invalidate_csr reads the offsets of every node there is now. *)
OffsetsCover == IsFrozen => next_node_id + 1 <= Len(csr.forward.offsets)

AddEdge(e) ==
  /\ ~panicked /\ Len(edges) < MaxEdges
  /\ {e[1], e[2]} \subseteq 0 .. next_node_id - 1
  /\ IF ~OffsetsCover
     THEN panicked' = TRUE /\ UNCHANGED <<edges, forward, reverse, csr>>
     ELSE LET lists == InvalidateCsr IN
            /\ forward' = [lists.forward EXCEPT ![e[1]] = Append(@, e[2])]
            /\ reverse' = [lists.reverse EXCEPT ![e[2]] = Append(@, e[1])]
            /\ csr' = Unfrozen
            /\ edges' = Append(edges, e)
            /\ UNCHANGED panicked
  /\ UNCHANGED <<kind, entry, exit, strained>>

(* The lists are packed and cleared, those of a frozen graph as well, which are empty. *)
Freeze ==
  /\ ~panicked
  /\ csr' = [forward |-> Pack(forward), reverse |-> Pack(reverse)]
  /\ forward' = NoAdjacency /\ reverse' = NoAdjacency
  /\ strained' = (strained \/ IsFrozen)
  /\ UNCHANGED <<kind, edges, entry, exit, panicked>>

SetEntry(n) ==
  /\ ~panicked /\ n < next_node_id
  /\ entry' = n
  /\ UNCHANGED <<kind, edges, forward, reverse, csr, exit, panicked, strained>>

SetExit(n) ==
  /\ ~panicked /\ n < next_node_id
  /\ exit' = n
  /\ UNCHANGED <<kind, edges, forward, reverse, csr, entry, panicked, strained>>

Clear ==
  /\ ~panicked
  /\ kind' = <<>> /\ edges' = <<>> /\ csr' = Unfrozen
  /\ forward' = NoAdjacency /\ reverse' = NoAdjacency
  /\ entry' = NoNode /\ exit' = NoNode /\ strained' = FALSE
  /\ UNCHANGED panicked

GraphNext ==
  \/ \E k \in Kind : AddNode(k)
  \/ \E e \in EdgeChoice : AddEdge(e)
  \/ Freeze
  \/ \E n \in EntryChoice : SetEntry(n)
  \/ \E n \in ExitChoice : SetExit(n)
  \/ Clear

-----------------------------------------------------------------------------
(* `list` holds, for each edge that has n for its end `from`, the other end, *)
(* in the order in which the edges were added.                             *)
ListsEnds(list, n, from, to) ==
  \E at \in [DOMAIN list -> DOMAIN edges] :
    /\ \A j \in DOMAIN list : edges[at[j]][from] = n /\ list[j] = edges[at[j]][to]
    /\ \A i, j \in DOMAIN list : i < j => at[i] < at[j]
    /\ \A k \in DOMAIN edges : edges[k][from] = n => \E j \in DOMAIN list : at[j] = k

(***************************************************************************)
(* Whatever was packed, unpacked and added in between, a node's            *)
(* successors and predecessors are those of the edges added, in order, and *)
(* no call runs past the arrays.  Two sequences of calls are excepted,     *)
(* which the code does not handle: freeze() of a frozen graph packs the    *)
(* lists it cleared, and a second node added to a frozen graph has no      *)
(* offsets when the next edge unpacks them.                                *)
(***************************************************************************)
QueriesMatchEdges ==
  ~strained =>
    /\ ~panicked
    /\ \A n \in 0 .. next_node_id - 1 :
         ListsEnds(Successors(n), n, 1, 2) /\ ListsEnds(Predecessors(n), n, 2, 1)

-----------------------------------------------------------------------------


CONSTANTS Value, Bottom, Top, Initial,   \* AnalysisDomain
          Join(_, _), Meet(_, _),
          Transfer(_, _), TransferBackward(_, _)

(* The trait's words: join is the least upper bound, meet the greatest     *)
(* lower one, bottom the least element and top the greatest.               *)
IsSemilattice(Op(_, _), unit) ==
  /\ unit \in Value
  /\ \A a \in Value : Op(unit, a) = a /\ Op(a, a) = a
  /\ \A a, b \in Value : Op(a, b) \in Value /\ Op(a, b) = Op(b, a)
  /\ \A a, b, c \in Value : Op(Op(a, b), c) = Op(a, Op(b, c))

ASSUME DomainAssumption ==
  /\ IsSemilattice(Join, Bottom) /\ IsSemilattice(Meet, Top) /\ Initial \in Value
  /\ \A k \in Kind, a \in Value : Transfer(k, a) \in Value /\ TransferBackward(k, a) \in Value

(* What the trait does not say, and an analysis takes for granted: a       *)
(* larger fact upstream does not make a smaller one downstream.            *)
MonotoneTransfer ==
  \A k \in Kind, a, b \in Value :
    /\ Join(a, b) = b => Join(Transfer(k, a), Transfer(k, b)) = Transfer(k, b)
    /\ Meet(a, b) = b =>
         Meet(TransferBackward(k, a), TransferBackward(k, b)) = TransferBackward(k, b)

Direction == {"forward", "backward"}

VARIABLES phase,       \* "idle", "running" or "done"
          direction,
          order,       \* the order of all_nodes() in this run
          todo,        \* the nodes left in this pass
          changed,     \* a fact was replaced in this pass
          before,      \* the fact upstream of each node: inputs forward, outputs backward
          after        \* its image under the transfer function: outputs forward, inputs backward

analysisVars == <<phase, direction, order, todo, changed, before, after>>
vars == <<graphVars, analysisVars>>

Upstream(n)  == IF direction = "forward" THEN Predecessors(n) ELSE Successors(n)
Boundary     == IF direction = "forward" THEN entry ELSE exit
Extreme(d)   == IF d = "forward" THEN Bottom ELSE Top
Merge(a, b)  == IF direction = "forward" THEN Join(a, b) ELSE Meet(a, b)
Effect(n, v) == IF direction = "forward" THEN Transfer(kind[n + 1], v)
                                         ELSE TransferBackward(kind[n + 1], v)
Nodes        == 0 .. next_node_id - 1

AnalysisInit ==
  /\ phase = "idle" /\ direction = "forward" /\ order = <<>>
  /\ todo = <<>> /\ changed = FALSE
  /\ before = <<>> /\ after = <<>>

(* A call on the graph.  Bound: a strained graph is only given edges. *)
ChangeGraph ==
  /\ phase = "idle"
  /\ IF strained THEN \E e \in EdgeChoice : AddEdge(e) ELSE GraphNext
  /\ UNCHANGED analysisVars

(* Each run has an analysis object of its own, dropped once its results are read. *)
Drop ==
  /\ phase = "done"
  /\ phase' = "idle" /\ direction' = "forward" /\ order' = <<>>
  /\ todo' = <<>> /\ changed' = FALSE
  /\ before' = <<>> /\ after' = <<>>
  /\ UNCHANGED graphVars

(* Bound: of the queries of a strained graph nothing is claimed, and none is analysed. *)
Start(d) ==
  /\ phase = "idle" /\ ~panicked /\ ~strained /\ Nodes # {}
  /\ phase' = "running" /\ direction' = d
  /\ order' \in SetToSeqs(Nodes) /\ todo' = order' /\ changed' = FALSE
  /\ LET boundary == IF d = "forward" THEN entry ELSE exit IN
       before' = [n \in Nodes |-> IF n = boundary THEN Initial ELSE Extreme(d)]
  /\ after' = [n \in Nodes |-> Extreme(d)]
  /\ UNCHANGED graphVars

MergeOf(nodes) ==
  LET upTo[i \in 0 .. Len(nodes)] ==
        IF i = 0 THEN Extreme(direction) ELSE Merge(upTo[i - 1], after[nodes[i]])
  IN upTo[Len(nodes)]

MergeDropsBoundary(n) ==     \* mutant: a boundary without neighbours does not keep its fact
  MergeOf(Upstream(n))

(* The merge of what is upstream; the boundary keeps its fact while nothing is. *)
Merged(n) == IF Upstream(n) = <<>> THEN before[n] ELSE MergeOf(Upstream(n))

ChangedByMerging(n, up) ==   \* mutant: a merge counts as a change, equal or not
  changed \/ Upstream(n) # <<>> \/ after[n] # Effect(n, up)

Changed(n, up) == changed \/ before[n] # up \/ after[n] # Effect(n, up)

(* One node of a pass; another pass follows one that changed a fact. *)
Visit ==
  /\ phase = "running"
  /\ LET n == Head(todo) IN
       \E up \in {Merged(n)} :
         /\ before' = [before EXCEPT ![n] = up]
         /\ after' = [after EXCEPT ![n] = Effect(n, up)]
         /\ IF Len(todo) > 1
            THEN todo' = Tail(todo) /\ changed' = Changed(n, up) /\ UNCHANGED phase
            ELSE /\ phase' = IF Changed(n, up) THEN "running" ELSE "done"
                 /\ todo' = order /\ changed' = FALSE
  /\ UNCHANGED <<graphVars, direction, order>>

DataflowInit == GraphInit /\ AnalysisInit
DataflowNext == ChangeGraph \/ (\E d \in Direction : Start(d)) \/ Visit \/ Drop
DataflowSpec == DataflowInit /\ [][DataflowNext]_vars /\ WF_vars(Visit)

-----------------------------------------------------------------------------
(* Facts that respect every edge added (the edges, not the queries) and the boundary. *)
Below(a, b) == Merge(a, b) = b
Source(e)   == IF direction = "forward" THEN e[1] ELSE e[2]
Target(e)   == IF direction = "forward" THEN e[2] ELSE e[1]

Respects(X) ==
  LET added == ToSet(edges) IN
    /\ \A e \in added : Below(Effect(Source(e), X[Source(e)]), X[Target(e)])
    /\ Boundary \in Nodes \ {Target(e) : e \in added} => Below(Initial, X[Boundary])

(***************************************************************************)
(* In whatever order the hash map gives the nodes, on graphs with cycles   *)
(* and through packed arrays as through lists, a finished analysis holds   *)
(* the least facts that respect the edges and the boundary: sound, the     *)
(* most precise, and the same in each run.  (A boundary node with edges    *)
(* into it does not keep its boundary fact: README, section 5.)            *)
(***************************************************************************)
FinishedIsLeast ==
  phase = "done" /\ ~strained =>
    /\ Respects(before)
    /\ \A n \in Nodes : after[n] = Effect(n, before[n])
    /\ \A X \in [Nodes -> Value] : Respects(X) => \A n \in Nodes : Below(before[n], X[n])

(* Every run ends, on a cyclic graph too. *)
RunsEnd == phase = "running" ~> phase = "done"

=============================================================================
