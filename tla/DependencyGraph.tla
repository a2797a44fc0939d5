--------------------------- MODULE DependencyGraph ---------------------------
(***************************************************************************)
(* DependencyGraph of the analysis cache: which passes to run again when   *)
(* functions change.  get_affected_passes is a breadth-first search whose  *)
(* hash sets give it any order; each call, and each pass it takes off its  *)
(* queue, is a step.                                                       *)
(***************************************************************************)
EXTENDS Naturals, Sequences, SequencesExt

CONSTANTS PassName, FunctionName,
          MaxEdges   \* bound: edges registered at one time

Edge == [from : PassName, function : FunctionName, to : PassName]

VARIABLES edges, changed, affected, queue, searching

graphVars == <<edges, changed, affected, queue, searching>>

GraphInit ==
  edges = {} /\ changed = {} /\ affected = {} /\ queue = <<>> /\ searching = FALSE

RegisterEdge(e) ==
  /\ ~searching /\ Cardinality(edges \cup {e}) <= MaxEdges
  /\ edges' = edges \cup {e} /\ changed' = {} /\ affected' = {}
  /\ UNCHANGED <<queue, searching>>

(* The edges into the pass stay. *)
RemovePass(p) ==
  /\ ~searching
  /\ edges' = {e \in edges : e.from # p} /\ changed' = {} /\ affected' = {}
  /\ UNCHANGED <<queue, searching>>

(* Both ends of an edge about a changed function are affected. *)
Seeds(F) == UNION {{e.from, e.to} : e \in {x \in edges : x.function \in F}}

GetAffectedPasses(F) ==
  /\ ~searching
  /\ changed' = F /\ affected' = Seeds(F)
  /\ queue' \in SetToSeqs(affected')
  /\ searching' = (affected' # {})
  /\ UNCHANGED edges

Neighbours(p) ==          \* mutant: edges are followed both ways
  {e.to : e \in {x \in edges : x.from = p}} \cup {e.from : e \in {x \in edges : x.to = p}}

Downstream(p) == {e.to : e \in {x \in edges : x.from = p}}

DequeueUnqueued ==        \* mutant: the passes found are not queued
  /\ searching
  /\ affected' = affected \cup Downstream(Head(queue))
  /\ queue' = Tail(queue)
  /\ searching' = (queue' # <<>>)
  /\ UNCHANGED <<edges, changed>>

(* while let Some(pass) = queue.pop_front() *)
Dequeue ==
  /\ searching
  /\ LET found == Downstream(Head(queue)) \ affected IN
       /\ affected' = affected \cup found
       /\ queue' \in {Tail(queue) \o s : s \in SetToSeqs(found)}
  /\ searching' = (queue' # <<>>)
  /\ UNCHANGED <<edges, changed>>

GraphNext ==
  \/ \E e \in Edge : RegisterEdge(e)
  \/ \E p \in PassName : RemovePass(p)
  \/ \E F \in SUBSET FunctionName : GetAffectedPasses(F)
  \/ Dequeue

GraphSpec == GraphInit /\ [][GraphNext]_graphVars

-----------------------------------------------------------------------------
GraphTypeOK ==
  /\ edges \subseteq Edge /\ changed \subseteq FunctionName /\ affected \subseteq PassName
  /\ queue \in Seq(affected) /\ searching \in BOOLEAN

(***************************************************************************)
(* The answer is the smallest set that contains the passes of the changed  *)
(* functions and is closed under the edges: a pass left out may keep its   *)
(* cached result, and none in it runs again for nothing.                   *)
(***************************************************************************)
Closed(S) == Seeds(changed) \subseteq S /\ \A e \in edges : e.from \in S => e.to \in S

ExactlyAffected ==
  ~searching => Closed(affected) /\ \A S \in SUBSET affected : Closed(S) => S = affected
=============================================================================
