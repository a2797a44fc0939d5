------------------------------ MODULE PassOrder ------------------------------
(***************************************************************************)
(* PassManager::compute_order and PassManager::visit: the depth-first      *)
(* search that turns the registered passes and their dependencies into     *)
(* `execution_order`.  The recursion of visit is the variable `stack`, one *)
(* frame per active call, so that each call, return and error is a step.   *)
(* A frame's `todo` holds the dependencies its loop has still to visit:    *)
(* they come from a HashSet, so any of them may be next.                   *)
(***************************************************************************)
EXTENDS PassSchedule

VARIABLES searching,  \* compute_order is running
          next,       \* position of its loop over the registered passes
          stack,      \* the active calls of visit, outermost first
          temp,       \* names being visited
          visited,    \* names visited
          order       \* registered names in the order visit pushed them

searchVars == <<searching, next, stack, temp, visited, order>>
vars == <<passes, executionOrder, status, searching, next, stack, temp, visited, order>>

Frame == [node : Name, todo : SUBSET Name]

(* Each variable holds what the Rust type and the search's shape allow;    *)
(* in particular the loop over the passes never runs past their end.       *)
TypeOK ==
  /\ passes \in Seq(Decl)
  /\ executionOrder \in Seq(Nat)
  /\ status \in {"stale", "ok", "cycle"}
  /\ searching \in BOOLEAN
  /\ next \in 1 .. (Len(passes) + 1)
  /\ stack \in Seq(Frame)
  /\ temp \in SUBSET Name
  /\ visited \in SUBSET Name
  /\ order \in Seq(Name)

Idle ==
  /\ searching = FALSE
  /\ next = 1
  /\ stack = <<>>
  /\ temp = {}
  /\ visited = {}
  /\ order = <<>>

Init == ScheduleInit /\ Idle

-----------------------------------------------------------------------------
LenientVisit(n, below, nx) ==   \* mutant: a node being visited counts as visited
  \/ /\ n \in temp \cup visited
     /\ stack' = below
     /\ next' = nx
     /\ UNCHANGED <<passes, executionOrder, status, searching, temp, visited, order>>
  \/ /\ n \notin temp \cup visited
     /\ temp' = temp \cup {n}
     /\ stack' = Append(below, [node |-> n, todo |-> Deps(n)])
     /\ next' = nx
     /\ UNCHANGED <<passes, executionOrder, status, searching, visited, order>>

-----------------------------------------------------------------------------
(* The client's calls; none of them can overlap a call of compute_order.   *)

DoRegister(d) == ~searching /\ Register(d) /\ UNCHANGED searchVars

DoClear == ~searching /\ Clear /\ UNCHANGED searchVars

ComputeOrder ==
  /\ ~searching
  /\ searching' = TRUE
  /\ UNCHANGED <<passes, executionOrder, status, next, stack, temp, visited, order>>

-----------------------------------------------------------------------------
(* Leaving compute_order drops its local variables. *)
Leave ==
  /\ searching' = FALSE
  /\ next' = 1
  /\ stack' = <<>>
  /\ temp' = {}
  /\ visited' = {}
  /\ order' = <<>>

(***************************************************************************)
(* A call of visit(n) from the frames `below`: an error if n is being      *)
(* visited, nothing if it has been, and a frame of its own otherwise.  An  *)
(* error unwinds every frame (`?`) and leaves execution_order as it was.   *)
(***************************************************************************)
Visit(n, below, nx) ==
  \/ /\ n \in temp
     /\ status' = "cycle"
     /\ Leave
     /\ UNCHANGED <<passes, executionOrder>>
  \/ /\ n \notin temp /\ n \in visited
     /\ stack' = below
     /\ next' = nx
     /\ UNCHANGED <<passes, executionOrder, status, searching, temp, visited, order>>
  \/ /\ n \notin temp /\ n \notin visited
     /\ temp' = temp \cup {n}
     /\ stack' = Append(below, [node |-> n, todo |-> Deps(n)])
     /\ next' = nx
     /\ UNCHANGED <<passes, executionOrder, status, searching, visited, order>>

Top == stack[Len(stack)]
Below == SubSeq(stack, 1, Len(stack) - 1)

EarlyFinish ==             \* mutant: returns before the loop has ended
  /\ searching /\ stack # <<>>
  /\ temp' = temp \ {Top.node}
  /\ visited' = visited \cup {Top.node}
  /\ order' = IF Top.node \in Registered THEN Append(order, Top.node) ELSE order
  /\ stack' = Below
  /\ UNCHANGED <<passes, executionOrder, status, searching, next>>

VisitNext ==
  /\ searching /\ stack = <<>> /\ next <= Len(passes)
  /\ Visit(passes[next].name, stack, next + 1)

VisitDependency ==
  /\ searching /\ stack # <<>>
  /\ \E d \in Top.todo :
       Visit(d, Append(Below, [Top EXCEPT !.todo = @ \ {d}]), next)

(***************************************************************************)
(* The end of visit's loop.  The code pushes every node and drops the      *)
(* unregistered ones when it turns names into indices; here they are not   *)
(* pushed, which gives the same indices.                                   *)
(***************************************************************************)
FinishVisit ==
  /\ searching /\ stack # <<>> /\ Top.todo = {}
  /\ temp' = temp \ {Top.node}
  /\ visited' = visited \cup {Top.node}
  /\ order' = IF Top.node \in Registered THEN Append(order, Top.node) ELSE order
  /\ stack' = Below
  /\ UNCHANGED <<passes, executionOrder, status, searching, next>>

InstallOrder ==
  /\ searching /\ stack = <<>> /\ next > Len(passes)
  /\ executionOrder' = [i \in DOMAIN order |-> IndexOf(order[i])]
  /\ status' = "ok"
  /\ Leave
  /\ UNCHANGED passes

SearchStep == VisitNext \/ VisitDependency \/ FinishVisit \/ InstallOrder

Next ==
  \/ \E d \in Decl : DoRegister(d)
  \/ DoClear
  \/ ComputeOrder
  \/ SearchStep

Spec == Init /\ [][Next]_vars

-----------------------------------------------------------------------------
(***************************************************************************)
(* The search, as one inductive invariant.  `temp` is the set of nodes on  *)
(* the stack; each frame was called for a dependency of the frame below    *)
(* it, and the dependencies a frame no longer has to visit are visited,    *)
(* save the one it is visiting now.                                        *)
(***************************************************************************)
Calls(i, d) == \E j \in DOMAIN stack : j = i + 1 /\ stack[j].node = d

StackInv ==
  /\ temp = {stack[i].node : i \in DOMAIN stack}
  /\ \A i, j \in DOMAIN stack : stack[i].node = stack[j].node => i = j
  /\ \A i \in DOMAIN stack : stack[i].todo \subseteq Deps(stack[i].node)
  /\ \A i \in DOMAIN stack : \A d \in Name :
       Calls(i, d) => d \in Deps(stack[i].node)
  /\ \A i \in DOMAIN stack : \A d \in Deps(stack[i].node) :
       d \in visited \cup stack[i].todo \/ Calls(i, d)

(* Visited names have visited dependencies, none of them cyclically.       *)
VisitedInv ==
  /\ temp \cap visited = {}
  /\ \A n \in visited : Deps(n) \subseteq visited
  /\ \A S \in SUBSET visited : ~Cyclic(S)

(* `order` lists the visited registered names, dependencies first.         *)
OrderInv ==
  /\ {order[i] : i \in DOMAIN order} = visited \cap Registered
  /\ \A i, j \in DOMAIN order : order[i] = order[j] => i = j
  /\ \A i \in DOMAIN order : \A d \in Deps(order[i]) \cap Registered :
       \E j \in DOMAIN order : j < i /\ order[j] = d

(* The loop has reached every name before `next`.                          *)
LoopInv ==
  /\ \A i \in DOMAIN passes : i < next => passes[i].name \in visited \cup temp
  /\ ~searching => Idle
  /\ \A i \in DOMAIN passes : LastOf(passes[i].name) # {}

SearchInv == StackInv /\ VisitedInv /\ OrderInv /\ LoopInv

-----------------------------------------------------------------------------
(***************************************************************************)
(* After a successful compute_order, and until the client registers or     *)
(* clears, run_with_context walks an order that runs each registered name  *)
(* exactly once, its last registration, after its registered dependencies. *)
(***************************************************************************)
InstalledOrderIsTopological == status = "ok" => IsExecutionOrder(executionOrder)

(***************************************************************************)
(* run_with_context indexes `passes` with `execution_order` unchecked.  It *)
(* may be called at any time, after a refused compute_order or a later     *)
(* registration too: no index may ever be out of range.                    *)
(***************************************************************************)
IndicesInRange == \A i \in DOMAIN executionOrder : executionOrder[i] \in DOMAIN passes
=============================================================================
