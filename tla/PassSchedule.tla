---------------------------- MODULE PassSchedule ----------------------------
(***************************************************************************)
(* What PassManager::compute_order promises, without how it is computed:   *)
(* from the registered passes it either installs an execution order in     *)
(* which every pass follows its registered dependencies, or reports a      *)
(* circular dependency.  PassOrder is the depth-first search that          *)
(* implements this specification.                                          *)
(***************************************************************************)
EXTENDS Naturals, Sequences

CONSTANTS Name,       \* the names a pass may have or depend on
          Decl,       \* the passes a client may register
          MaxPasses   \* bound: registrations between two calls of clear()

ASSUME DeclAssumption == Decl \subseteq [name : Name, deps : SUBSET Name]
ASSUME MaxPassesAssumption == MaxPasses \in Nat

VARIABLES passes,          \* PassManager.passes, in registration order
          executionOrder,  \* PassManager.execution_order: indices of passes
          status           \* what the last compute_order said of `passes`

scheduleVars == <<passes, executionOrder, status>>

Registered == {passes[i].name : i \in DOMAIN passes}

(***************************************************************************)
(* `graph` and `name_to_idx` are keyed by name, so a later registration of *)
(* a name replaces an earlier one.  A name nobody registered is not in the *)
(* graph: it has no dependencies.                                          *)
(***************************************************************************)
IsLast(i) == \A j \in DOMAIN passes : passes[j].name = passes[i].name => j <= i

LastOf(n) == {i \in DOMAIN passes : passes[i].name = n /\ IsLast(i)}

Deps(n) == UNION {passes[i].deps : i \in LastOf(n)}

IndexOf(n) == CHOOSE i \in DOMAIN passes : i \in LastOf(n)

(***************************************************************************)
(* The dependencies are cyclic when some non-empty set of names is closed  *)
(* in the sense that each of its members depends on one of them.           *)
(***************************************************************************)
Cyclic(S) == S # {} /\ \A n \in S : Deps(n) \cap S # {}

HasCycle == \E S \in SUBSET Name : Cyclic(S)

NameAt(o, i) == passes[o[i]].name

(***************************************************************************)
(* `o` runs every registered name exactly once, with its last              *)
(* registration, after the registered names it depends on.                 *)
(***************************************************************************)
RunsEachNameOnce(o) ==
  /\ {NameAt(o, i) : i \in DOMAIN o} = Registered
  /\ \A i, j \in DOMAIN o : NameAt(o, i) = NameAt(o, j) => i = j
  /\ \A i \in DOMAIN o : IsLast(o[i])

DependenciesFirst(o) ==
  \A i \in DOMAIN o : \A d \in Deps(NameAt(o, i)) \cap Registered :
    \E j \in DOMAIN o : j < i /\ NameAt(o, j) = d

IsExecutionOrder(o) ==
  /\ o \in Seq(DOMAIN passes)
  /\ RunsEachNameOnce(o)
  /\ DependenciesFirst(o)

-----------------------------------------------------------------------------
ScheduleInit ==
  /\ passes = <<>>
  /\ executionOrder = <<>>
  /\ status = "stale"

Register(d) ==
  /\ Len(passes) < MaxPasses
  /\ passes' = Append(passes, d)
  /\ status' = "stale"
  /\ UNCHANGED executionOrder

Clear ==
  /\ passes' = <<>>
  /\ executionOrder' = <<>>
  /\ status' = "stale"

OrderFound ==
  /\ ~HasCycle
  /\ IsExecutionOrder(executionOrder')
  /\ status' = "ok"
  /\ UNCHANGED passes

OrderRefused ==
  /\ HasCycle
  /\ status' = "cycle"
  /\ UNCHANGED <<passes, executionOrder>>

ScheduleNext ==
  \/ \E d \in Decl : Register(d)
  \/ Clear
  \/ OrderFound
  \/ OrderRefused

ScheduleSpec == ScheduleInit /\ [][ScheduleNext]_scheduleVars
=============================================================================
