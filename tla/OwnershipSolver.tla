--------------------------- MODULE OwnershipSolver ---------------------------
(***************************************************************************)
(* OwnershipSolverPass::run: two passes over the edges of the contract     *)
(* graph.  The first creates an instance for every acquire edge, the       *)
(* second applies the effects of the other edges, in the graph's order.    *)
(* The graph is arbitrary: each edge is chosen when the loop reaches it,   *)
(* which gives the runs over every graph of at most MaxEdges edges, since  *)
(* an acquire edge does nothing in the second pass and the others do       *)
(* nothing in the first.                                                   *)
(***************************************************************************)
EXTENDS DisjointSets, Naturals, Sequences, TLC

(***************************************************************************)
(* ResourceInstance::transition: the state machine that every tracked      *)
(* resource runs through.  An event the machine rejects is an Err, which   *)
(* all callers log and drop, so that here it leaves the state as it is.    *)
(* The kind of an escape is left out, and so are the states Untracked and  *)
(* Unknown, which no constructor and no transition produces.               *)
(***************************************************************************)

State == {"Acquired", "Retained", "Escaped", "Borrowed", "Transferred", "Released"}

Event == {"Release", "ConditionalRelease", "Escape", "Transfer", "Retain", "Borrow"}

(* is_leak_candidate *)
LeakCandidate == {"Acquired", "Retained"}

AcceptedIfEscaped == {"Release", "ConditionalRelease", "Escape"}

(* The events that do not fail. *)
Accepted(s) ==
  CASE s \in LeakCandidate -> Event
    [] s = "Escaped" -> AcceptedIfEscaped
    [] s = "Borrowed" -> {"Borrow"}
    [] OTHER -> {}

StateOf ==
  [Release |-> "Released", ConditionalRelease |-> "Released", Escape |-> "Escaped",
   Transfer |-> "Transferred", Retain |-> "Retained", Borrow |-> "Borrowed"]

(* A retained instance has another reference, which outlives the release.  *)
After(s, e) ==
  IF e \notin Accepted(s) THEN s
  ELSE IF e = "ConditionalRelease" /\ s = "Retained" THEN "Acquired" ELSE StateOf[e]

-----------------------------------------------------------------------------
CONSTANTS Id,        \* resource instance ids (u64)
          Caller,    \* functions that contain the call sites
          Arg,       \* argument positions
          NoId,      \* the value that stands for None
          MaxEdges   \* bound: edges of the contract graph

(* Nothing tells one id from another. *)
Interchangeable == Permutations(Id)

ASSUME NoIdAssumption == NoId \notin Id
ASSUME MaxEdgesAssumption == MaxEdges \in Nat

VARIABLES pc,              \* which of the two passes is running
          edges,           \* edges seen so far
          instances,
          instance_map,    \* id -> index into instances, 0 when vacant
          pointer_states,  \* slot name -> PointerValueState
          chain,           \* cycle detector: id -> the ids it is united with
          escaped, reclaimed, escape_targets, reclaim_sources,
          drops            \* drop tracker: ids with a drop-like release

detector == <<chain, escaped, reclaimed, escape_targets, reclaim_sources>>
vars == <<pc, edges, instances, instance_map, pointer_states, detector, drops>>

(* The formatted slot names "f_0", "f_result_7" and "f_raw_7". *)
ArgSlot(f, a) == <<f, "arg", a>>
ResultSlot(f, x) == <<f, "result", x>>
RawSlot(f, x) == <<f, "raw", x>>

Slot == (Caller \X {"arg"} \X Arg) \cup (Caller \X {"result", "raw"} \X Id)

Value(state, x) == [state |-> state, instance |-> x]
None == Value("None", NoId)
Null == Value("Null", NoId)

Init ==
  /\ pc = "acquires" /\ edges = 0
  /\ instances = <<>>
  /\ instance_map = [x \in Id |-> 0]
  /\ pointer_states = [s \in Slot |-> None]
  /\ chain = [x \in Id |-> {}]
  /\ escaped = {} /\ reclaimed = {}
  /\ escape_targets = [x \in Id |-> NoId]
  /\ reclaim_sources = [x \in Id |-> NoId]
  /\ drops = {}

-----------------------------------------------------------------------------
Known(x) == instance_map[x] # 0

(* The vacant entry: a new instance after those of `is`, if x has none. *)
NewInstance(x, state) == [id |-> x, state |-> state]

AddIfVacant(is, x, state) ==
  IF Known(x)
  THEN instances' = is /\ UNCHANGED instance_map
  ELSE /\ instances' = Append(is, NewInstance(x, state))
       /\ instance_map' = [instance_map EXCEPT ![x] = Len(is) + 1]

(* apply_transition: nothing for an id nobody created. *)
Told(x, e) ==
  [i \in DOMAIN instances |->
     IF i = instance_map[x]
     THEN [instances[i] EXCEPT !.state = After(@, e)]
     ELSE instances[i]]

Apply(x, e) == instances' = Told(x, e)

SetSlot(s, v) == pointer_states' = [pointer_states EXCEPT ![s] = v]

Edge(pass) ==
  /\ pc = pass
  /\ edges < MaxEdges
  /\ edges' = edges + 1
  /\ UNCHANGED pc

-----------------------------------------------------------------------------
(* The first pass. *)

Acquire(f, x) ==
  /\ Edge("acquires")
  /\ SetSlot(ResultSlot(f, x), Value("Owned", x))
  /\ AddIfVacant(instances, x, "Acquired")
  /\ UNCHANGED <<detector, drops>>

AcquiresEnd ==
  /\ pc = "acquires"
  /\ pc' = "effects"
  /\ UNCHANGED <<edges, instances, instance_map, pointer_states, detector, drops>>

-----------------------------------------------------------------------------
(* The second pass: edges whose effect is an event for `source`. *)

EffectEvent == {"ConditionalRelease", "Retain", "Borrow", "Transfer", "Escape", "Release"}

(***************************************************************************)
(* ConditionalRelease, Retain, ReturnsBorrowed (Borrow), ConsumesArg       *)
(* (Transfer), StoresArgToOwner, StoresArgToGlobal and InitializesOutParam *)
(* (Escape), CrossLanguageFree (Release).                                  *)
(***************************************************************************)
PlainEffect(source, e) ==
  /\ Edge("effects")
  /\ Apply(source, e)
  /\ UNCHANGED <<instance_map, pointer_states, detector, drops>>

(* The slot is named after the argument's position, not after `source`. *)
ReleasedSlot(s) ==
  IF pointer_states[s].state = "Owned"
  THEN SetSlot(s, [pointer_states[s] EXCEPT !.state = "Released"])
  ELSE UNCHANGED pointer_states

Release(f, source, a, isDrop) ==
  /\ Edge("effects")
  /\ drops' = IF isDrop THEN drops \cup {source} ELSE drops
  /\ ReleasedSlot(ArgSlot(f, a))
  /\ Apply(source, "Release")
  /\ UNCHANGED <<instance_map, detector>>

NullGuardedRelease(f, source, a) ==
  /\ Edge("effects")
  /\ ReleasedSlot(ArgSlot(f, a))
  /\ IF pointer_states[ArgSlot(f, a)] = Null
     THEN UNCHANGED instances
     ELSE Apply(source, "ConditionalRelease")
  /\ UNCHANGED <<instance_map, detector, drops>>

ReturnsOwned(f, source) ==
  /\ Edge("effects")
  /\ IF pointer_states[ResultSlot(f, source)].state = "Owned"
     THEN SetSlot(ResultSlot(f, source), [pointer_states[ResultSlot(f, source)]
                                            EXCEPT !.state = "Escaped"])
     ELSE UNCHANGED pointer_states
  /\ Apply(source, "Escape")
  /\ UNCHANGED <<instance_map, detector, drops>>

(* Userdata without an acquire edge is a borrowed instance of its own. *)
EscapesToCallback(source) ==
  /\ Edge("effects")
  /\ IF Known(source)
     THEN Apply(source, "Escape") /\ UNCHANGED instance_map
     ELSE AddIfVacant(instances, source, "Borrowed")
  /\ UNCHANGED <<pointer_states, detector, drops>>

-----------------------------------------------------------------------------
(* into_raw and from_raw, which also tell the cycle detector. *)

ForgetUnion(x, target) ==       \* mutant: the two ids stay apart
  /\ chain' = Inserted(chain, {x, target})
  /\ escaped' = escaped \cup {x}
  /\ escape_targets' = [escape_targets EXCEPT ![x] = target]
  /\ UNCHANGED <<reclaimed, reclaim_sources>>

record_escape(x, target) ==
  /\ chain' = Joined(Inserted(chain, {x, target}), x, target)
  /\ escaped' = escaped \cup {x}
  /\ escape_targets' = [escape_targets EXCEPT ![x] = target]
  /\ UNCHANGED <<reclaimed, reclaim_sources>>

(* A source the detector has not seen is made known by the union. *)
record_reclaim(source, x) ==
  /\ chain' = Joined(Inserted(chain, {source, x}), source, x)
  /\ reclaimed' = reclaimed \cup {x}
  /\ reclaim_sources' = [reclaim_sources EXCEPT ![x] = source]
  /\ UNCHANGED <<escaped, escape_targets>>

(* `result` becomes another name of the escaped instance. *)
OwnershipEscape(f, source, result) ==
  /\ Edge("effects")
  /\ SetSlot(RawSlot(f, result), Value("Escaped", source))
  /\ Apply(source, "Escape")
  /\ IF Known(source)
     THEN /\ instance_map' = IF Known(result) THEN instance_map
                             ELSE [instance_map EXCEPT ![result] = instance_map[source]]
          /\ record_escape(source, result)
     ELSE UNCHANGED <<instance_map, detector>>
  /\ UNCHANGED drops

ReclaimKeeping(source, result) ==   \* mutant: the escaped instance is left alone
  /\ Edge("effects")
  /\ AddIfVacant(instances, result, "Acquired")
  /\ record_reclaim(source, result)
  /\ UNCHANGED <<pointer_states, drops>>

(* The escaped instance ends, and `result` starts a life of its own. *)
OwnershipReclaim(source, result) ==
  /\ Edge("effects")
  /\ AddIfVacant(Told(source, "Release"), result, "Acquired")
  /\ record_reclaim(source, result)
  /\ UNCHANGED <<pointer_states, drops>>

-----------------------------------------------------------------------------
(* Out-parameters and the clearing of a released pointer. *)

OutParamOwnedOnSuccess(f, target, a) ==
  /\ Edge("effects")
  /\ SetSlot(ArgSlot(f, a), Value("Owned", target))
  /\ AddIfVacant(instances, target, "Acquired")
  /\ UNCHANGED <<detector, drops>>

OutParamNullOnError(f, source, a) ==
  /\ Edge("effects")
  /\ SetSlot(ArgSlot(f, a), Null)
  /\ Apply(source, "ConditionalRelease")
  /\ UNCHANGED <<instance_map, detector, drops>>

NullStoreAfterRelease(f, a) ==
  /\ Edge("effects")
  /\ SetSlot(ArgSlot(f, a), Null)
  /\ UNCHANGED <<instances, instance_map, detector, drops>>

-----------------------------------------------------------------------------
(* The end: instances, slots, detector and drops go to the blackboard. *)
Store ==
  /\ pc = "effects"
  /\ pc' = "stored"
  /\ UNCHANGED <<edges, instances, instance_map, pointer_states, detector, drops>>

Effect ==
  \/ \E x \in Id, e \in EffectEvent : PlainEffect(x, e)
  \/ \E x, y \in Id : OwnershipReclaim(x, y)
  \/ \E x \in Id : EscapesToCallback(x)
  \/ \E f \in Caller, x \in Id :
       \/ ReturnsOwned(f, x)
       \/ \E y \in Id : OwnershipEscape(f, x, y)
       \/ \E a \in Arg :
            \/ \E d \in BOOLEAN : Release(f, x, a, d)
            \/ NullGuardedRelease(f, x, a)
            \/ OutParamOwnedOnSuccess(f, x, a)
            \/ OutParamNullOnError(f, x, a)
  \/ \E f \in Caller, a \in Arg : NullStoreAfterRelease(f, a)

Next ==
  \/ \E f \in Caller, x \in Id : Acquire(f, x)
  \/ AcquiresEnd
  \/ Effect
  \/ Store

Spec == Init /\ [][Next]_vars

-----------------------------------------------------------------------------
Instance == [id : Id, state : State]

PointerValueState ==
  {None, Null} \cup [state : {"Owned", "Released", "Escaped"}, instance : Id]

SolverTypeOK ==
  /\ pc \in {"acquires", "effects", "stored"}
  /\ edges \in 0 .. MaxEdges
  /\ instances \in Seq(Instance)
  /\ instance_map \in [Id -> 0 .. Len(instances)]
  /\ pointer_states \in [Slot -> PointerValueState]
  /\ chain \in [Id -> SUBSET Id]
  /\ escaped \subseteq Id /\ reclaimed \subseteq Id /\ drops \subseteq Id
  /\ escape_targets \in [Id -> Id \cup {NoId}]
  /\ reclaim_sources \in [Id -> Id \cup {NoId}]

(***************************************************************************)
(* Two ids under which the map finds the same instance are of one chain    *)
(* of the cycle detector, which is kept apart from the map; so are an      *)
(* escaped id and where it went, and a reclaimed id and what it was        *)
(* reclaimed from, though the solver may never have made an instance of    *)
(* the latter.                                                             *)
(***************************************************************************)
AliasesTogether ==
  \A x, y \in Id :
    x # y /\ Known(x) /\ instance_map[x] = instance_map[y] => Together(chain, x, y)

MovesTogether ==
  /\ \A x \in escaped : escape_targets[x] \in Id /\ Together(chain, x, escape_targets[x])
  /\ \A x \in reclaimed : reclaim_sources[x] \in Id /\ Together(chain, x, reclaim_sources[x])

AliasesShareChain == AliasesTogether /\ MovesTogether

(***************************************************************************)
(* After from_raw there is one owner: an instance that was there when it   *)
(* was reclaimed as a later one is not a leak candidate, nor escaped.      *)
(***************************************************************************)
Own(x) == Known(x) /\ instances[instance_map[x]].id = x

ReclaimEndsOwnership ==
  \A x \in reclaimed : LET s == reclaim_sources[x] IN
    Own(x) /\ Own(s) /\ instance_map[s] < instance_map[x] =>
      instances[instance_map[s]].state \in {"Released", "Transferred", "Borrowed"}

=============================================================================
