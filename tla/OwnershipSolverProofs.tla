------------------------ MODULE OwnershipSolverProofs ------------------------
(***************************************************************************)
(* Proofs about the ownership solver, for every contract graph, every set  *)
(* of ids and every number of edges: the map of instances and the cycle    *)
(* detector, which are kept apart, agree on aliases, and an instance that  *)
(* was reclaimed as a later one stays ended.                               *)
(***************************************************************************)
EXTENDS OwnershipSolver, SequenceTheorems, TLAPS

(* The states from which no event leads to a live one.                     *)
Ended == {"Released", "Transferred", "Borrowed"}

(* The detector's sets are disjoint: each id of a set has that set.        *)
Disjoint(c) ==
  /\ c \in [Id -> SUBSET Id]
  /\ \A x \in Id : c[x] # {} => x \in c[x]
  /\ \A x \in Id : \A y \in c[x] : c[y] = c[x]

(* An instance is found under its own id.                                  *)
FoundByOwnId == \A i \in 1 .. Len(instances) : instance_map[instances[i].id] = i

(* A reclaimed id has an instance, and what it was reclaimed from is known. *)
ReclaimInv == \A x \in reclaimed : Known(x) /\ reclaim_sources[x] \in Id

SolverInv ==
  /\ SolverTypeOK /\ Disjoint(chain) /\ FoundByOwnId /\ ReclaimInv
  /\ AliasesShareChain /\ ReclaimEndsOwnership

-----------------------------------------------------------------------------
(* The state machine: no event is refused by leaving the states, and none  *)
(* brings an ended instance back.                                          *)
LEMMA AfterIsState ==
  ASSUME NEW s \in State, NEW e \in Event
  PROVE  /\ After(s, e) \in State
         /\ s \in Ended => After(s, e) \in Ended
         /\ After(s, "Release") \in Ended
<1> USE DEF State, Event, Ended, After, Accepted, LeakCandidate, AcceptedIfEscaped, StateOf
<1>1. After(s, e) \in State
  OBVIOUS
<1>2. s \in Ended => After(s, e) \in Ended
  OBVIOUS
<1>3. After(s, "Release") \in Ended
  OBVIOUS
<1> QED BY <1>1, <1>2, <1>3

(* Telling an instance of an event changes one state, and nothing else.    *)
LEMMA ToldKeepsIds ==
  ASSUME SolverTypeOK, NEW x \in Id, NEW e \in Event
  PROVE  /\ Told(x, e) \in Seq(Instance)
         /\ Len(Told(x, e)) = Len(instances)
         /\ \A i \in 1 .. Len(instances) :
              /\ Told(x, e)[i].id = instances[i].id
              /\ instances[i].state \in Ended => Told(x, e)[i].state \in Ended
         /\ Known(x) => Told(x, e)[instance_map[x]].state = After(instances[instance_map[x]].state, e)
<1> DEFINE told == Told(x, e)
<1>1. /\ DOMAIN instances = 1 .. Len(instances) /\ Len(instances) \in Nat
      /\ \A i \in 1 .. Len(instances) : instances[i] \in Instance
  BY DEF SolverTypeOK
<1>2. told = [i \in 1 .. Len(instances) |->
                IF i = instance_map[x]
                THEN [instances[i] EXCEPT !.state = After(instances[i].state, e)] ELSE instances[i]]
  BY <1>1 DEF Told
<1>3. \A i \in 1 .. Len(instances) :
         /\ told[i] \in Instance /\ told[i].id = instances[i].id
         /\ told[i].state = IF i = instance_map[x] THEN After(instances[i].state, e)
                                                   ELSE instances[i].state
  BY <1>1, <1>2, AfterIsState DEF Instance
<1>4. told \in Seq(Instance) /\ Len(told) = Len(instances)
  <2>1. told \in [1 .. Len(instances) -> Instance]
    BY <1>2, <1>3
  <2> QED BY <2>1, <1>1, IsASeq, LenProperties
<1>5. \A i \in 1 .. Len(instances) : instances[i].state \in Ended => told[i].state \in Ended
  BY <1>1, <1>3, AfterIsState DEF Instance
<1>6. Known(x) => instance_map[x] \in 1 .. Len(instances)
  BY <1>1 DEF SolverTypeOK, Known
<1> QED BY <1>3, <1>4, <1>5, <1>6

-----------------------------------------------------------------------------
(***************************************************************************)
(* What every edge does to instances and map: instances keep their place   *)
(* and id and ended ones stay ended, an entry of the map is never changed, *)
(* and a new one is for the instance just added or, from into_raw alone,   *)
(* for one that is there.                                                  *)
(***************************************************************************)
Grows ==
  /\ instances' \in Seq(Instance) /\ instance_map' \in [Id -> 0 .. Len(instances')]
  /\ Len(instances) <= Len(instances')
  /\ \A i \in 1 .. Len(instances) :
       /\ instances'[i].id = instances[i].id
       /\ instances[i].state \in Ended => instances'[i].state \in Ended
  /\ \A i \in 1 .. Len(instances') :
       i \in 1 .. Len(instances) \/ instance_map'[instances'[i].id] = i
  /\ \A x \in Id : Known(x) => instance_map'[x] = instance_map[x]

Fresh(x) == instance_map'[x] = Len(instances') /\ Len(instances') = Len(instances) + 1

AddsOnly(x) == \A y \in Id : Known(y)' => Known(y) \/ (y = x /\ Fresh(y))

LEMMA AddGrows ==
  ASSUME SolverTypeOK, NEW x \in Id, NEW s \in State, NEW is \in Seq(Instance),
         Len(is) = Len(instances),
         \A i \in 1 .. Len(instances) :
           /\ is[i].id = instances[i].id
           /\ instances[i].state \in Ended => is[i].state \in Ended,
         AddIfVacant(is, x, s)
  PROVE  /\ Grows /\ AddsOnly(x) /\ Known(x)'
         /\ \A i \in 1 .. Len(instances) : instances'[i] = is[i]
<1>1. Len(instances) \in Nat /\ instance_map \in [Id -> 0 .. Len(instances)]
  BY DEF SolverTypeOK
<1>2. CASE Known(x)
  <2>1. instances' = is /\ instance_map' = instance_map
    BY <1>2 DEF AddIfVacant
  <2> QED BY <2>1, <1>1, <1>2 DEF Grows, AddsOnly, Known
<1>3. CASE ~Known(x)
  <2> DEFINE new == [id |-> x, state |-> s]
  <2>1. instances' = Append(is, new)
        /\ instance_map' = [instance_map EXCEPT ![x] = Len(is) + 1]
    BY <1>3 DEF AddIfVacant, NewInstance
  <2>2. new \in Instance
    BY DEF Instance
  <2>3. /\ instances' \in Seq(Instance) /\ Len(instances') = Len(instances) + 1
        /\ \A i \in 1 .. Len(instances) : instances'[i] = is[i]
    BY <2>1, <2>2, AppendProperties
  <2>4. instance_map' \in [Id -> 0 .. Len(instances')]
    BY <2>1, <2>3, <1>1
  <2>7. instances'[Len(instances')].id = x
    BY <2>1, <2>2, AppendProperties
  <2>5. \A y \in Id : y # x => instance_map'[y] = instance_map[y]
    BY <2>1, <1>1
  <2>6. instance_map'[x] = Len(instances) + 1
    BY <2>1, <1>1
  <2>8. \A i \in 1 .. Len(instances') : i \in 1 .. Len(instances) \/ i = Len(instances')
    BY <2>3, <1>1
  <2>9. Grows
    BY <2>3, <2>4, <2>5, <2>6, <2>7, <2>8, <1>1, <1>3 DEF Grows, Known
  <2> QED BY <2>3, <2>5, <2>6, <2>9, <1>1 DEF AddsOnly, Fresh, Known
<1> QED BY <1>2, <1>3

LEMMA ApplyGrows ==
  ASSUME SolverTypeOK, NEW x \in Id, NEW e \in Event, Apply(x, e)
  PROVE  /\ instances' \in Seq(Instance) /\ Len(instances') = Len(instances)
         /\ \A i \in 1 .. Len(instances) :
              /\ instances'[i].id = instances[i].id
              /\ instances[i].state \in Ended => instances'[i].state \in Ended
         /\ instance_map' = instance_map => Grows /\ \A y \in Id : AddsOnly(y)
<1>1. instances' = Told(x, e)
  BY DEF Apply
<1>2. Len(instances) \in Nat /\ instance_map \in [Id -> 0 .. Len(instances)]
  BY DEF SolverTypeOK
<1> QED BY <1>1, <1>2, ToldKeepsIds DEF Grows, AddsOnly, Known

LEMMA SameGrows ==
  ASSUME SolverTypeOK, UNCHANGED <<instances, instance_map>>, NEW x
  PROVE  Grows /\ AddsOnly(x)
BY DEF SolverTypeOK, Grows, AddsOnly, Known

-----------------------------------------------------------------------------
(* The detector's sets, when an id is added and when two sets are united.  *)

LEMMA InsertedDisjoint ==
  ASSUME NEW c, Disjoint(c), NEW S \in SUBSET Id
  PROVE  /\ Disjoint(Inserted(c, S))
         /\ \A x \in S : Inserted(c, S)[x] # {}
         /\ \A x, y \in Id : Together(c, x, y) => Together(Inserted(c, S), x, y)
<1> DEFINE d == Inserted(c, S)
<1>1. d = [z \in Id |-> IF z \in S /\ c[z] = {} THEN {z} ELSE c[z]]
  BY DEF Inserted, Disjoint
<1>2. \A x, y \in Id : y \in d[x] => d[y] = d[x]
  BY <1>1 DEF Disjoint
<1>3. d \in [Id -> SUBSET Id] /\ \A x \in Id : d[x] # {} => x \in d[x]
  BY <1>1 DEF Disjoint
<1>4. Disjoint(d)
  BY <1>2, <1>3 DEF Disjoint
<1>5. \A x, y \in Id : Together(c, x, y) => Together(d, x, y)
  BY <1>1 DEF Together
<1> QED BY <1>1, <1>4, <1>5

LEMMA JoinedDisjoint ==
  ASSUME NEW c, Disjoint(c), NEW a \in Id, NEW b \in Id
  PROVE  /\ Disjoint(Joined(c, a, b))
         /\ c[a] # {} /\ c[b] # {} => Together(Joined(c, a, b), a, b)
         /\ \A x, y \in Id : Together(c, x, y) => Together(Joined(c, a, b), x, y)
<1> DEFINE d == Joined(c, a, b)
           U == c[a] \cup c[b]
<1>1. d = [z \in Id |-> IF z \in U THEN U ELSE c[z]]
  BY DEF Joined, Disjoint
<1>2. \A x \in Id : x \notin U => \A y \in c[x] : y \in Id /\ y \notin U
  BY DEF Disjoint
<1>3. \A x, y \in Id : y \in d[x] => d[y] = d[x]
  BY <1>1, <1>2 DEF Disjoint
<1>4. U \subseteq Id
  BY DEF Disjoint
<1>5. Disjoint(d)
  BY <1>1, <1>3, <1>4 DEF Disjoint
<1>6. \A x, y \in Id : Together(c, x, y) => Together(d, x, y)
  <2> SUFFICES ASSUME NEW x \in Id, NEW y \in Id, c[x] # {}, c[x] = c[y]
               PROVE  d[x] # {} /\ d[x] = d[y]
    BY DEF Together
  <2>1. x \in U <=> y \in U
    BY DEF Disjoint
  <2> QED BY <2>1, <1>1
<1>7. c[a] # {} /\ c[b] # {} => d[a] # {} /\ d[a] = d[b]
  BY <1>1 DEF Disjoint
<1> QED BY <1>5, <1>6, <1>7 DEF Together

(* Sets are only ever united: ids that share one keep sharing it.          *)
ChainGrows ==
  /\ Disjoint(chain')
  /\ \A x, y \in Id : Together(chain, x, y) => Together(chain', x, y)

LEMMA EscapeUnites ==
  ASSUME Disjoint(chain), NEW x \in Id, NEW y \in Id, record_escape(x, y)
  PROVE  ChainGrows /\ Together(chain', x, y)
<1> DEFINE with == Inserted(chain, {x, y})
<1>1. chain' = Joined(with, x, y)
  BY DEF record_escape
<1>2. /\ Disjoint(with) /\ with[x] # {} /\ with[y] # {}
      /\ \A a, b \in Id : Together(chain, a, b) => Together(with, a, b)
  BY InsertedDisjoint
<1> HIDE DEF with
<1> QED BY <1>1, <1>2, JoinedDisjoint DEF ChainGrows

LEMMA ReclaimUnites ==
  ASSUME Disjoint(chain), NEW s \in Id, NEW x \in Id, record_reclaim(s, x)
  PROVE  ChainGrows /\ Together(chain', s, x)
<1> DEFINE with == Inserted(chain, {s, x})
<1>1. chain' = Joined(with, s, x)
  BY DEF record_reclaim
<1>2. /\ Disjoint(with) /\ with[s] # {} /\ with[x] # {}
      /\ \A a, b \in Id : Together(chain, a, b) => Together(with, a, b)
  BY InsertedDisjoint
<1> HIDE DEF with
<1> QED BY <1>1, <1>2, JoinedDisjoint DEF ChainGrows

-----------------------------------------------------------------------------
(* What Grows and ChainGrows keep. *)

LEMMA IdsKept ==
  ASSUME SolverTypeOK, FoundByOwnId, Grows
  PROVE  FoundByOwnId'
<1> SUFFICES ASSUME NEW i \in 1 .. Len(instances'), i \in 1 .. Len(instances)
             PROVE  instance_map'[instances'[i].id] = i
  BY DEF Grows, FoundByOwnId
<1>1. instances[i] \in Instance
  BY DEF SolverTypeOK
<1>2. instances'[i].id = instances[i].id /\ instances[i].id \in Id
  BY <1>1 DEF Grows, Instance
<1>3. instance_map[instances[i].id] = i /\ i # 0
  BY DEF FoundByOwnId
<1> QED BY <1>2, <1>3 DEF Grows, Known

LEMMA AliasesKept ==
  ASSUME SolverTypeOK, AliasesTogether, Grows, ChainGrows, NEW z, AddsOnly(z)
  PROVE  AliasesTogether'
<1> SUFFICES ASSUME NEW x \in Id, NEW y \in Id, x # y, Known(x)',
                    instance_map'[x] = instance_map'[y]
             PROVE  Together(chain', x, y)
  BY DEF AliasesTogether
<1>1. Known(y)'
  BY DEF Known
<1>2. Len(instances) \in Nat /\ \A w \in Id : instance_map[w] \in 0 .. Len(instances)
  BY DEF SolverTypeOK
<1>3. \A w \in Id : Known(w) => instance_map'[w] \in 0 .. Len(instances)
  BY <1>2 DEF Grows
<1>4. \A w \in Id : Known(w)' => Known(w) \/ (w = z /\ instance_map'[w] = Len(instances) + 1)
  BY DEF AddsOnly, Fresh
<1>5. Known(x) /\ Known(y)
  BY <1>1, <1>2, <1>3, <1>4
<1> QED BY <1>5 DEF Grows, ChainGrows, AliasesTogether

(* The ends of each move stay of one chain when those of the latest one    *)
(* are.                                                                    *)
LEMMA MovesKept ==
  ASSUME SolverTypeOK, MovesTogether, ChainGrows, NEW x \in Id, NEW y \in Id,
         record_escape(x, y) \/ record_reclaim(y, x), Together(chain', x, y)
  PROVE  MovesTogether'
<1>1. /\ escaped \subseteq Id /\ escape_targets \in [Id -> Id \cup {NoId}]
      /\ reclaimed \subseteq Id /\ reclaim_sources \in [Id -> Id \cup {NoId}]
  BY DEF SolverTypeOK
<1>2. ASSUME UNCHANGED <<escaped, escape_targets>>
      PROVE  \A z \in escaped' : escape_targets'[z] \in Id /\ Together(chain', z, escape_targets'[z])
  BY <1>1, <1>2 DEF MovesTogether, ChainGrows
<1>3. ASSUME UNCHANGED <<reclaimed, reclaim_sources>>
      PROVE  \A z \in reclaimed' : reclaim_sources'[z] \in Id /\ Together(chain', z, reclaim_sources'[z])
  BY <1>1, <1>3 DEF MovesTogether, ChainGrows
<1>4. CASE record_escape(x, y)
  <2>1. /\ escaped' = escaped \cup {x} /\ escape_targets' = [escape_targets EXCEPT ![x] = y]
        /\ UNCHANGED <<reclaimed, reclaim_sources>>
    BY <1>4 DEF record_escape
  <2>2. \A z \in escaped' : escape_targets'[z] \in Id /\ Together(chain', z, escape_targets'[z])
    BY <1>1, <2>1 DEF MovesTogether, ChainGrows
  <2> QED BY <1>3, <2>1, <2>2 DEF MovesTogether
<1>5. CASE record_reclaim(y, x)
  <2>1. /\ reclaimed' = reclaimed \cup {x} /\ reclaim_sources' = [reclaim_sources EXCEPT ![x] = y]
        /\ UNCHANGED <<escaped, escape_targets>>
    BY <1>5 DEF record_reclaim
  <2>2. \A z \in reclaimed' : reclaim_sources'[z] \in Id /\ Together(chain', z, reclaim_sources'[z])
    BY <1>1, <2>1 DEF MovesTogether, ChainGrows
  <2> QED BY <1>2, <2>1, <2>2 DEF MovesTogether
<1> QED BY <1>4, <1>5

(* An id that comes to own an instance owns the one just added.            *)
LEMMA OwnersKept ==
  ASSUME SolverTypeOK, Grows, NEW x \in Id, Known(x), Own(x)'
  PROVE  /\ Own(x) /\ instance_map'[x] = instance_map[x]
         /\ instance_map[x] \in 1 .. Len(instances)
BY DEF SolverTypeOK, Grows, Own, Known

LEMMA EndsKept ==
  ASSUME SolverInv, Grows, NEW x \in reclaimed, Own(x)',
         NEW s \in Id, s = reclaim_sources[x], Own(s)', Known(s) \/ Fresh(s),
         instance_map'[s] < instance_map'[x]
  PROVE  instances'[instance_map'[s]].state \in Ended
<1>1. x \in Id /\ Known(x)
  BY DEF SolverInv, ReclaimInv, SolverTypeOK
<1>2. Own(x) /\ instance_map'[x] = instance_map[x] /\ instance_map[x] \in 1 .. Len(instances)
  BY <1>1, OwnersKept DEF SolverInv
<1>3. Len(instances) \in Nat /\ Len(instances') \in Nat
  BY DEF SolverInv, SolverTypeOK, Grows
<1>4. Known(s)
  BY <1>2, <1>3 DEF Fresh
<1>5. Own(s) /\ instance_map'[s] = instance_map[s] /\ instance_map[s] \in 1 .. Len(instances)
  BY <1>4, OwnersKept DEF SolverInv
<1>6. instances[instance_map[s]].state \in Ended
  BY <1>2, <1>5 DEF SolverInv, ReclaimEndsOwnership, Ended
<1> QED BY <1>5, <1>6 DEF Grows

(* An edge that is not a from_raw.                                         *)
LEMMA ReclaimsKept ==
  ASSUME SolverInv, Grows, UNCHANGED <<reclaimed, reclaim_sources>>,
         \A y \in Id : Own(y)' => Known(y) \/ Fresh(y)
  PROVE  ReclaimInv' /\ ReclaimEndsOwnership'
<1>1. ReclaimInv'
  BY DEF SolverInv, SolverTypeOK, ReclaimInv, Grows, Known
<1>2. ASSUME NEW x \in reclaimed, Own(x)', NEW s \in Id, s = reclaim_sources[x], Own(s)',
             instance_map'[s] < instance_map'[x]
      PROVE  instances'[instance_map'[s]].state \in Ended
  BY <1>2, EndsKept
<1>3. \A x \in reclaimed : reclaim_sources[x] \in Id
  BY DEF SolverInv, ReclaimInv
<1>4. ReclaimEndsOwnership'
  BY <1>2, <1>3 DEF ReclaimEndsOwnership, Ended
<1> QED BY <1>1, <1>4

(* An edge that tells the detector nothing, and adds at most x.            *)
LEMMA PlainEdge ==
  ASSUME SolverInv, SolverTypeOK', Grows, NEW x, AddsOnly(x), UNCHANGED detector
  PROVE  SolverInv'
<1> USE DEF SolverInv, detector
<1>1. ChainGrows
  BY DEF ChainGrows
<1>2. FoundByOwnId' /\ AliasesTogether' /\ MovesTogether'
  BY <1>1, IdsKept, AliasesKept DEF AliasesShareChain, MovesTogether
<1>3. \A y \in Id : Own(y)' => Known(y) \/ Fresh(y)
  BY DEF AddsOnly, Own
<1>4. ReclaimInv' /\ ReclaimEndsOwnership'
  BY <1>3, ReclaimsKept
<1> QED BY <1>1, <1>2, <1>4 DEF ChainGrows, AliasesShareChain

-----------------------------------------------------------------------------
(* The slots. *)

LEMMA SlotNames ==
  ASSUME NEW f \in Caller, NEW a \in Arg, NEW x \in Id
  PROVE  ArgSlot(f, a) \in Slot /\ ResultSlot(f, x) \in Slot /\ RawSlot(f, x) \in Slot
BY DEF ArgSlot, ResultSlot, RawSlot, Slot

SlotsOK == pointer_states' \in [Slot -> PointerValueState]

LEMMA SetSlotOK ==
  ASSUME SolverTypeOK, NEW s \in Slot, NEW v \in PointerValueState, SetSlot(s, v)
  PROVE  SlotsOK
BY DEF SolverTypeOK, SetSlot, SlotsOK

LEMMA LiveValue ==
  ASSUME NEW s \in {"Owned", "Released", "Escaped"}, NEW x \in Id
  PROVE  Value(s, x) \in PointerValueState
BY DEF Value, PointerValueState

(* A slot is marked only when it holds an owned pointer.                   *)
LEMMA MarkedValue ==
  ASSUME SolverTypeOK, NEW s \in Slot, pointer_states[s].state = "Owned",
         NEW mark \in {"Released", "Escaped"}
  PROVE  [pointer_states[s] EXCEPT !.state = mark] \in PointerValueState
<1>1. pointer_states[s] \in [state : {"Owned", "Released", "Escaped"}, instance : Id]
  BY DEF SolverTypeOK, PointerValueState, None, Null, Value
<1> QED BY <1>1 DEF PointerValueState

LEMMA ReleasedSlotOK ==
  ASSUME SolverTypeOK, NEW s \in Slot, ReleasedSlot(s)
  PROVE  SlotsOK
<1>1. CASE pointer_states[s].state = "Owned"
  BY <1>1, MarkedValue, SetSlotOK DEF ReleasedSlot
<1>2. CASE pointer_states[s].state # "Owned"
  BY <1>2 DEF ReleasedSlot, SolverTypeOK, SlotsOK
<1> QED BY <1>1, <1>2

(* The types of the rest, for an edge of either pass.                      *)
LEMMA EdgeTypes ==
  ASSUME SolverTypeOK, NEW p \in {"acquires", "effects"}, Edge(p), Grows, SlotsOK,
         drops' \subseteq Id, chain' \in [Id -> SUBSET Id],
         escaped' \subseteq Id, reclaimed' \subseteq Id,
         escape_targets' \in [Id -> Id \cup {NoId}],
         reclaim_sources' \in [Id -> Id \cup {NoId}]
  PROVE  SolverTypeOK'
BY MaxEdgesAssumption DEF SolverTypeOK, Edge, Grows, SlotsOK

LEMMA PlainEdgeTypes ==
  ASSUME SolverTypeOK, NEW p \in {"acquires", "effects"}, Edge(p), Grows, SlotsOK,
         drops' \subseteq Id, UNCHANGED detector
  PROVE  SolverTypeOK'
<1>1. /\ chain' \in [Id -> SUBSET Id] /\ escaped' \subseteq Id /\ reclaimed' \subseteq Id
      /\ escape_targets' \in [Id -> Id \cup {NoId}]
      /\ reclaim_sources' \in [Id -> Id \cup {NoId}]
  BY DEF SolverTypeOK, detector
<1> QED BY <1>1, EdgeTypes

-----------------------------------------------------------------------------
(* One lemma for each kind of edge. *)

LEMMA AcquireInv ==
  ASSUME SolverInv, NEW f \in Caller, NEW x \in Id, Acquire(f, x)
  PROVE  SolverInv'
<1> USE DEF Acquire
<1>1. instances \in Seq(Instance) /\ "Acquired" \in State
  BY DEF SolverInv, SolverTypeOK, State
<1>2. Grows /\ AddsOnly(x)
  BY <1>1, AddGrows DEF SolverInv
<1>3. ResultSlot(f, x) \in Slot
  BY DEF ResultSlot, Slot
<1>4. SlotsOK
  BY <1>3, LiveValue, SetSlotOK DEF SolverInv
<1>5. SolverTypeOK'
  BY <1>2, <1>4, PlainEdgeTypes DEF SolverInv, SolverTypeOK
<1> QED BY <1>2, <1>5, PlainEdge

(* An event for the source, and a slot at most.                            *)
LEMMA EventInv ==
  ASSUME SolverInv, Edge("effects"), NEW x \in Id, NEW e \in Event, Apply(x, e),
         SlotsOK, drops' \subseteq Id, UNCHANGED <<instance_map, detector>>
  PROVE  SolverInv'
<1>1. Grows /\ AddsOnly(x)
  BY ApplyGrows DEF SolverInv
<1>2. SolverTypeOK'
  BY <1>1, PlainEdgeTypes DEF SolverInv
<1> QED BY <1>1, <1>2, PlainEdge

(* No event.                                                               *)
LEMMA SlotOnlyInv ==
  ASSUME SolverInv, Edge("effects"), SlotsOK,
         UNCHANGED <<instances, instance_map, detector, drops>>
  PROVE  SolverInv'
<1>1. Grows /\ AddsOnly(NoId)
  BY SameGrows DEF SolverInv
<1>2. SolverTypeOK'
  BY <1>1, PlainEdgeTypes DEF SolverInv, SolverTypeOK
<1> QED BY <1>1, <1>2, PlainEdge

(* A new instance for x, if it has none.                                   *)
LEMMA AddInv ==
  ASSUME SolverInv, Edge("effects"), SlotsOK, NEW x \in Id, NEW s \in State,
         AddIfVacant(instances, x, s), UNCHANGED <<detector, drops>>
  PROVE  SolverInv'
<1>1. instances \in Seq(Instance)
  BY DEF SolverInv, SolverTypeOK
<1>2. Grows /\ AddsOnly(x)
  BY <1>1, AddGrows DEF SolverInv
<1>3. SolverTypeOK'
  BY <1>2, PlainEdgeTypes DEF SolverInv, SolverTypeOK
<1> QED BY <1>2, <1>3, PlainEdge

LEMMA UnchangedSlots ==
  ASSUME SolverInv, UNCHANGED pointer_states
  PROVE  SlotsOK
BY DEF SolverInv, SolverTypeOK, SlotsOK

LEMMA ReleaseInv ==
  ASSUME SolverInv, NEW f \in Caller, NEW x \in Id, NEW a \in Arg, NEW d \in BOOLEAN,
         Release(f, x, a, d)
  PROVE  SolverInv'
<1> USE DEF Release
<1>1. ArgSlot(f, a) \in Slot
  BY SlotNames
<1>2. SlotsOK
  BY <1>1, ReleasedSlotOK DEF SolverInv
<1>3. drops' \subseteq Id
  BY DEF SolverInv, SolverTypeOK
<1>4. "Release" \in Event
  BY DEF Event
<1> QED BY <1>2, <1>3, <1>4, EventInv

LEMMA NullGuardedReleaseInv ==
  ASSUME SolverInv, NEW f \in Caller, NEW x \in Id, NEW a \in Arg,
         NullGuardedRelease(f, x, a)
  PROVE  SolverInv'
<1> USE DEF NullGuardedRelease
<1>1. ArgSlot(f, a) \in Slot
  BY SlotNames
<1>2. SlotsOK
  BY <1>1, ReleasedSlotOK DEF SolverInv
<1>3. drops' \subseteq Id
  BY DEF SolverInv, SolverTypeOK
<1>4. "ConditionalRelease" \in Event
  BY DEF Event
<1>5. CASE UNCHANGED instances
  BY <1>2, <1>5, SlotOnlyInv
<1>6. CASE Apply(x, "ConditionalRelease")
  BY <1>2, <1>3, <1>4, <1>6, EventInv
<1> QED BY <1>5, <1>6

LEMMA ReturnsOwnedInv ==
  ASSUME SolverInv, NEW f \in Caller, NEW x \in Id, ReturnsOwned(f, x)
  PROVE  SolverInv'
<1> USE DEF ReturnsOwned
<1> DEFINE s == ResultSlot(f, x)
<1>1. s \in Slot
  BY DEF ResultSlot, Slot
<1>2. SlotsOK
  <2>1. CASE pointer_states[s].state = "Owned"
    <3>1. [pointer_states[s] EXCEPT !.state = "Escaped"] \in PointerValueState
      BY <1>1, <2>1, MarkedValue DEF SolverInv
    <3> QED BY <1>1, <2>1, <3>1, SetSlotOK DEF SolverInv
  <2>2. CASE pointer_states[s].state # "Owned"
    BY <2>2, UnchangedSlots
  <2> QED BY <2>1, <2>2
<1>3. drops' \subseteq Id /\ "Escape" \in Event
  BY DEF SolverInv, SolverTypeOK, Event
<1> QED BY <1>2, <1>3, EventInv

LEMMA EscapesToCallbackInv ==
  ASSUME SolverInv, NEW x \in Id, EscapesToCallback(x)
  PROVE  SolverInv'
<1> USE DEF EscapesToCallback
<1>1. SlotsOK
  BY UnchangedSlots
<1>2. drops' \subseteq Id /\ "Escape" \in Event /\ "Borrowed" \in State
  BY DEF SolverInv, SolverTypeOK, Event, State
<1>3. CASE Known(x)
  BY <1>1, <1>2, <1>3, EventInv
<1>4. CASE ~Known(x)
  BY <1>1, <1>2, <1>4, AddInv
<1> QED BY <1>3, <1>4

LEMMA OutParamInv ==
  ASSUME SolverInv, NEW f \in Caller, NEW x \in Id, NEW a \in Arg,
         OutParamOwnedOnSuccess(f, x, a) \/ OutParamNullOnError(f, x, a)
  PROVE  SolverInv'
<1>1. ArgSlot(f, a) \in Slot /\ Null \in PointerValueState /\ Value("Owned", x) \in PointerValueState
  BY SlotNames, LiveValue DEF PointerValueState
<1>2. drops' \subseteq Id /\ SlotsOK /\ "ConditionalRelease" \in Event /\ "Acquired" \in State
  BY <1>1, SetSlotOK DEF SolverInv, SolverTypeOK, Event, State,
     OutParamOwnedOnSuccess, OutParamNullOnError
<1>3. CASE OutParamOwnedOnSuccess(f, x, a)
  BY <1>2, <1>3, AddInv DEF OutParamOwnedOnSuccess
<1>4. CASE OutParamNullOnError(f, x, a)
  BY <1>2, <1>4, EventInv DEF OutParamNullOnError
<1> QED BY <1>3, <1>4

LEMMA NullStoreInv ==
  ASSUME SolverInv, NEW f \in Caller, NEW a \in Arg, NullStoreAfterRelease(f, a)
  PROVE  SolverInv'
<1> USE DEF NullStoreAfterRelease
<1>1. ArgSlot(f, a) \in Slot /\ Null \in PointerValueState
  BY DEF ArgSlot, Slot, PointerValueState
<1>2. SlotsOK
  BY <1>1, SetSlotOK DEF SolverInv
<1> QED BY <1>2, SlotOnlyInv

(* into_raw: the result becomes another name of the source's instance.     *)
LEMMA OwnershipEscapeInv ==
  ASSUME SolverInv, NEW f \in Caller, NEW x \in Id, NEW y \in Id, OwnershipEscape(f, x, y)
  PROVE  SolverInv'
<1> USE DEF OwnershipEscape
<1>1. SlotsOK
  <2>1. RawSlot(f, y) \in Slot
    BY DEF RawSlot, Slot
  <2> QED BY <2>1, LiveValue, SetSlotOK DEF SolverInv
<1>2. "Escape" \in Event /\ drops' \subseteq Id
  BY DEF Event, SolverInv, SolverTypeOK
<1>3. CASE ~Known(x)
  BY <1>1, <1>2, <1>3, EventInv
<1>4. CASE Known(x)
  <2>1. record_escape(x, y)
    BY <1>4
  <2>2. /\ ChainGrows /\ Together(chain', x, y)
        /\ UNCHANGED <<reclaimed, reclaim_sources>>
        /\ escaped' \subseteq Id /\ escape_targets' \in [Id -> Id \cup {NoId}]
    BY <2>1, EscapeUnites DEF SolverInv, record_escape, SolverTypeOK
  <2>3. /\ instances' \in Seq(Instance) /\ Len(instances') = Len(instances)
        /\ \A i \in 1 .. Len(instances) :
             /\ instances'[i].id = instances[i].id
             /\ instances[i].state \in Ended => instances'[i].state \in Ended
    BY <1>2, ApplyGrows DEF SolverInv
  <2>4. instance_map \in [Id -> 0 .. Len(instances)] /\ Len(instances) \in Nat
    BY DEF SolverInv, SolverTypeOK
  <2>5. instance_map' \in [Id -> 0 .. Len(instances)]
    BY <1>4, <2>4
  <2>6. \A z \in Id : instance_map'[z] =
          IF z = y /\ ~Known(y) THEN instance_map[x] ELSE instance_map[z]
    BY <1>4, <2>4
  <2>7. Grows
    BY <2>3, <2>4, <2>5, <2>6 DEF Grows, Known
  <2>8. SolverTypeOK'
    BY <1>1, <1>2, <2>2, <2>7, EdgeTypes DEF SolverInv, SolverTypeOK, ChainGrows, Disjoint
  <2>9. AliasesTogether'
    <3> SUFFICES ASSUME NEW u \in Id, NEW v \in Id, u # v, Known(u)',
                        instance_map'[u] = instance_map'[v]
                 PROVE  Together(chain', u, v)
      BY DEF AliasesTogether
    <3>1. ASSUME NEW w \in Id, Known(w), instance_map[w] = instance_map[x]
          PROVE  Together(chain', w, x) \/ w = x
      BY <3>1, <2>2 DEF SolverInv, AliasesShareChain, AliasesTogether, ChainGrows
    <3>2. CASE u = y /\ ~Known(y)
      BY <3>1, <3>2, <1>4, <2>2, <2>6 DEF Together, Known
    <3>3. CASE v = y /\ ~Known(y)
      BY <3>1, <3>3, <1>4, <2>2, <2>6 DEF Together, Known
    <3>4. CASE Known(y) \/ (u # y /\ v # y)
      BY <3>4, <2>2, <2>6 DEF SolverInv, AliasesShareChain, AliasesTogether, ChainGrows, Known
    <3> QED BY <3>2, <3>3, <3>4
  <2>10. ASSUME NEW z \in Id, Own(z)'
         PROVE  Known(z)
    <3>1. CASE z = y /\ ~Known(y)
      <4>1. instance_map[x] \in 1 .. Len(instances) /\ instances[instance_map[x]].id = y
        BY <1>4, <2>3, <2>4, <2>6, <2>10, <3>1 DEF Own, Known
      <4>2. instance_map[y] = instance_map[x]
        BY <4>1 DEF SolverInv, FoundByOwnId
      <4> QED BY <4>2, <3>1, <1>4 DEF Known
    <3>2. CASE z # y \/ Known(y)
      BY <3>2, <2>6, <2>10 DEF Own, Known
    <3> QED BY <3>1, <3>2
  <2>11. ReclaimInv' /\ ReclaimEndsOwnership'
    BY <2>2, <2>7, <2>10, ReclaimsKept
  <2>12. FoundByOwnId'
    BY <2>7, IdsKept DEF SolverInv
  <2>13. MovesTogether'
    BY <2>1, <2>2, MovesKept DEF SolverInv, AliasesShareChain
  <2> QED BY <2>2, <2>8, <2>9, <2>11, <2>12, <2>13 DEF SolverInv, ChainGrows, AliasesShareChain
<1> QED BY <1>3, <1>4

(* from_raw: the source's instance ends, and x has or gets another.        *)
LEMMA OwnershipReclaimInv ==
  ASSUME SolverInv, NEW s \in Id, NEW x \in Id, OwnershipReclaim(s, x)
  PROVE  SolverInv'
<1> USE DEF OwnershipReclaim
<1> DEFINE told == Told(s, "Release")
<1>1. "Release" \in Event /\ "Acquired" \in State /\ SolverTypeOK
  BY DEF Event, State, SolverInv
<1>2. /\ told \in Seq(Instance) /\ Len(told) = Len(instances)
      /\ \A i \in 1 .. Len(instances) :
           /\ told[i].id = instances[i].id
           /\ instances[i].state \in Ended => told[i].state \in Ended
      /\ Known(s) => told[instance_map[s]].state = After(instances[instance_map[s]].state, "Release")
  BY <1>1, ToldKeepsIds
<1> HIDE DEF told
<1>3. AddIfVacant(told, x, "Acquired")
  BY DEF told
<1>4. /\ Grows /\ AddsOnly(x) /\ Known(x)'
      /\ \A i \in 1 .. Len(instances) : instances'[i] = told[i]
  BY <1>1, <1>2, <1>3, AddGrows
<1>5. /\ ChainGrows /\ Together(chain', x, s) /\ UNCHANGED <<escaped, escape_targets>>
      /\ reclaimed' = reclaimed \cup {x}
      /\ reclaim_sources' = [reclaim_sources EXCEPT ![x] = s]
  BY ReclaimUnites DEF SolverInv, record_reclaim, Together
<1>6. reclaim_sources \in [Id -> Id \cup {NoId}] /\ reclaimed \subseteq Id
  BY <1>1 DEF SolverTypeOK
<1>7. SolverTypeOK'
  <2>1. SlotsOK
    BY UnchangedSlots
  <2> QED BY <1>1, <1>4, <1>5, <1>6, <2>1, EdgeTypes DEF SolverTypeOK, ChainGrows, Disjoint
<1>8. FoundByOwnId' /\ AliasesShareChain'
  <2>1. AliasesTogether'
    BY <1>1, <1>4, <1>5, AliasesKept DEF SolverInv, AliasesShareChain
  <2>2. MovesTogether'
    BY <1>1, <1>5, MovesKept DEF SolverInv, AliasesShareChain
  <2> QED BY <1>1, <1>4, <2>1, <2>2, IdsKept DEF SolverInv, AliasesShareChain
<1>9. ReclaimInv'
  BY <1>4, <1>5, <1>6 DEF SolverInv, ReclaimInv, Grows, Known
<1>10. Known(s) => instances'[instance_map[s]].state \in Ended /\ instance_map'[s] = instance_map[s]
  <2> SUFFICES ASSUME Known(s)
               PROVE  instances'[instance_map[s]].state \in Ended
    BY <1>4 DEF Grows
  <2>1. instance_map[s] \in 1 .. Len(instances)
    BY <1>1 DEF SolverTypeOK, Known
  <2>2. instances[instance_map[s]] \in Instance
    BY <1>1, <2>1 DEF SolverTypeOK
  <2>3. instances[instance_map[s]].state \in State
    BY <2>2 DEF Instance
  <2> QED BY <1>1, <1>2, <1>4, <2>1, <2>3, AfterIsState
<1>11. ASSUME NEW z \in reclaimed', NEW t \in Id, t = reclaim_sources'[z],
              Own(z)', Own(t)', instance_map'[t] < instance_map'[z]
       PROVE  instances'[instance_map'[t]].state \in Ended
  <2>1. z \in Id /\ t # z
    BY <1>5, <1>6, <1>7, <1>11 DEF SolverTypeOK
  <2>2. CASE z = x
    <3>1. t = s
      BY <1>5, <1>6, <1>11, <2>1, <2>2
    <3>2. Known(s)
      BY <1>4, <1>11, <2>1, <2>2, <3>1 DEF AddsOnly, Own
    <3> QED BY <1>10, <3>1, <3>2
  <2>3. CASE z # x
    <3>1. z \in reclaimed /\ t = reclaim_sources[z]
      BY <1>5, <1>6, <1>11, <2>1, <2>3
    <3>2. Known(t) \/ Fresh(t)
      BY <1>4, <1>11 DEF AddsOnly, Own
    <3> QED BY <1>4, <1>11, <3>1, <3>2, EndsKept
  <2> QED BY <2>2, <2>3
<1>12. ReclaimEndsOwnership'
  BY <1>9, <1>11 DEF ReclaimEndsOwnership, ReclaimInv, Ended
<1> QED BY <1>5, <1>7, <1>8, <1>9, <1>12 DEF SolverInv, ChainGrows

-----------------------------------------------------------------------------
LEMMA NoEdgeInv ==
  ASSUME SolverInv, pc' \in {"acquires", "effects", "stored"},
         UNCHANGED <<edges, instances, instance_map, pointer_states, detector, drops>>
  PROVE  SolverInv'
BY DEF SolverInv, SolverTypeOK, FoundByOwnId, ReclaimInv, AliasesShareChain, AliasesTogether,
       MovesTogether, ReclaimEndsOwnership, Own, Known, detector, Instance, PointerValueState

LEMMA SolverInit == Init => SolverInv
<1> SUFFICES ASSUME Init PROVE SolverInv
  OBVIOUS
<1> USE DEF Init
<1>1. instances = <<>> /\ Len(instances) = 0 /\ instances \in Seq(Instance)
  OBVIOUS
<1>2. None \in PointerValueState
  BY DEF PointerValueState
<1>3. SolverTypeOK
  BY <1>1, <1>2, MaxEdgesAssumption DEF SolverTypeOK
<1>4. Disjoint(chain) /\ FoundByOwnId /\ ReclaimInv
  BY <1>1 DEF Disjoint, FoundByOwnId, ReclaimInv
<1>5. AliasesShareChain /\ ReclaimEndsOwnership
  BY DEF AliasesShareChain, AliasesTogether, MovesTogether, ReclaimEndsOwnership, Known
<1> QED BY <1>3, <1>4, <1>5 DEF SolverInv

LEMMA SolverStep == SolverInv /\ [Next]_vars => SolverInv'
<1> SUFFICES ASSUME SolverInv, [Next]_vars PROVE SolverInv'
  OBVIOUS
<1>1. ASSUME NEW f \in Caller, NEW x \in Id, Acquire(f, x)
      PROVE  SolverInv'
  BY <1>1, AcquireInv
<1>2. CASE AcquiresEnd \/ Store \/ UNCHANGED vars
  <2>1. pc' \in {"acquires", "effects", "stored"}
    BY <1>2 DEF AcquiresEnd, Store, vars, SolverInv, SolverTypeOK
  <2> QED BY <1>2, <2>1, NoEdgeInv DEF AcquiresEnd, Store, vars
<1>3. CASE Effect
  <2>1. ASSUME NEW x \in Id, NEW e \in EffectEvent, PlainEffect(x, e)
        PROVE  SolverInv'
    <3>1. e \in Event /\ SlotsOK /\ drops' \subseteq Id
      BY <2>1, UnchangedSlots DEF EffectEvent, Event, PlainEffect, SolverInv, SolverTypeOK
    <3> QED BY <2>1, <3>1, EventInv DEF PlainEffect
  <2> QED BY <1>3, <2>1, OwnershipReclaimInv, EscapesToCallbackInv, ReturnsOwnedInv,
             OwnershipEscapeInv, ReleaseInv, NullGuardedReleaseInv, OutParamInv,
             NullStoreInv DEF Effect
<1> QED BY <1>1, <1>2, <1>3 DEF Next

(* Every value of the solver's variables is of its Rust type.              *)
THEOREM SolverIsTyped == Spec => []SolverTypeOK
<1>1. SolverInv => SolverTypeOK
  BY DEF SolverInv
<1> QED BY <1>1, SolverInit, SolverStep, PTL DEF Spec

(* The map and the detector agree on aliases, and the detector has the two *)
(* ends of every move in one chain, whatever the graph.                    *)
THEOREM AliasesAlwaysShareChain == Spec => []AliasesShareChain
<1>1. SolverInv => AliasesShareChain
  BY DEF SolverInv
<1> QED BY <1>1, SolverInit, SolverStep, PTL DEF Spec

(* What was reclaimed as a later instance is ended for good, whatever      *)
(* edges follow.                                                           *)
THEOREM ReclaimAlwaysEnds == Spec => []ReclaimEndsOwnership
<1>1. SolverInv => ReclaimEndsOwnership
  BY DEF SolverInv
<1> QED BY <1>1, SolverInit, SolverStep, PTL DEF Spec
=============================================================================
