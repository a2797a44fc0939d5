-------------------------- MODULE PassManagerProofs --------------------------
(***************************************************************************)
(* Proofs about ordering the passes and about running them.  The order is  *)
(* proved for every set of names, every set of declarations and every      *)
(* number of registrations; runs, in either mode and through a cache, for  *)
(* every set of passes, whatever they read, store and report, for clients  *)
(* that register each name once (which register_default_passes does).      *)
(* What the cache serves is proved for every client.                       *)
(***************************************************************************)
EXTENDS PassManager, SequenceTheorems, TLAPS

-----------------------------------------------------------------------------
(* The order. *)

IInv == TypeOK /\ SearchInv

(* A pass depends on names only; a name nobody registered on none.         *)
LEMMA DepsAreNames ==
  ASSUME TypeOK
  PROVE  /\ \A n : Deps(n) \subseteq Name
         /\ \A n : n \notin Registered => Deps(n) = {}
         /\ Registered \subseteq Name
<1>1. \A i \in DOMAIN passes : passes[i] \in [name : Name, deps : SUBSET Name]
  BY DeclAssumption DEF TypeOK
<1>2. QED
  BY <1>1 DEF Deps, LastOf, Registered

(* What depends on `passes` alone stays as it is while `passes` does.      *)
LEMMA SamePasses ==
  ASSUME passes' = passes
  PROVE  /\ \A n : Deps(n)' = Deps(n)
         /\ \A n : LastOf(n)' = LastOf(n)
         /\ \A S : Cyclic(S)' = Cyclic(S)
         /\ Registered' = Registered
<1>1. \A n : LastOf(n)' = LastOf(n)
  BY DEF LastOf, IsLast
<1>2. \A n : Deps(n)' = Deps(n)
  BY <1>1 DEF Deps
<1>3. QED
  BY <1>1, <1>2 DEF Cyclic, Registered

(* Outside compute_order the parts of the invariant about its locals hold. *)
LEMMA IdleInv ==
  ASSUME Idle
  PROVE  StackInv /\ VisitedInv /\ OrderInv
<1>1. DOMAIN stack = {} /\ DOMAIN order = {}
  BY DEF Idle
<1>2. StackInv
  BY <1>1 DEF Idle, StackInv
<1>3. VisitedInv
  BY DEF Idle, VisitedInv, Cyclic
<1>4. OrderInv
  BY <1>1 DEF Idle, OrderInv
<1>5. QED
  BY <1>2, <1>3, <1>4

THEOREM InitInv == Init => IInv
<1> SUFFICES ASSUME Init PROVE IInv
  OBVIOUS
<1>1. TypeOK
  <2>1. passes \in Seq(Decl) /\ Len(passes) = 0
    BY DEF Init, ScheduleInit
  <2>2. executionOrder \in Seq(Nat) /\ status = "stale"
    BY DEF Init, ScheduleInit
  <2>3. /\ searching \in BOOLEAN /\ next = 1 /\ temp = {} /\ visited = {}
    BY DEF Init, Idle
  <2>5. stack \in Seq(Frame) /\ order \in Seq(Name)
    BY DEF Init, Idle
  <2>4. QED
    BY <2>1, <2>2, <2>3, <2>5 DEF TypeOK
<1>2. Idle
  BY DEF Init
<1>3. LoopInv
  BY <1>2 DEF Init, ScheduleInit, LoopInv
<1>4. QED
  BY <1>1, <1>2, <1>3, IdleInv DEF IInv, SearchInv

-----------------------------------------------------------------------------
(* The client's calls. *)

LEMMA RegisterInv ==
  ASSUME IInv, NEW d \in Decl, DoRegister(d)
  PROVE  IInv'
<1> USE DEF DoRegister, Register, searchVars
<1>1. Idle /\ Idle'
  BY DEF IInv, SearchInv, LoopInv, Idle
<1>2. TypeOK'
  BY <1>1 DEF IInv, TypeOK, Idle
<1>3. LoopInv'
  <2>1. ASSUME NEW i \in DOMAIN passes'
        PROVE  (LastOf(passes[i].name) # {})'
    <3> DEFINE k == Len(passes) + 1
    <3>1. /\ DOMAIN passes' = 1 .. k /\ passes'[k] = d
          /\ \A j \in 1 .. (k - 1) : passes'[j] = passes[j]
          /\ DOMAIN passes = 1 .. (k - 1) /\ k \in Nat
      BY DEF IInv, TypeOK
    <3>2. CASE passes'[i].name = d.name
      <4>1. k \in LastOf(passes[i].name)'
        BY <3>1, <3>2 DEF LastOf, IsLast
      <4>2. QED
        BY <4>1
    <3>3. CASE passes'[i].name # d.name
      <4>1. i \in 1 .. (k - 1)
        BY <3>1, <3>3
      <4>2. PICK j \in DOMAIN passes : j \in LastOf(passes[i].name)
        BY <4>1, <3>1 DEF IInv, SearchInv, LoopInv, LastOf
      <4>3. j \in LastOf(passes[i].name)'
        BY <3>1, <3>3, <4>1, <4>2 DEF LastOf, IsLast
      <4>4. QED
        BY <4>3
    <3>4. QED
      BY <3>2, <3>3
  <2>2. \A i \in DOMAIN passes' : ~(i < next')
    BY <1>1 DEF Idle, IInv, TypeOK
  <2>3. QED
    BY <1>1, <2>1, <2>2 DEF LoopInv
<1>4. (StackInv /\ VisitedInv /\ OrderInv)'
  BY <1>1, IdleInv, PTL
<1>5. QED
  BY <1>2, <1>3, <1>4 DEF IInv, SearchInv

LEMMA ClearInv ==
  ASSUME IInv, DoClear
  PROVE  IInv'
<1> USE DEF DoClear, Clear, searchVars
<1>1. Idle /\ Idle'
  BY DEF IInv, SearchInv, LoopInv, Idle
<1>2. passes' = <<>> /\ executionOrder' = <<>> /\ DOMAIN passes' = {}
  OBVIOUS
<1>3. TypeOK'
  BY <1>1, <1>2 DEF IInv, TypeOK, Idle
<1>4. LoopInv'
  BY <1>1, <1>2 DEF LoopInv
<1>5. (StackInv /\ VisitedInv /\ OrderInv)'
  BY <1>1, IdleInv, PTL
<1>6. QED
  BY <1>3, <1>4, <1>5 DEF IInv, SearchInv

LEMMA ComputeOrderInv ==
  ASSUME IInv, ComputeOrder
  PROVE  IInv'
<1> USE DEF ComputeOrder
<1>1. Idle
  BY DEF IInv, SearchInv, LoopInv
<1>2. passes' = passes
  OBVIOUS
<1>3. TypeOK'
  BY DEF IInv, TypeOK
<1>4. StackInv' /\ VisitedInv' /\ OrderInv'
  BY <1>2, SamePasses DEF IInv, SearchInv, StackInv, VisitedInv, OrderInv, Calls
<1>5. LoopInv'
  BY <1>2, SamePasses DEF IInv, SearchInv, LoopInv
<1>6. QED
  BY <1>3, <1>4, <1>5 DEF IInv, SearchInv

-----------------------------------------------------------------------------
(* The steps of the search. *)

(* Leaving compute_order, with an order or with an error. *)
LEMMA LeaveInv ==
  ASSUME IInv, Leave, passes' = passes,
         executionOrder' \in Seq(Nat), status' \in {"ok", "cycle"}
  PROVE  IInv'
<1>1. Idle'
  BY DEF Leave, Idle
<1>2. TypeOK'
  <2>1. stack' \in Seq(Frame) /\ order' \in Seq(Name) /\ next' \in 1 .. (Len(passes) + 1)
    BY <1>1 DEF IInv, TypeOK, Idle
  <2>2. QED
    BY <1>1, <2>1 DEF IInv, TypeOK, Idle
<1>3. LoopInv'
  BY <1>1, SamePasses DEF LoopInv, Idle, IInv, TypeOK, SearchInv
<1>4. (StackInv /\ VisitedInv /\ OrderInv)'
  BY <1>1, IdleInv, PTL
<1>5. QED
  BY <1>2, <1>3, <1>4 DEF IInv, SearchInv

(***************************************************************************)
(* A new frame for n on top of k frames, taken from the todo of the frame  *)
(* below it, if there is one.                                              *)
(***************************************************************************)
LEMMA PushStackInv ==
  ASSUME StackInv, passes' = passes, visited' = visited,
         NEW n, n \notin temp, temp' = temp \cup {n},
         NEW k \in Nat,
         DOMAIN stack = 1 .. k, DOMAIN stack' = 1 .. (k + 1),
         \A i \in 1 .. k :
           /\ stack'[i].node = stack[i].node
           /\ stack'[i].todo = IF i = k THEN stack[i].todo \ {n} ELSE stack[i].todo,
         stack'[k + 1].node = n, stack'[k + 1].todo = Deps(n),
         k # 0 => n \in Deps(stack[k].node)
  PROVE  StackInv'
<1>1. \A m : Deps(m)' = Deps(m)
  BY SamePasses
<1>2. temp = {stack[i].node : i \in 1 .. k}
  BY DEF StackInv
<1>3. \A m \in 1 .. k : stack'[m].node # n
  BY <1>2
<1>4. /\ \A i \in 1 .. (k + 1) : i \in 1 .. k \/ i = k + 1
      /\ \A i \in 1 .. k : i \in DOMAIN stack' /\ stack'[i].node = stack[i].node
      /\ k + 1 \in DOMAIN stack'
  <2>1. \A i \in 1 .. k : i \in 1 .. (k + 1)
    OBVIOUS
  <2>2. k + 1 \in 1 .. (k + 1)
    OBVIOUS
  <2>3. \A i \in 1 .. (k + 1) : i \in 1 .. k \/ i = k + 1
    OBVIOUS
  <2>4. QED
    BY <2>1, <2>2, <2>3
<1>5. temp' = {stack'[i].node : i \in DOMAIN stack'}
  <2>1. \A i \in DOMAIN stack' : stack'[i].node \in temp'
    BY <1>2, <1>4
  <2>2. \A m \in temp' : \E i \in DOMAIN stack' : stack'[i].node = m
    BY <1>2, <1>4
  <2>3. QED
    BY <2>1, <2>2
<1>6. ASSUME NEW i \in DOMAIN stack', NEW j \in DOMAIN stack',
             stack'[i].node = stack'[j].node
      PROVE  i = j
  BY <1>3, <1>4, <1>6 DEF StackInv
<1>7. \A i \in DOMAIN stack' : stack'[i].todo \subseteq Deps(stack'[i].node)
  BY <1>4 DEF StackInv
<1>8. ASSUME NEW i \in DOMAIN stack', NEW d \in Name, Calls(i, d)'
      PROVE  d \in Deps(stack'[i].node)
  <2>1. PICK j \in DOMAIN stack' : j = i + 1 /\ stack'[j].node = d
    BY <1>8 DEF Calls
  <2>2. i \in 1 .. k
    BY <2>1
  <2>3. CASE i = k
    <3>1. d = n /\ n \in Deps(stack[i].node)
      BY <2>1, <2>2, <2>3
    <3>2. QED
      BY <1>4, <2>2, <3>1
  <2>4. CASE i # k
    <3>1. j \in 1 .. k
      BY <2>1, <2>2, <2>4
    <3>2. Calls(i, d)
      BY <2>1, <3>1 DEF Calls
    <3>3. QED
      BY <2>2, <3>2 DEF StackInv
  <2>5. QED
    BY <2>3, <2>4
<1>9. ASSUME NEW i \in DOMAIN stack', NEW d \in Deps(stack'[i].node)
      PROVE  d \in visited' \cup stack'[i].todo \/ Calls(i, d)'
  <2>1. CASE i = k + 1
    BY <2>1
  <2>2. CASE i \in 1 .. k
    <3>1. d \in visited \cup stack[i].todo \/ Calls(i, d)
      BY <1>9, <2>2 DEF StackInv
    <3>2. CASE d \in visited
      BY <3>2
    <3>3. CASE d \in stack[i].todo
      <4>1. CASE i = k /\ d = n
        <5>1. k + 1 \in DOMAIN stack' /\ k + 1 = i + 1 /\ stack'[k + 1].node = d
          BY <4>1
        <5>2. Calls(i, d)'
          BY <5>1 DEF Calls
        <5>3. QED
          BY <5>2
      <4>2. CASE ~(i = k /\ d = n)
        BY <2>2, <3>3, <4>2
      <4>3. QED
        BY <4>1, <4>2
    <3>4. CASE Calls(i, d)
      <4>1. PICK j \in 1 .. k : j = i + 1 /\ stack[j].node = d
        BY <3>4 DEF Calls
      <4>2. j \in DOMAIN stack' /\ stack'[j].node = d
        BY <1>4, <4>1
      <4>3. Calls(i, d)'
        BY <4>1, <4>2 DEF Calls
      <4>4. QED
        BY <4>3
    <3>5. QED
      BY <3>1, <3>2, <3>3, <3>4
  <2>3. QED
    BY <1>4, <2>1, <2>2
<1>10. QED
  BY <1>1, <1>5, <1>6, <1>7, <1>8, <1>9 DEF StackInv

(* What the stack holds below its top frame, and under a new top frame.    *)
LEMMA StackShape ==
  ASSUME stack \in Seq(Frame), stack # <<>>, NEW k, k = Len(stack)
  PROVE  /\ k \in Nat /\ k # 0 /\ DOMAIN stack = 1 .. k
         /\ Top = stack[k] /\ Top \in Frame
         /\ Below \in Seq(Frame) /\ DOMAIN Below = 1 .. (k - 1)
         /\ \A i \in 1 .. (k - 1) : Below[i] = stack[i]
         /\ \A f \in Frame :
              /\ Append(Below, f) \in Seq(Frame)
              /\ DOMAIN Append(Below, f) = 1 .. k
              /\ Append(Below, f)[k] = f
              /\ \A i \in 1 .. (k - 1) : Append(Below, f)[i] = stack[i]
<1>1. k \in Nat /\ k # 0 /\ DOMAIN stack = 1 .. k /\ k \in 1 .. k
  OBVIOUS
<1>2. Top = stack[k] /\ Top \in Frame
  BY <1>1 DEF Top
<1>3. /\ Below \in Seq(Frame) /\ Len(Below) = k - 1 /\ DOMAIN Below = 1 .. (k - 1)
      /\ \A i \in 1 .. (k - 1) : Below[i] = stack[i]
  BY <1>1 DEF Below
<1>4. ASSUME NEW f \in Frame
      PROVE  /\ Append(Below, f) \in Seq(Frame)
             /\ DOMAIN Append(Below, f) = 1 .. k
             /\ Append(Below, f)[k] = f
             /\ \A i \in 1 .. (k - 1) : Append(Below, f)[i] = stack[i]
  BY <1>1, <1>3
<1>5. QED
  BY <1>1, <1>2, <1>3, <1>4

(* The same frames, the top one with a visited dependency off its list.    *)
LEMMA ShrinkStackInv ==
  ASSUME StackInv, passes' = passes, visited' = visited, temp' = temp,
         NEW d, d \in visited,
         DOMAIN stack' = DOMAIN stack,
         \A i \in DOMAIN stack :
           /\ stack'[i].node = stack[i].node
           /\ stack'[i].todo = stack[i].todo \/ stack'[i].todo = stack[i].todo \ {d}
  PROVE  StackInv'
<1>1. \A m : Deps(m)' = Deps(m)
  BY SamePasses
<1>2. \A i, m : Calls(i, m)' = Calls(i, m)
  BY DEF Calls
<1>3. temp' = {stack'[i].node : i \in DOMAIN stack'}
  BY DEF StackInv
<1>4. \A i, j \in DOMAIN stack' : stack'[i].node = stack'[j].node => i = j
  BY DEF StackInv
<1>5. \A i \in DOMAIN stack' : stack'[i].todo \subseteq Deps(stack'[i].node)
  BY DEF StackInv
<1>6. \A i \in DOMAIN stack' : \A m \in Name :
        Calls(i, m)' => m \in Deps(stack'[i].node)
  BY <1>2 DEF StackInv
<1>7. \A i \in DOMAIN stack' : \A m \in Deps(stack'[i].node) :
        m \in visited' \cup stack'[i].todo \/ Calls(i, m)'
  BY <1>2 DEF StackInv
<1>8. QED
  BY <1>1, <1>3, <1>4, <1>5, <1>6, <1>7 DEF StackInv

(* One frame fewer: the call for a node with nothing left to visit returns. *)
LEMMA PopStackInv ==
  ASSUME StackInv, passes' = passes,
         NEW k \in Nat, k # 0,
         DOMAIN stack = 1 .. k, DOMAIN stack' = 1 .. (k - 1),
         \A i \in 1 .. (k - 1) : stack'[i] = stack[i],
         NEW n, n = stack[k].node, stack[k].todo = {},
         temp' = temp \ {n}, visited' = visited \cup {n}
  PROVE  StackInv' /\ Deps(n) \subseteq visited /\ n \in temp
<1>1. \A m : Deps(m)' = Deps(m)
  BY SamePasses
<1>2. k \in 1 .. k /\ \A i \in 1 .. (k - 1) : i \in 1 .. k /\ i # k
  OBVIOUS
<1>3. \A i \in 1 .. k : i = k \/ i \in 1 .. (k - 1)
  OBVIOUS
<1>4. temp' = {stack'[i].node : i \in DOMAIN stack'}
  <2>1. \A i \in DOMAIN stack' : stack'[i].node \in temp'
    BY <1>2 DEF StackInv
  <2>2. \A m \in temp' : \E i \in DOMAIN stack' : stack'[i].node = m
    BY <1>3 DEF StackInv
  <2>3. QED
    BY <2>1, <2>2
<1>5. \A i, j \in DOMAIN stack' : stack'[i].node = stack'[j].node => i = j
  BY <1>2 DEF StackInv
<1>6. \A i \in DOMAIN stack' : stack'[i].todo \subseteq Deps(stack'[i].node)
  BY <1>2 DEF StackInv
<1>7. ASSUME NEW i \in DOMAIN stack', NEW d \in Name, Calls(i, d)'
      PROVE  d \in Deps(stack'[i].node)
  <2>1. PICK j \in DOMAIN stack' : j = i + 1 /\ stack'[j].node = d
    BY <1>7 DEF Calls
  <2>2. Calls(i, d)
    BY <1>2, <2>1 DEF Calls
  <2>3. QED
    BY <1>2, <2>2 DEF StackInv
<1>8. ASSUME NEW i \in DOMAIN stack', NEW d \in Deps(stack'[i].node)
      PROVE  d \in visited' \cup stack'[i].todo \/ Calls(i, d)'
  <2>1. d \in visited \cup stack[i].todo \/ Calls(i, d)
    BY <1>2 DEF StackInv
  <2>2. CASE Calls(i, d)
    <3>1. PICK j \in DOMAIN stack : j = i + 1 /\ stack[j].node = d
      BY <2>2 DEF Calls
    <3>2. CASE j = k
      BY <3>1, <3>2
    <3>3. CASE j \in 1 .. (k - 1)
      <4>1. Calls(i, d)'
        BY <3>1, <3>3 DEF Calls
      <4>2. QED
        BY <4>1
    <3>4. QED
      BY <1>3, <3>2, <3>3
  <2>3. QED
    BY <2>1, <2>2
<1>9. Deps(n) \subseteq visited
  <2>1. \A d : ~Calls(k, d)
    BY DEF Calls
  <2>2. QED
    BY <1>2, <2>1 DEF StackInv
<1>10. n \in temp
  BY <1>2 DEF StackInv
<1>11. QED
  BY <1>1, <1>4, <1>5, <1>6, <1>7, <1>8, <1>9, <1>10 DEF StackInv

(* A node whose dependencies are all visited closes no cycle.              *)
LEMMA VisitedGrows ==
  ASSUME VisitedInv, passes' = passes,
         NEW n, n \notin visited, Deps(n) \subseteq visited,
         temp' = temp \ {n}, visited' = visited \cup {n}
  PROVE  VisitedInv'
<1>1. \A m : Deps(m)' = Deps(m)
  BY SamePasses
<1>2. \A S : Cyclic(S)' = Cyclic(S)
  BY SamePasses
<1>3. ASSUME NEW S \in SUBSET visited', Cyclic(S)
      PROVE  FALSE
  <2>1. CASE n \notin S
    BY <1>3, <2>1 DEF VisitedInv
  <2>2. CASE n \in S
    <3>1. \A m \in S \ {n} : Deps(m) \cap (S \ {n}) # {}
      BY <1>3 DEF VisitedInv, Cyclic
    <3>2. S \ {n} # {}
      BY <1>3, <2>2 DEF Cyclic
    <3>3. Cyclic(S \ {n})
      BY <3>1, <3>2 DEF Cyclic
    <3>4. S \ {n} \in SUBSET visited
      BY <1>3
    <3>5. QED
      BY <3>3, <3>4 DEF VisitedInv
  <2>3. QED
    BY <2>1, <2>2
<1>4. temp' \cap visited' = {}
  BY DEF VisitedInv
<1>5. \A m \in visited' : Deps(m) \subseteq visited'
  BY DEF VisitedInv
<1>6. QED
  BY <1>1, <1>2, <1>3, <1>4, <1>5 DEF VisitedInv

(* A visited name appended to `order` follows its dependencies there.      *)
LEMMA OrderGrows ==
  ASSUME OrderInv, order \in Seq(Name), passes' = passes,
         NEW n \in Name, n \notin visited, Deps(n) \subseteq visited,
         visited' = visited \cup {n},
         order' = IF n \in Registered THEN Append(order, n) ELSE order
  PROVE  OrderInv'
<1>1. /\ \A m : Deps(m)' = Deps(m)
      /\ Registered' = Registered
  BY SamePasses
<1>2. CASE n \notin Registered
  BY <1>1, <1>2 DEF OrderInv
<1>3. CASE n \in Registered
  <2> DEFINE k == Len(order) + 1
  <2>1. /\ k \in Nat /\ DOMAIN order = 1 .. (k - 1) /\ DOMAIN order' = 1 .. k
        /\ order'[k] = n /\ \A i \in 1 .. (k - 1) : order'[i] = order[i]
    BY <1>3
  <2> HIDE DEF k
  <2>2. \A i \in 1 .. k : i = k \/ i \in 1 .. (k - 1)
    BY <2>1
  <2>3. k \in 1 .. k /\ \A i \in 1 .. (k - 1) : i \in 1 .. k /\ i < k
    <3>1. k # 0 /\ k \in 1 .. k
      BY <2>1, LenProperties DEF k
    <3>2. QED
      BY <2>1, <3>1
  <2>4. {order'[i] : i \in DOMAIN order'} = visited' \cap Registered
    <3>1. \A i \in DOMAIN order' : order'[i] \in visited' \cap Registered
      BY <1>3, <2>1, <2>2 DEF OrderInv
    <3>2. \A m \in visited' \cap Registered : \E i \in DOMAIN order' : order'[i] = m
      BY <1>3, <2>1, <2>3 DEF OrderInv
    <3>3. QED
      BY <3>1, <3>2
  <2>5. \A i \in 1 .. (k - 1) : order[i] \in visited
    BY <2>1 DEF OrderInv
  <2>6. \A i, j \in DOMAIN order' : order'[i] = order'[j] => i = j
    BY <2>1, <2>2, <2>5 DEF OrderInv
  <2>7. ASSUME NEW i \in DOMAIN order', NEW d \in Deps(order'[i]) \cap Registered
        PROVE  \E j \in DOMAIN order' : j < i /\ order'[j] = d
    <3>1. CASE i = k
      <4>1. PICK j \in DOMAIN order : order[j] = d
        BY <2>1, <3>1 DEF OrderInv
      <4>2. QED
        BY <2>1, <2>3, <3>1, <4>1
    <3>2. CASE i \in 1 .. (k - 1)
      <4>1. PICK j \in DOMAIN order : j < i /\ order[j] = d
        BY <2>1, <3>2 DEF OrderInv
      <4>2. QED
        BY <2>1, <2>3, <4>1
    <3>3. QED
      BY <2>1, <2>2, <3>1, <3>2
  <2>8. QED
    BY <1>1, <2>4, <2>6, <2>7 DEF OrderInv
<1>4. QED
  BY <1>2, <1>3

-----------------------------------------------------------------------------
LEMMA VisitNextInv ==
  ASSUME IInv, VisitNext
  PROVE  IInv'
<1> DEFINE n == passes[next].name
<1>0. TypeOK /\ StackInv /\ VisitedInv /\ OrderInv /\ LoopInv
  BY DEF IInv, SearchInv
<1>1. /\ searching /\ stack = <<>> /\ DOMAIN stack = {} /\ next \in DOMAIN passes
      /\ Visit(n, stack, next + 1)
  BY <1>0 DEF VisitNext, TypeOK
<1>2. n \in Name /\ n \in Registered /\ Deps(n) \subseteq Name
  BY <1>0, <1>1, DepsAreNames DEF Registered
<1>3. next + 1 \in 1 .. (Len(passes) + 1)
  BY <1>0, <1>1 DEF TypeOK
<1>4. CASE n \in temp
  BY <1>0, <1>1, <1>4 DEF StackInv
<1>5. CASE n \notin temp /\ n \in visited
  <2>1. /\ stack' = stack /\ next' = next + 1
        /\ UNCHANGED <<passes, executionOrder, status, searching, temp, visited, order>>
    BY <1>1, <1>5 DEF Visit
  <2>2. TypeOK'
    BY <1>0, <1>3, <2>1 DEF TypeOK
  <2>3. StackInv' /\ VisitedInv' /\ OrderInv'
    BY <1>0, <2>1, SamePasses DEF StackInv, VisitedInv, OrderInv, Calls
  <2>4. LoopInv'
    BY <1>0, <1>1, <1>5, <2>1, SamePasses DEF LoopInv, TypeOK
  <2>5. QED
    BY <2>2, <2>3, <2>4 DEF IInv, SearchInv
<1>6. CASE n \notin temp /\ n \notin visited
  <2>1. /\ temp' = temp \cup {n} /\ next' = next + 1
        /\ stack' = Append(stack, [node |-> n, todo |-> Deps(n)])
        /\ UNCHANGED <<passes, executionOrder, status, searching, visited, order>>
    BY <1>1, <1>6 DEF Visit
  <2>2. /\ stack' \in Seq(Frame) /\ DOMAIN stack' = 1 .. (0 + 1)
        /\ stack'[0 + 1].node = n /\ stack'[0 + 1].todo = Deps(n)
    BY <1>0, <1>1, <1>2, <2>1 DEF TypeOK, Frame
  <2>3. TypeOK'
    BY <1>0, <1>2, <1>3, <2>1, <2>2 DEF TypeOK
  <2>4. DOMAIN stack = 1 .. 0
    BY <1>1
  <2>5. StackInv'
    BY <1>0, <1>6, <2>1, <2>2, <2>4, PushStackInv
  <2>6. VisitedInv' /\ OrderInv'
    BY <1>0, <1>6, <2>1, SamePasses DEF VisitedInv, OrderInv
  <2>7. LoopInv'
    BY <1>0, <1>1, <2>1, SamePasses DEF LoopInv, TypeOK
  <2>8. QED
    BY <2>3, <2>5, <2>6, <2>7 DEF IInv, SearchInv
<1>7. QED
  BY <1>4, <1>5, <1>6

LEMMA VisitDependencyInv ==
  ASSUME IInv, VisitDependency
  PROVE  IInv'
<1>0. TypeOK /\ StackInv /\ VisitedInv /\ OrderInv /\ LoopInv
  BY DEF IInv, SearchInv
<1> DEFINE k == Len(stack)
<1>1. PICK d \in Top.todo : Visit(d, Append(Below, [Top EXCEPT !.todo = @ \ {d}]), next)
  BY DEF VisitDependency
<1> DEFINE top == [Top EXCEPT !.todo = @ \ {d}]
<1> DEFINE below == Append(Below, top)
<1>2. searching /\ stack # <<>> /\ stack \in Seq(Frame)
  BY <1>0 DEF VisitDependency, TypeOK
<1>3. /\ k \in Nat /\ k # 0 /\ DOMAIN stack = 1 .. k /\ Top = stack[k] /\ Top \in Frame
  BY <1>2, StackShape
<1>4. /\ top \in Frame /\ top.node = stack[k].node
      /\ top.todo = stack[k].todo \ {d} /\ d \in Name
  BY <1>3 DEF Frame
<1>5. /\ below \in Seq(Frame) /\ DOMAIN below = 1 .. k /\ below[k] = top
      /\ \A i \in 1 .. (k - 1) : below[i] = stack[i]
  BY <1>2, <1>4, StackShape
<1> HIDE DEF k, top, below
<1>6. \A i \in 1 .. k : i = k \/ (i \in 1 .. (k - 1) /\ i # k)
  BY <1>3
<1>7. \A i \in 1 .. k :
        /\ below[i].node = stack[i].node
        /\ below[i].todo = IF i = k THEN stack[i].todo \ {d} ELSE stack[i].todo
  BY <1>4, <1>5, <1>6
<1>8. Visit(d, below, next)
  BY <1>1 DEF below, top
<1>9. d \in Deps(stack[k].node)
  BY <1>0, <1>3 DEF StackInv
<1>10. CASE d \in temp
  <2>1. status' = "cycle" /\ Leave /\ UNCHANGED <<passes, executionOrder>>
    BY <1>0, <1>8, <1>10 DEF Visit, VisitedInv
  <2>2. executionOrder' \in Seq(Nat)
    BY <1>0, <2>1 DEF TypeOK
  <2>3. QED
    BY <2>1, <2>2, LeaveInv
<1>11. CASE d \notin temp /\ d \in visited
  <2>1. /\ stack' = below /\ next' = next
        /\ UNCHANGED <<passes, executionOrder, status, searching, temp, visited, order>>
    BY <1>8, <1>11 DEF Visit
  <2>2. TypeOK'
    BY <1>0, <1>5, <2>1 DEF TypeOK
  <2>3. /\ DOMAIN stack' = DOMAIN stack
        /\ \A i \in DOMAIN stack :
             /\ stack'[i].node = stack[i].node
             /\ stack'[i].todo = stack[i].todo \/ stack'[i].todo = stack[i].todo \ {d}
    BY <1>3, <1>5, <1>7, <2>1
  <2>4. StackInv'
    BY <1>0, <1>11, <2>1, <2>3, ShrinkStackInv
  <2>5. VisitedInv' /\ OrderInv' /\ LoopInv'
    BY <1>0, <1>2, <2>1, SamePasses DEF VisitedInv, OrderInv, LoopInv
  <2>6. QED
    BY <2>2, <2>4, <2>5 DEF IInv, SearchInv
<1>12. CASE d \notin temp /\ d \notin visited
  <2>1. /\ temp' = temp \cup {d} /\ next' = next
        /\ stack' = Append(below, [node |-> d, todo |-> Deps(d)])
        /\ UNCHANGED <<passes, executionOrder, status, searching, visited, order>>
    BY <1>8, <1>12 DEF Visit
  <2>2. Len(below) = k
    BY <1>3, <1>5, LenProperties
  <2>3. [node |-> d, todo |-> Deps(d)] \in Frame
    BY <1>0, <1>4, DepsAreNames DEF Frame
  <2>4. /\ stack' \in Seq(Frame) /\ DOMAIN stack' = 1 .. (k + 1)
        /\ stack'[k + 1] = [node |-> d, todo |-> Deps(d)]
        /\ \A i \in 1 .. k : stack'[i] = below[i]
    BY <1>3, <1>5, <2>1, <2>2, <2>3
  <2>5. /\ stack'[k + 1].node = d /\ stack'[k + 1].todo = Deps(d)
        /\ \A i \in 1 .. k :
             /\ stack'[i].node = stack[i].node
             /\ stack'[i].todo = IF i = k THEN stack[i].todo \ {d} ELSE stack[i].todo
    <3>1. stack'[k + 1].node = d /\ stack'[k + 1].todo = Deps(d)
      BY <2>4
    <3>2. ASSUME NEW i \in 1 .. k
          PROVE  /\ stack'[i].node = stack[i].node
                 /\ stack'[i].todo = IF i = k THEN stack[i].todo \ {d} ELSE stack[i].todo
      <4>1. stack'[i] = below[i]
        BY <2>4
      <4>2. QED
        BY <1>7, <4>1
    <3>3. QED
      BY <3>1, <3>2
  <2>6. TypeOK'
    BY <1>0, <1>4, <2>1, <2>4 DEF TypeOK
  <2>7. StackInv'
    BY <1>0, <1>3, <1>9, <1>12, <2>1, <2>4, <2>5, PushStackInv
  <2>8. VisitedInv' /\ OrderInv' /\ LoopInv'
    BY <1>0, <1>2, <1>12, <2>1, SamePasses DEF VisitedInv, OrderInv, LoopInv
  <2>9. QED
    BY <2>6, <2>7, <2>8 DEF IInv, SearchInv
<1>13. QED
  BY <1>10, <1>11, <1>12

LEMMA FinishVisitInv ==
  ASSUME IInv, FinishVisit
  PROVE  IInv'
<1>0. TypeOK /\ StackInv /\ VisitedInv /\ OrderInv /\ LoopInv
  BY DEF IInv, SearchInv
<1> DEFINE k == Len(stack)
<1> DEFINE n == Top.node
<1>1. /\ searching /\ stack # <<>> /\ stack \in Seq(Frame) /\ Top.todo = {}
      /\ temp' = temp \ {n} /\ visited' = visited \cup {n}
      /\ order' = IF n \in Registered THEN Append(order, n) ELSE order
      /\ stack' = Below
      /\ UNCHANGED <<passes, executionOrder, status, searching, next>>
  BY <1>0 DEF FinishVisit, TypeOK
<1>2. /\ k \in Nat /\ k # 0 /\ DOMAIN stack = 1 .. k /\ Top = stack[k] /\ Top \in Frame
      /\ stack' \in Seq(Frame) /\ DOMAIN stack' = 1 .. (k - 1)
      /\ \A i \in 1 .. (k - 1) : stack'[i] = stack[i]
  BY <1>1, StackShape
<1>3. n = stack[k].node /\ stack[k].todo = {} /\ n \in Name
  BY <1>1, <1>2 DEF Frame
<1> HIDE DEF k, n
<1>4. StackInv' /\ Deps(n) \subseteq visited /\ n \in temp
  BY <1>0, <1>1, <1>2, <1>3, PopStackInv
<1>5. n \notin visited
  BY <1>0, <1>4 DEF VisitedInv
<1>6. VisitedInv'
  BY <1>0, <1>1, <1>4, <1>5, VisitedGrows
<1>7. OrderInv'
  BY <1>0, <1>1, <1>3, <1>4, <1>5, OrderGrows DEF TypeOK
<1>8. LoopInv'
  BY <1>0, <1>1, SamePasses DEF LoopInv
<1>9. TypeOK'
  <2>1. order' \in Seq(Name)
    BY <1>0, <1>1, <1>3 DEF TypeOK
  <2>2. QED
    BY <1>0, <1>1, <1>2, <1>3, <2>1 DEF TypeOK
<1>10. QED
  BY <1>4, <1>6, <1>7, <1>8, <1>9 DEF IInv, SearchInv

(* The index computed for a registered name is its last registration.      *)
LEMMA IndexOfRegistered ==
  ASSUME IInv, NEW n \in Registered
  PROVE  /\ IndexOf(n) \in DOMAIN passes /\ IndexOf(n) \in Nat
         /\ passes[IndexOf(n)].name = n /\ IsLast(IndexOf(n))
<1>1. \E i \in DOMAIN passes : i \in LastOf(n)
  BY DEF IInv, SearchInv, LoopInv, Registered, LastOf
<1>2. IndexOf(n) \in DOMAIN passes /\ IndexOf(n) \in LastOf(n)
  BY <1>1 DEF IndexOf
<1>3. QED
  BY <1>2 DEF LastOf, IInv, TypeOK

LEMMA InstallOrderInv ==
  ASSUME IInv, InstallOrder
  PROVE  IInv'
<1>1. /\ Leave /\ passes' = passes /\ status' = "ok"
      /\ executionOrder' = [i \in DOMAIN order |-> IndexOf(order[i])]
  BY DEF InstallOrder
<1>2. \A i \in DOMAIN order : order[i] \in Registered
  BY DEF IInv, SearchInv, OrderInv
<1>3. \A i \in DOMAIN order : IndexOf(order[i]) \in Nat
  BY <1>2, IndexOfRegistered
<1>4. executionOrder' \in Seq(Nat)
  <2>1. order \in Seq(Name) /\ Len(order) \in Nat /\ DOMAIN order = 1 .. Len(order)
    BY DEF IInv, TypeOK
  <2>2. executionOrder' \in [1 .. Len(order) -> Nat]
    BY <1>1, <1>3, <2>1
  <2>3. QED
    BY <2>1, <2>2, SeqDef
<1>5. QED
  BY <1>1, <1>4, LeaveInv

-----------------------------------------------------------------------------
LEMMA StepInv ==
  ASSUME IInv, [Next]_vars
  PROVE  IInv'
<1>1. CASE \E d \in Decl : DoRegister(d)
  BY <1>1, RegisterInv
<1>2. CASE DoClear
  BY <1>2, ClearInv
<1>3. CASE ComputeOrder
  BY <1>3, ComputeOrderInv
<1>4. CASE VisitNext
  BY <1>4, VisitNextInv
<1>5. CASE VisitDependency
  BY <1>5, VisitDependencyInv
<1>6. CASE FinishVisit
  BY <1>6, FinishVisitInv
<1>7. CASE InstallOrder
  BY <1>7, InstallOrderInv
<1>8. CASE UNCHANGED vars
  <2>1. TypeOK'
    BY <1>8 DEF IInv, TypeOK, vars
  <2>2. StackInv' /\ VisitedInv' /\ OrderInv' /\ LoopInv'
    BY <1>8, SamePasses
    DEF vars, IInv, SearchInv, StackInv, VisitedInv, OrderInv, LoopInv, Calls, Idle
  <2>3. QED
    BY <2>1, <2>2 DEF IInv, SearchInv
<1>9. QED
  BY <1>1, <1>2, <1>3, <1>4, <1>5, <1>6, <1>7, <1>8 DEF Next, SearchStep

LEMMA SearchInvariance == Spec => []IInv
  BY InitInv, StepInv, PTL DEF Spec

(***************************************************************************)
(* compute_order keeps its bookkeeping straight whatever it is given: the  *)
(* names marked as being visited are those of the active calls, what is    *)
(* visited is free of cycles and listed after its dependencies.            *)
(***************************************************************************)
THEOREM BookkeepingCorrect == Spec => []SearchInv
<1>1. IInv => SearchInv
  BY DEF IInv
<1>2. QED
  BY <1>1, SearchInvariance, PTL

(* Every variable of compute_order keeps its type. *)
THEOREM TypeCorrect == Spec => []TypeOK
<1>1. IInv => TypeOK
  BY DEF IInv
<1>2. QED
  BY <1>1, SearchInvariance, PTL

-----------------------------------------------------------------------------
(* A dependency found on the stack closes a cycle through the frames above. *)
LEMMA CycleFound ==
  ASSUME IInv, stack # <<>>, NEW d \in Top.todo, d \in temp
  PROVE  HasCycle
<1> DEFINE k == Len(stack)
<1>1. /\ k \in Nat /\ k # 0 /\ DOMAIN stack = 1 .. k /\ Top = stack[k]
      /\ \A i \in 1 .. k : stack[i].node \in Name
  <2>1. stack \in Seq(Frame)
    BY DEF IInv, TypeOK
  <2>2. k \in Nat /\ k # 0 /\ DOMAIN stack = 1 .. k /\ Top = stack[k]
    BY <2>1, StackShape
  <2>3. \A i \in DOMAIN stack : stack[i] \in Frame
    BY <2>1
  <2>4. QED
    BY <2>2, <2>3 DEF Frame
<1> HIDE DEF k
<1>2. StackInv
  BY DEF IInv, SearchInv
<1>3. PICK j \in 1 .. k : stack[j].node = d
  BY <1>1, <1>2 DEF StackInv
<1> DEFINE S == {stack[i].node : i \in j .. k}
<1>4. \A i \in j .. k : i \in 1 .. k
  BY <1>1, <1>3
<1>5. d \in S /\ S \subseteq Name
  BY <1>1, <1>3, <1>4
<1>6. ASSUME NEW i \in j .. k
      PROVE  Deps(stack[i].node) \cap S # {}
  <2>1. CASE i = k
    <3>1. k \in DOMAIN stack /\ d \in stack[k].todo
      BY <1>1
    <3>2. d \in Deps(stack[k].node)
      BY <1>2, <3>1 DEF StackInv
    <3>3. QED
      BY <1>5, <2>1, <3>2
  <2>2. CASE i # k
    <3>1. i \in 1 .. k /\ i + 1 \in 1 .. k /\ i + 1 \in j .. k
      BY <1>1, <1>3, <2>2
    <3>2. Calls(i, stack[i + 1].node)
      BY <1>1, <3>1 DEF Calls
    <3>3. stack[i + 1].node \in Deps(stack[i].node)
      BY <1>1, <1>2, <3>1, <3>2 DEF StackInv
    <3>4. QED
      BY <3>1, <3>3
  <2>3. QED
    BY <2>1, <2>2
<1>7. Cyclic(S)
  BY <1>5, <1>6 DEF Cyclic
<1>8. QED
  BY <1>5, <1>7 DEF HasCycle

(* The order installed is an execution order, and there is no cycle.       *)
LEMMA OrderInstalled ==
  ASSUME IInv, InstallOrder
  PROVE  OrderFound
<1>0. TypeOK /\ StackInv /\ VisitedInv /\ OrderInv /\ LoopInv
  BY DEF IInv, SearchInv
<1>1. /\ stack = <<>> /\ next > Len(passes) /\ passes' = passes /\ status' = "ok"
      /\ executionOrder' = [i \in DOMAIN order |-> IndexOf(order[i])]
  BY DEF InstallOrder
<1>2. temp = {}
  BY <1>0, <1>1 DEF StackInv
<1>3. Registered \subseteq visited
  BY <1>0, <1>1, <1>2 DEF LoopInv, Registered, TypeOK
<1>4. ASSUME NEW S \in SUBSET Name, Cyclic(S)
      PROVE  FALSE
  <2>1. S \subseteq Registered
    BY <1>0, <1>4, DepsAreNames DEF Cyclic
  <2>2. QED
    BY <1>0, <1>3, <1>4, <2>1 DEF VisitedInv
<1>5. /\ DOMAIN executionOrder' = DOMAIN order
      /\ \A i \in DOMAIN order :
           /\ executionOrder'[i] \in DOMAIN passes
           /\ NameAt(executionOrder', i) = order[i]
           /\ IsLast(executionOrder'[i])
  <2>1. \A i \in DOMAIN order : order[i] \in Registered
    BY <1>0 DEF OrderInv
  <2>2. QED
    BY <1>1, <2>1, IndexOfRegistered DEF NameAt
<1>6. executionOrder' \in Seq(DOMAIN passes)
  <2>1. order \in Seq(Name) /\ Len(order) \in Nat /\ DOMAIN order = 1 .. Len(order)
    BY <1>0 DEF TypeOK
  <2>2. executionOrder' \in [1 .. Len(order) -> DOMAIN passes]
    BY <1>1, <1>5, <2>1
  <2>3. QED
    BY <2>1, <2>2, SeqDef
<1>7. RunsEachNameOnce(executionOrder')
  <2>1. {NameAt(executionOrder', i) : i \in DOMAIN order} = {order[i] : i \in DOMAIN order}
    BY <1>5
  <2>2. {order[i] : i \in DOMAIN order} = Registered
    BY <1>0, <1>3 DEF OrderInv
  <2>3. \A i, j \in DOMAIN order : order[i] = order[j] => i = j
    BY <1>0 DEF OrderInv
  <2>4. QED
    BY <1>5, <2>1, <2>2, <2>3 DEF RunsEachNameOnce
<1>8. DependenciesFirst(executionOrder')
  BY <1>0, <1>5 DEF OrderInv, DependenciesFirst
<1>9. QED
  BY <1>1, <1>4, <1>6, <1>7, <1>8 DEF OrderFound, HasCycle, IsExecutionOrder

(* A step of the search is a step of the schedule, or none.                *)
LEMMA StepMaps ==
  ASSUME IInv, [Next]_vars
  PROVE  [ScheduleNext]_scheduleVars
<1> USE DEF ScheduleNext, scheduleVars
<1>1. CASE \E d \in Decl : DoRegister(d)
  BY <1>1 DEF DoRegister
<1>2. CASE DoClear
  BY <1>2 DEF DoClear
<1>3. CASE ComputeOrder
  BY <1>3 DEF ComputeOrder
<1>4. CASE VisitNext
  <2>1. temp = {}
    BY <1>4 DEF VisitNext, IInv, SearchInv, StackInv
  <2>2. QED
    BY <1>4, <2>1 DEF VisitNext, Visit
<1>5. CASE VisitDependency
  <2>1. PICK d \in Top.todo :
          Visit(d, Append(Below, [Top EXCEPT !.todo = @ \ {d}]), next)
    BY <1>5 DEF VisitDependency
  <2>2. CASE d \in temp
    <3>1. HasCycle
      BY <1>5, <2>2, CycleFound DEF VisitDependency
    <3>2. status' = "cycle" /\ UNCHANGED <<passes, executionOrder>>
      BY <2>1, <2>2 DEF Visit, IInv, SearchInv, VisitedInv
    <3>3. QED
      BY <3>1, <3>2 DEF OrderRefused
  <2>3. CASE d \notin temp
    BY <2>1, <2>3 DEF Visit
  <2>4. QED
    BY <2>2, <2>3
<1>6. CASE FinishVisit
  BY <1>6 DEF FinishVisit
<1>7. CASE InstallOrder
  BY <1>7, OrderInstalled
<1>8. CASE UNCHANGED vars
  BY <1>8 DEF vars
<1>9. QED
  BY <1>1, <1>2, <1>3, <1>4, <1>5, <1>6, <1>7, <1>8 DEF Next, SearchStep

(***************************************************************************)
(* compute_order implements its specification: whatever the order in which *)
(* the dependency sets are iterated, it installs an order that respects    *)
(* every registered dependency and runs every registered name once, or     *)
(* reports a cycle when and only when there is one and installs nothing.   *)
(***************************************************************************)
THEOREM OrderImplementsSchedule == Spec => ScheduleSpec
<1>1. Init => ScheduleInit
  BY DEF Init
<1>2. QED
  BY <1>1, StepMaps, SearchInvariance, PTL DEF Spec, ScheduleSpec

-----------------------------------------------------------------------------
(***************************************************************************)
(* What run_with_context relies on: the installed order is an execution    *)
(* order of the registered passes until they change, and even then each of *)
(* its indices is in range, because clear() empties both.                  *)
(***************************************************************************)
ScheduleInv ==
  /\ passes \in Seq(Decl)
  /\ DOMAIN executionOrder \subseteq Nat
  /\ InstalledOrderIsTopological
  /\ IndicesInRange

LEMMA ScheduleStep ==
  ASSUME ScheduleInv, [ScheduleNext]_scheduleVars
  PROVE  ScheduleInv'
<1>1. CASE \E d \in Decl : Register(d)
  <2>1. PICK d \in Decl : Register(d)
    BY <1>1
  <2>2. /\ passes' = Append(passes, d) /\ passes' \in Seq(Decl)
        /\ DOMAIN passes \subseteq DOMAIN passes'
    BY <2>1 DEF Register, ScheduleInv
  <2>3. executionOrder' = executionOrder /\ status' = "stale"
    BY <2>1 DEF Register
  <2>4. QED
    BY <2>2, <2>3 DEF ScheduleInv, InstalledOrderIsTopological, IndicesInRange
<1>2. CASE Clear
  BY <1>2 DEF Clear, ScheduleInv, InstalledOrderIsTopological, IndicesInRange
<1>3. CASE OrderFound
  <2>1. IsExecutionOrder(executionOrder') /\ passes' = passes
    BY <1>3 DEF OrderFound
  <2>2. executionOrder' \in Seq(DOMAIN passes)
    BY <2>1 DEF IsExecutionOrder
  <2>3. /\ DOMAIN executionOrder' \subseteq Nat
        /\ \A i \in DOMAIN executionOrder' : executionOrder'[i] \in DOMAIN passes
    BY <2>2
  <2>4. IsExecutionOrder(executionOrder)'
    BY <2>1, SamePasses
    DEF IsExecutionOrder, RunsEachNameOnce, DependenciesFirst, NameAt, IsLast
  <2>5. QED
    BY <2>1, <2>3, <2>4 DEF ScheduleInv, InstalledOrderIsTopological, IndicesInRange
<1>4. CASE OrderRefused
  BY <1>4 DEF OrderRefused, ScheduleInv, InstalledOrderIsTopological, IndicesInRange
<1>5. CASE UNCHANGED scheduleVars
  <2>1. IsExecutionOrder(executionOrder)' = IsExecutionOrder(executionOrder)
    BY <1>5, SamePasses
    DEF scheduleVars, IsExecutionOrder, RunsEachNameOnce, DependenciesFirst, NameAt, IsLast
  <2>2. QED
    BY <1>5, <2>1
    DEF scheduleVars, ScheduleInv, InstalledOrderIsTopological, IndicesInRange
<1>6. QED
  BY <1>1, <1>2, <1>3, <1>4, <1>5 DEF ScheduleNext

LEMMA ScheduleInitially == ScheduleInit => ScheduleInv
  BY DEF ScheduleInit, ScheduleInv, InstalledOrderIsTopological, IndicesInRange

LEMMA ScheduleInvariance == Spec => []ScheduleInv
<1>1. ScheduleSpec => []ScheduleInv
  BY ScheduleInitially, ScheduleStep, PTL DEF ScheduleSpec
<1>2. QED
  BY <1>1, OrderImplementsSchedule, PTL

(* An order computed for the passes as registered is topological. *)
THEOREM InstalledOrderCorrect == Spec => []InstalledOrderIsTopological
<1>1. ScheduleInv => InstalledOrderIsTopological
  BY DEF ScheduleInv
<1>2. QED
  BY <1>1, ScheduleInvariance, PTL

(* run_with_context never indexes `passes` out of range. *)
THEOREM IndicesCorrect == Spec => []IndicesInRange
<1>1. ScheduleInv => IndicesInRange
  BY DEF ScheduleInv
<1>2. QED
  BY <1>1, ScheduleInvariance, PTL

-----------------------------------------------------------------------------
(* The runs. *)

Distinct == \A i, j \in DOMAIN passes : passes[i].name = passes[j].name => i = j

DistinctRegistrations ==
  \A r \in Registrations : \A i, j \in DOMAIN r : r[i].name = r[j].name => i = j

Saw == UNION {[keys -> SUBSET (Name \cup {Input})] : keys \in SUBSET Key}

ResultSet == [name : Name, outcome : {"ran", "failed", "cached"}, version : Nat, saw : Saw]

Local == [ctx : Context, ran : BOOLEAN, result : ResultSet]

RunTypeOK ==
  /\ pc \in {"idle", "ordering", "sequence", "levels"}
  /\ ctx \in Context /\ at \in Nat \ {0} /\ version \in Nat
  /\ level \in [DOMAIN level -> Local] /\ DOMAIN level \subseteq DOMAIN passes
  /\ results \in Seq(ResultSet) /\ prior \in Seq(ResultSet)
  /\ \A e \in cache : e.result \in ResultSet
                      /\ e.key = [pass |-> e.result.name, version |-> e.result.version]

(* What a run relies on: the passes as registered, and their order.        *)
OrderPart ==
  /\ passes \in Registrations /\ IInv /\ ScheduleInv
  /\ pc \in {"sequence", "levels"} => status = "ok"

Has(rs, n)  == \E j \in DOMAIN rs : rs[j].name = n
DidRun(rs, n) == \E j \in DOMAIN rs : rs[j].name = n /\ rs[j].outcome = "ran"
AllRan(rs, n) == \A j \in DOMAIN rs : rs[j].name = n => rs[j].outcome = "ran"

(* The results are of registered passes, one of each, in a good order.     *)
ResultsInv ==
  /\ \A j \in DOMAIN results : results[j].name \in Registered
  /\ \A i, j \in DOMAIN results : results[i].name = results[j].name => i = j
  /\ DependenciesRunFirst

(* A key that one pass writes holds what that pass stored, once it has run. *)
Sole(k, d) == k \in Key /\ d \in Registered /\ Writers(k) = {d}

WritersInv ==
  pc \in {"sequence", "levels"} =>
    \A k, d : Sole(k, d) =>
      /\ ctx.shared[k] \subseteq {d}
      /\ ctx.shared[k] = {d} => Has(results, d)
      /\ DidRun(results, d) => ctx.shared[k] = {d}

(* Whoever depends on that pass has seen it.                               *)
ReadsSole(rs) ==
  \A j \in DOMAIN rs : \A k \in Effect[rs[j].name].reads, d \in Deps(rs[j].name) :
    Sole(k, d) /\ rs[j].outcome # "cached" /\ AllRan(rs, d) => rs[j].saw[k] = {d}

ReadsInv == ReadsSole(results) /\ ReadsSole(prior)

IdsInv ==
  /\ \A a \in AllIssues(ctx) : a.id < ctx.nextId /\ a.by \in DOMAIN passes
  /\ DependentIdsDiffer

(* One after the other: the results are those of the order so far, what a  *)
(* pass stored is there until it is replaced, and no two issues share an id. *)
SequenceInv ==
  pc = "sequence" =>
    /\ Len(results) = at - 1 /\ at <= Len(executionOrder) + 1
    /\ \A j \in DOMAIN results : results[j].name = NameAt(executionOrder, j)
    /\ \A i \in DOMAIN results : results[i].outcome = "ran" =>
         \A k \in Outputs(results[i].name) :
           results[i].name \in ctx.shared[k] \/ Replaced(k, i, Len(results) + 1)
    /\ OutputsReachDependents
    /\ \A a, b \in AllIssues(ctx) : a.id = b.id => a = b

(* The context of a pass of the level, before and after the pass has run.  *)
LocalKeys(i) ==
  LET n == passes[i].name
      l == level[i]
  IN  \A k, d : Sole(k, d) =>
        /\ d = n => /\ l.ctx.shared[k] \subseteq {d}
                    /\ l.ran /\ l.result.outcome = "ran" => l.ctx.shared[k] = {d}
        /\ d # n => l.ctx.shared[k] \in {{}, ctx.shared[k]}
        /\ d \in passes[i].deps /\ DidRun(results, d) =>
             /\ l.ctx.shared[k] = {d}
             /\ k \in Effect[n].reads => l.result.saw[k] = {d}

LocalIds(i) ==
  LET c == level[i].ctx
  IN  /\ ~level[i].ran => AllIssues(c) = {}
      /\ \A a \in AllIssues(c) : a.by = i /\ a.id < c.nextId
      /\ \A a, b \in AllIssues(c) : a.id = b.id => a = b
      /\ \A b \in AllIssues(ctx) : passes[b.by].name \in passes[i].deps =>
           b.id < c.nextId /\ \A a \in AllIssues(c) : b.id < a.id

LocalInv(i) ==
  /\ passes[i].name \notin completed /\ passes[i].deps \subseteq completed
  /\ level[i].result.name = passes[i].name
  /\ LocalKeys(i) /\ LocalIds(i)

LevelsInv ==
  pc = "levels" =>
    /\ completed = {results[j].name : j \in DOMAIN results}
    /\ \A a \in AllIssues(ctx) : passes[a.by].name \in completed
    /\ \A i \in DOMAIN level : LocalInv(i)

ManagerInv ==
  /\ OrderPart /\ RunTypeOK /\ ResultsInv /\ WritersInv /\ ReadsInv /\ IdsInv
  /\ SequenceInv /\ LevelsInv

-----------------------------------------------------------------------------
(* What depends on `passes` alone stays as it is while `passes` does.      *)
LEMMA SameRegistered ==
  ASSUME passes' = passes
  PROVE  /\ Distinct' = Distinct
         /\ \A n : Deps(n)' = Deps(n)
         /\ Registered' = Registered
         /\ \A k : Writers(k)' = Writers(k)
         /\ \A k, d : Sole(k, d)' = Sole(k, d)
<1>1. Registered' = Registered /\ \A n : Deps(n)' = Deps(n)
  BY SamePasses
<1>2. \A k : Writers(k)' = Writers(k)
  BY <1>1 DEF Writers, Outputs
<1>3. Distinct' = Distinct
  BY DEF Distinct
<1> QED BY <1>1, <1>2, <1>3 DEF Sole

LEMMA PassFacts ==
  ASSUME OrderPart, Distinct
  PROVE  \A i \in DOMAIN passes :
           /\ i \in Nat /\ passes[i].name \in Name /\ passes[i].name \in Registered
           /\ passes[i].deps \subseteq Name /\ Deps(passes[i].name) = passes[i].deps
<1> TAKE i \in DOMAIN passes
<1>1. passes \in Seq(Decl)
  BY DEF OrderPart, IInv, TypeOK
<1>2. passes[i] \in [name : Name, deps : SUBSET Name] /\ i \in Nat
  BY <1>1, DeclAssumption
<1>3. LastOf(passes[i].name) = {i}
  BY <1>2 DEF LastOf, IsLast, Distinct
<1>4. Deps(passes[i].name) = passes[i].deps
  BY <1>3 DEF Deps
<1> QED BY <1>2, <1>4 DEF Registered

LEMMA RegisteredFacts ==
  ASSUME OrderPart
  PROVE  Registered \subseteq Name /\ \A n : Deps(n) \subseteq Name
BY DepsAreNames DEF OrderPart, IInv

(* The only pass that writes a key.                                        *)
LEMMA SoleFacts ==
  ASSUME OrderPart, NEW k, NEW d, Sole(k, d)
  PROVE  /\ k \in Key /\ d \in Registered /\ d \in Name /\ k \notin Inputs
         /\ k \in Outputs(d) /\ \A n \in Registered : n # d => k \notin Outputs(n)
<1>1. d \in Name /\ d # Input
  BY RegisteredFacts, InputAssumption DEF Sole
<1>2. Input \notin Writers(k)
  BY <1>1 DEF Sole
<1> QED BY <1>1, <1>2 DEF Sole, Writers

LEMMA OutputsAreKeys ==
  ASSUME NEW n \in Name
  PROVE  Outputs(n) \subseteq Key /\ Effect[n].reads \subseteq Key
BY EffectAssumption DEF Outputs

-----------------------------------------------------------------------------
(* What a pass leaves in a context, all of its work or some of it.         *)

Kept(n, i, c, w) ==
  /\ w \in Context
  /\ \A k \in Key : /\ k \notin Outputs(n) => w.shared[k] = c.shared[k]
                    /\ w.shared[k] \subseteq c.shared[k] \cup {n}
  /\ c.nextId <= w.nextId /\ AllIssues(c) \subseteq AllIssues(w)
  /\ \A a \in AllIssues(w) \ AllIssues(c) : a.by = i /\ c.nextId <= a.id /\ a.id < w.nextId
  /\ \A a, b \in AllIssues(w) \ AllIssues(c) : a.id = b.id => a = b

LEMMA EmitFacts ==
  ASSUME NEW c \in Context, NEW i \in Nat,
         NEW s \in Seq(Issue), NEW w, w = EmitAll(c, i, s)
  PROVE  /\ w \in Context /\ w.shared = c.shared /\ c.nextId <= w.nextId
         /\ AllIssues(c) \subseteq AllIssues(w)
         /\ \A a \in AllIssues(w) \ AllIssues(c) : a.by = i /\ c.nextId <= a.id /\ a.id < w.nextId
         /\ \A a, b \in AllIssues(w) \ AllIssues(c) : a.id = b.id => a = b
<1> DEFINE emitted == {[id |-> c.nextId + m - 1, by |-> i, nth |-> m] : m \in 1 .. Len(s)}
           quiet   == {e \in emitted : Suppresses(c, s[e.nth])}
<1>1. Len(s) \in Nat /\ c.nextId \in Nat
  BY DEF Context
<1>2. w = [c EXCEPT !.nextId = c.nextId + Len(s),
                    !.issues = c.issues \cup (emitted \ quiet),
                    !.suppressed = c.suppressed \cup quiet]
  BY DEF EmitAll
<1>3. emitted \subseteq Emitted
  BY <1>1 DEF Emitted
<1>4. quiet \subseteq emitted
  OBVIOUS
<1>5. \A a \in emitted : a.by = i /\ c.nextId <= a.id /\ a.id < c.nextId + Len(s)
  BY <1>1
<1>6. \A a, b \in emitted : a.id = b.id => a = b
  BY <1>1
<1> HIDE DEF emitted, quiet
<1>7. /\ w.issues = c.issues \cup (emitted \ quiet) /\ w.suppressed = c.suppressed \cup quiet
      /\ w.nextId = c.nextId + Len(s) /\ w.shared = c.shared
      /\ w \in Context
  <2>1. c.issues \cup (emitted \ quiet) \in SUBSET Emitted /\ c.suppressed \cup quiet \in SUBSET Emitted
        /\ c.nextId + Len(s) \in Nat
    BY <1>1, <1>3, <1>4 DEF Context
  <2> QED BY <1>2, <2>1 DEF Context
<1>8. AllIssues(w) = AllIssues(c) \cup emitted
  BY <1>4, <1>7 DEF AllIssues
<1>9. c.nextId <= w.nextId
  BY <1>1, <1>7
<1> QED BY <1>5, <1>6, <1>7, <1>8, <1>9

LEMMA WorkFacts ==
  ASSUME NEW c \in Context, NEW i \in Nat, NEW n \in Name,
         NEW fresh, NEW extended, fresh \cup extended \subseteq Outputs(n), NEW s \in Seq(Issue), NEW w,
         w = EmitAll(StoreOutputs(c, n, fresh, extended), i, s)
  PROVE  /\ Kept(n, i, c, w)
         /\ \A k \in fresh : w.shared[k] = {n}
         /\ \A k \in extended \ fresh : w.shared[k] = c.shared[k] \cup {n}
<1> PICK t : t = StoreOutputs(c, n, fresh, extended)
  OBVIOUS
<1>1. /\ t \in Context /\ t.issues = c.issues /\ t.suppressed = c.suppressed /\ t.nextId = c.nextId
      /\ \A k \in Key : t.shared[k] = IF k \in fresh THEN {n}
                                      ELSE IF k \in extended THEN c.shared[k] \cup {n}
                                      ELSE c.shared[k]
  BY OutputsAreKeys DEF StoreOutputs, Context
<1>2. AllIssues(t) = AllIssues(c)
  BY <1>1 DEF AllIssues
<1>3. w = EmitAll(t, i, s)
  OBVIOUS
<1>4. /\ w \in Context /\ w.shared = t.shared /\ t.nextId <= w.nextId
      /\ AllIssues(t) \subseteq AllIssues(w)
      /\ \A a \in AllIssues(w) \ AllIssues(t) : a.by = i /\ t.nextId <= a.id /\ a.id < w.nextId
      /\ \A a, b \in AllIssues(w) \ AllIssues(t) : a.id = b.id => a = b
  BY <1>1, <1>3, EmitFacts
<1>5. Kept(n, i, c, w)
  BY <1>1, <1>2, <1>4 DEF Kept
<1>6. fresh \cup extended \subseteq Key
  BY OutputsAreKeys
<1> QED BY <1>1, <1>4, <1>5, <1>6

LEMMA FinishedFacts ==
  ASSUME OrderPart, Distinct, NEW c \in Context, NEW i \in DOMAIN passes,
         NEW n, n = passes[i].name, NEW w, w = Finished(c, i)
  PROVE  /\ Kept(n, i, c, w)
         /\ \A k \in Effect[n].fresh : w.shared[k] = {n}
         /\ \A k \in Effect[n].extended \ Effect[n].fresh : w.shared[k] = c.shared[k] \cup {n}
<1> PICK e : e = Effect[n]
  OBVIOUS
<1>1. i \in Nat /\ n \in Name
  BY PassFacts
<1> PICK fresh, extended, s : fresh = e.fresh /\ extended = e.extended /\ s = e.issues
  OBVIOUS
<1>2. fresh \cup extended \subseteq Outputs(n) /\ s \in Seq(Issue)
  BY <1>1, EffectAssumption DEF Outputs
<1>3. w = EmitAll(StoreOutputs(c, n, fresh, extended), i, s)
  BY DEF Finished
<1>4. /\ Kept(n, i, c, w) /\ \A k \in fresh : w.shared[k] = {n}
      /\ \A k \in extended \ fresh : w.shared[k] = c.shared[k] \cup {n}
  BY <1>1, <1>2, <1>3, WorkFacts
<1> QED BY <1>4

LEMMA AbandonedFacts ==
  ASSUME OrderPart, Distinct, NEW c \in Context, NEW i \in DOMAIN passes, NEW n, n = passes[i].name,
         NEW ks, NEW m \in 0 .. Len(Effect[n].issues),
         NEW w, w = Abandoned(c, i, ks, m)
  PROVE  Kept(n, i, c, w)
<1> PICK e : e = Effect[n]
  OBVIOUS
<1>1. i \in Nat /\ n \in Name
  BY PassFacts
<1>2. e.issues \in Seq(Issue)
  BY <1>1, EffectAssumption
<1> DEFINE fresh == e.fresh \cap ks
           extended == e.extended \cap ks
           s == SubSeq(e.issues, 1, m)
<1>3. s \in Seq(Issue)
  <2>1. Len(e.issues) \in Nat /\ m \in Nat /\ m <= Len(e.issues)
    BY <1>2
  <2>2. \A j \in 1 .. m : j \in 1 .. Len(e.issues)
    BY <2>1
  <2>3. \A j \in 1 .. m : e.issues[j] \in Issue
    BY <1>2, <2>1, <2>2
  <2> QED BY <2>1, <2>3, SubSeqProperties
<1>4. fresh \cup extended \subseteq Outputs(n)
  BY DEF Outputs
<1>5. w = EmitAll(StoreOutputs(c, n, fresh, extended), i, s)
  BY DEF Abandoned
<1> HIDE DEF fresh, extended, s
<1> QED BY <1>1, <1>3, <1>4, <1>5, WorkFacts

LEMMA MergeFacts ==
  ASSUME NEW c \in Context, NEW o \in Context, NEW w, w = Merge(c, o)
  PROVE  /\ w \in Context
         /\ \A k \in Key : w.shared[k] = IF o.shared[k] # {} THEN o.shared[k] ELSE c.shared[k]
         /\ AllIssues(w) = AllIssues(c) \cup AllIssues(o)
         /\ c.nextId <= w.nextId /\ o.nextId <= w.nextId
<1>1. w \in Context /\ w.issues = c.issues \cup o.issues /\ w.suppressed = c.suppressed \cup o.suppressed
  BY DEF Merge, Context
<1>2. AllIssues(w) = AllIssues(c) \cup AllIssues(o)
  BY <1>1 DEF AllIssues
<1>3. \A k \in Key : w.shared[k] = IF o.shared[k] # {} THEN o.shared[k] ELSE c.shared[k]
  BY DEF Merge
<1>4. c.nextId <= w.nextId /\ o.nextId <= w.nextId
  BY DEF Merge, Context
<1> QED BY <1>1, <1>2, <1>3, <1>4

LEMMA ResultFacts ==
  ASSUME NEW n \in Name, NEW outcome \in {"ran", "failed"}, NEW c \in Context, version \in Nat,
         NEW r, r = Result(n, outcome, c)
  PROVE  /\ r \in ResultSet /\ r.name = n /\ r.outcome = outcome
         /\ \A k \in Effect[n].reads : r.saw[k] = c.shared[k]
<1>1. Effect[n].reads \in SUBSET Key
  BY EffectAssumption
<1>2. c.shared \in [Key -> SUBSET (Name \cup {Input})]
  BY DEF Context
<1> DEFINE saw == [k \in Effect[n].reads |-> c.shared[k]]
<1>3. saw \in [Effect[n].reads -> SUBSET (Name \cup {Input})]
  BY <1>1, <1>2
<1>4. saw \in Saw
  BY <1>1, <1>3 DEF Saw
<1>5. \A k \in Effect[n].reads : saw[k] = c.shared[k]
  OBVIOUS
<1>6. r = [name |-> n, outcome |-> outcome, version |-> version, saw |-> saw]
  BY DEF Result
<1> HIDE DEF saw
<1> QED BY <1>4, <1>5, <1>6 DEF ResultSet

LEMMA DistinctHolds ==
  ASSUME DistinctRegistrations, OrderPart
  PROVE  Distinct
BY DEF DistinctRegistrations, OrderPart, Distinct

-----------------------------------------------------------------------------
(* What does not change, or changes for nobody.                            *)

LEMMA OrderPartStep ==
  ASSUME OrderPart, [Next]_vars, passes' = passes, pc' \in {"sequence", "levels"} => status' = "ok"
  PROVE  OrderPart'
<1>1. IInv'
  BY StepInv DEF OrderPart
<1>2. ScheduleInv'
  BY StepMaps, ScheduleStep DEF OrderPart
<1> QED BY <1>1, <1>2 DEF OrderPart

(* Neither the context nor the results change, and no run is under way.    *)
LEMMA QuietInv ==
  ASSUME ManagerInv, OrderPart', RunTypeOK', UNCHANGED <<passes, ctx, results>>,
         prior' \in {prior, results}, pc' \notin {"sequence", "levels"}
  PROVE  ManagerInv'
<1>1. ResultsInv'
  BY SameRegistered DEF ManagerInv, ResultsInv, DependenciesRunFirst
<1>3. ReadsInv'
  BY SameRegistered DEF ManagerInv, ReadsInv, ReadsSole, AllRan
<1>4. IdsInv'
  BY SameRegistered DEF ManagerInv, IdsInv, DependentIdsDiffer
<1>5. WritersInv' /\ SequenceInv' /\ LevelsInv'
  BY DEF WritersInv, SequenceInv, LevelsInv
<1> QED BY <1>1, <1>3, <1>4, <1>5 DEF ManagerInv

(* Nothing changes but what a cache or a client does meanwhile.            *)
LEMMA SameInv ==
  ASSUME ManagerInv, RunTypeOK',
         UNCHANGED <<vars, pc, ctx, at, completed, level, results, prior>>
  PROVE  ManagerInv'
<1>1. UNCHANGED <<passes, executionOrder, status>>
  BY DEF vars
<1>2. OrderPart'
  BY <1>1, OrderPartStep DEF ManagerInv, OrderPart
<1>3. ResultsInv' /\ ReadsInv' /\ IdsInv'
  BY <1>1, SameRegistered DEF ManagerInv, ResultsInv, DependenciesRunFirst, ReadsInv, ReadsSole, AllRan,
                              IdsInv, DependentIdsDiffer
<1>4. WritersInv'
  BY <1>1, SameRegistered DEF ManagerInv, WritersInv, Has, DidRun
<1>5. SequenceInv'
  BY <1>1, SameRegistered DEF ManagerInv, SequenceInv, OutputsReachDependents, Replaced, NameAt
<1>6. LevelsInv'
  BY <1>1, SameRegistered DEF ManagerInv, LevelsInv, LocalInv, LocalKeys, LocalIds, DidRun
<1> QED BY <1>2, <1>3, <1>4, <1>5, <1>6 DEF ManagerInv

-----------------------------------------------------------------------------
(* A result is added. *)

LEMMA AppendFacts ==
  ASSUME NEW rs \in Seq(ResultSet), NEW r \in ResultSet, NEW ts, ts = Append(rs, r)
  PROVE  /\ ts \in Seq(ResultSet) /\ Len(rs) \in Nat /\ Len(ts) = Len(rs) + 1
         /\ DOMAIN rs = 1 .. Len(rs) /\ DOMAIN ts = 1 .. (Len(rs) + 1)
         /\ ts[Len(rs) + 1] = r /\ \A j \in DOMAIN rs : ts[j] = rs[j]
         /\ \A j \in DOMAIN ts : j = Len(rs) + 1 \/ j \in DOMAIN rs
OBVIOUS

LEMMA AppendResult ==
  ASSUME ResultsInv, results \in Seq(ResultSet), NEW r \in ResultSet, results' = Append(results, r),
         passes' = passes, r.name \in Registered, ~Has(results, r.name),
         \A d \in Deps(r.name) \cap Registered : Has(results, d)
  PROVE  ResultsInv'
<1> DEFINE n == Len(results)
<1>1. /\ n \in Nat /\ DOMAIN results = 1 .. n /\ DOMAIN results' = 1 .. (n + 1)
      /\ results'[n + 1] = r /\ \A j \in 1 .. n : results'[j] = results[j]
      /\ \A j \in DOMAIN results' : j = n + 1 \/ j \in 1 .. n
  BY AppendFacts
<1> HIDE DEF n
<1>2. \A j \in DOMAIN results' : results'[j].name \in Registered'
  BY <1>1, SameRegistered DEF ResultsInv
<1>3. \A i, j \in DOMAIN results' : results'[i].name = results'[j].name => i = j
  BY <1>1 DEF ResultsInv, Has
<1>4. DependenciesRunFirst'
  <2> SUFFICES ASSUME NEW j \in DOMAIN results', NEW d \in Deps(results'[j].name) \cap Registered
               PROVE  \E i \in 1 .. (j - 1) : results'[i].name = d
    BY SameRegistered DEF DependenciesRunFirst
  <2>1. CASE j = n + 1
    <3>1. PICK i \in 1 .. n : results[i].name = d
      BY <1>1, <2>1 DEF Has
    <3> QED BY <1>1, <2>1, <3>1
  <2>2. CASE j \in 1 .. n
    <3>1. PICK i \in 1 .. (j - 1) : results[i].name = d
      BY <1>1, <2>2 DEF ResultsInv, DependenciesRunFirst
    <3>2. i \in 1 .. n
      BY <1>1, <2>2
    <3> QED BY <1>1, <3>1, <3>2
  <2> QED BY <1>1, <2>1, <2>2
<1> QED BY <1>2, <1>3, <1>4 DEF ResultsInv

LEMMA AppendReads ==
  ASSUME ReadsInv, results \in Seq(ResultSet), NEW r \in ResultSet, results' = Append(results, r),
         UNCHANGED <<passes, prior>>, ~Has(results, r.name),
         \A d \in Deps(r.name) \cap Registered : Has(results, d),
         \A k \in Effect[r.name].reads, d \in Deps(r.name) :
           Sole(k, d) /\ r.outcome # "cached" /\ DidRun(results, d) => r.saw[k] = {d}
  PROVE  ReadsInv'
<1> DEFINE n == Len(results)
<1>1. /\ n \in Nat /\ DOMAIN results = 1 .. n /\ DOMAIN results' = 1 .. (n + 1)
      /\ results'[n + 1] = r /\ \A j \in 1 .. n : results'[j] = results[j]
      /\ \A j \in DOMAIN results' : j = n + 1 \/ j \in 1 .. n
  BY AppendFacts
<1> HIDE DEF n
<1>2. \A j \in 1 .. n : j \in DOMAIN results'
  BY <1>1
<1>3. ASSUME NEW j \in DOMAIN results', NEW k \in Effect[results'[j].name].reads,
             NEW d \in Deps(results'[j].name), Sole(k, d), results'[j].outcome # "cached",
             \A i \in DOMAIN results' : results'[i].name = d => results'[i].outcome = "ran"
      PROVE  results'[j].saw[k] = {d}
  <2>1. AllRan(results, d)
    BY <1>1, <1>2, <1>3 DEF AllRan
  <2>2. CASE j = n + 1
    <3>1. Has(results, d)
      BY <1>1, <1>3, <2>2 DEF Sole
    <3>2. DidRun(results, d)
      BY <2>1, <3>1 DEF Has, DidRun, AllRan
    <3> QED BY <1>1, <1>3, <2>2, <3>2
  <2>3. CASE j \in 1 .. n
    BY <1>1, <1>3, <2>1, <2>3 DEF ReadsInv, ReadsSole
  <2> QED BY <1>1, <2>2, <2>3
<1>4. ReadsSole(results)'
  BY <1>3, SameRegistered DEF ReadsSole, AllRan
<1>5. ReadsSole(prior)'
  BY SameRegistered DEF ReadsInv, ReadsSole, AllRan
<1> QED BY <1>4, <1>5 DEF ReadsInv

(* Issues numbered from the counter on are told from those before.         *)
LEMMA KeptIds ==
  ASSUME NEW n, NEW i, NEW c \in Context, NEW w, Kept(n, i, c, w),
         \A a \in AllIssues(c) : a.id < c.nextId
  PROVE  /\ \A a \in AllIssues(w) : a.id < w.nextId
         /\ (\A a, b \in AllIssues(c) : a.id = b.id => a = b) =>
              \A a, b \in AllIssues(w) : a.id = b.id => a = b
<1>1. /\ c.nextId \in Nat /\ w.nextId \in Nat /\ c.nextId <= w.nextId
      /\ \A a \in AllIssues(c) : a.id \in Nat
      /\ \A a \in AllIssues(w) : a.id \in Nat
  BY DEF Kept, Context, Emitted, AllIssues
<1>2. \A a \in AllIssues(w) : a \notin AllIssues(c) => c.nextId <= a.id /\ a.id < w.nextId
  BY Zenon DEF Kept
<1>3. \A a \in AllIssues(w) : a.id < w.nextId
  BY <1>1, <1>2
<1>4. ASSUME \A a, b \in AllIssues(c) : a.id = b.id => a = b,
             NEW a \in AllIssues(w), NEW b \in AllIssues(w), a.id = b.id
      PROVE  a = b
  <2>1. CASE a \in AllIssues(c) /\ b \in AllIssues(c)
    BY <1>4, <2>1
  <2>2. CASE a \notin AllIssues(c) /\ b \notin AllIssues(c)
    BY <1>4, <2>2 DEF Kept
  <2>3. CASE a \in AllIssues(c) /\ b \notin AllIssues(c)
    BY <1>1, <1>2, <1>4, <2>3
  <2>4. CASE a \notin AllIssues(c) /\ b \in AllIssues(c)
    BY <1>1, <1>2, <1>4, <2>4
  <2> QED BY <2>1, <2>2, <2>3, <2>4
<1> QED BY <1>3, <1>4

LEMMA OrderPartSame ==
  ASSUME OrderPart, UNCHANGED vars, pc' \in {"sequence", "levels"} => pc \in {"sequence", "levels"}
  PROVE  OrderPart'
BY OrderPartStep DEF OrderPart, vars

-----------------------------------------------------------------------------
(* One pass after the other. *)

LEMMA CurrentFacts ==
  ASSUME ManagerInv, Distinct, pc = "sequence", at <= Len(executionOrder),
         NEW i, i = executionOrder[at], NEW n, n = Current
  PROVE  /\ i \in DOMAIN passes /\ n = passes[i].name /\ n \in Name /\ n \in Registered
         /\ n = NameAt(executionOrder, at) /\ at \in DOMAIN executionOrder
         /\ Len(results) = at - 1 /\ at \in Nat
         /\ ~Has(results, n) /\ \A d \in Deps(n) \cap Registered : Has(results, d)
<1>1. /\ OrderPart /\ IsExecutionOrder(executionOrder)
      /\ at \in Nat \ {0} /\ results \in Seq(ResultSet)
  BY DEF ManagerInv, OrderPart, ScheduleInv, InstalledOrderIsTopological, RunTypeOK
<1>2. /\ executionOrder \in Seq(DOMAIN passes) /\ at \in DOMAIN executionOrder
      /\ DOMAIN executionOrder \subseteq Nat
  BY <1>1 DEF IsExecutionOrder
<1>3. i \in DOMAIN passes /\ n = passes[i].name /\ n = NameAt(executionOrder, at)
  BY <1>2 DEF Current, NameAt
<1>4. n \in Name /\ n \in Registered
  BY <1>1, <1>3, PassFacts
<1>5. /\ Len(results) = at - 1 /\ DOMAIN results = 1 .. (at - 1)
      /\ \A j \in DOMAIN results : results[j].name = NameAt(executionOrder, j)
  BY <1>1 DEF ManagerInv, SequenceInv
<1>6. \A j \in DOMAIN results : j \in DOMAIN executionOrder /\ j # at
  BY <1>1, <1>2, <1>5
<1>7. ~Has(results, n)
  BY <1>1, <1>2, <1>3, <1>5, <1>6 DEF Has, IsExecutionOrder, RunsEachNameOnce
<1>8. ASSUME NEW d \in Deps(n) \cap Registered
      PROVE  Has(results, d)
  <2>1. PICK j \in DOMAIN executionOrder : j < at /\ NameAt(executionOrder, j) = d
    BY <1>1, <1>2, <1>3 DEF IsExecutionOrder, DependenciesFirst
  <2>2. j \in DOMAIN results
    BY <1>1, <1>2, <1>5, <2>1
  <2> QED BY <1>5, <2>1, <2>2 DEF Has
<1> QED BY <1>1, <1>2, <1>3, <1>4, <1>5, <1>7, <1>8

(* A result served from the cache leaves the context alone.                *)
LEMMA RunFromCacheInv ==
  ASSUME ManagerInv, Distinct, RunFromCache
  PROVE  ManagerInv'
<1> DEFINE i == executionOrder[at]
           n == Current
<1>0. /\ pc = "sequence" /\ at <= Len(executionOrder) /\ at' = at + 1
      /\ UNCHANGED <<vars, pc, parallel, ctx, completed, level, prior, cache, version>>
      /\ UNCHANGED <<passes, executionOrder, status>>
  BY DEF RunFromCache, envVars, vars
<1>1. /\ i \in DOMAIN passes /\ n = passes[i].name /\ n \in Name /\ n \in Registered
      /\ n = NameAt(executionOrder, at) /\ at \in DOMAIN executionOrder
      /\ Len(results) = at - 1 /\ at \in Nat
      /\ ~Has(results, n) /\ \A d \in Deps(n) \cap Registered : Has(results, d)
  BY <1>0, CurrentFacts
<1>2. PICK entry \in cache : /\ entry.key = CacheKey(n)
                             /\ results' = Append(results, [entry.result EXCEPT !.outcome = "cached"])
  BY DEF RunFromCache, Hits
<1> DEFINE r == [entry.result EXCEPT !.outcome = "cached"]
<1>3. r \in ResultSet /\ r.name = n /\ r.outcome = "cached"
  <2>1. entry.result \in ResultSet /\ entry.key = [pass |-> entry.result.name, version |-> entry.result.version]
    BY DEF ManagerInv, RunTypeOK
  <2>2. entry.result.name = n
    BY <1>2, <2>1 DEF CacheKey
  <2> QED BY <2>1, <2>2 DEF ResultSet
<1> HIDE DEF i, n, r
<1>4. /\ results \in Seq(ResultSet) /\ results' = Append(results, r)
  BY <1>2 DEF r, ManagerInv, RunTypeOK
<1>5. /\ results' \in Seq(ResultSet) /\ Len(results') = at /\ DOMAIN results = 1 .. (at - 1)
      /\ DOMAIN results' = 1 .. at /\ results'[at] = r /\ \A j \in DOMAIN results : results'[j] = results[j]
      /\ \A j \in DOMAIN results' : j = at \/ j \in DOMAIN results
  BY <1>1, <1>3, <1>4, AppendFacts
<1>6. OrderPart'
  BY <1>0, OrderPartSame DEF ManagerInv
<1>7. RunTypeOK'
  BY <1>0, <1>1, <1>5 DEF ManagerInv, RunTypeOK
<1>8. ResultsInv'
  BY <1>0, <1>1, <1>3, <1>4, AppendResult DEF ManagerInv
<1>9. ReadsInv'
  BY <1>0, <1>1, <1>3, <1>4, AppendReads DEF ManagerInv
<1>10. IdsInv'
  BY <1>0, SameRegistered DEF ManagerInv, IdsInv, DependentIdsDiffer
<1>11. WritersInv'
  <2>1. \A d : /\ DidRun(results, d)' = DidRun(results, d)
               /\ Has(results, d) => Has(results, d)'
    BY <1>3, <1>5 DEF DidRun, Has
  <2> QED BY <1>0, <2>1, SameRegistered DEF ManagerInv, WritersInv
<1>12. SequenceInv'
  <2> USE <1>0, SameRegistered
  <2>1. /\ Len(results') = at' - 1 /\ at' <= Len(executionOrder') + 1
        /\ \A j \in DOMAIN results' : results'[j].name = NameAt(executionOrder, j)'
    <3>1. \A j \in DOMAIN results' : results'[j].name = NameAt(executionOrder, j)
      BY <1>1, <1>3, <1>5 DEF ManagerInv, SequenceInv
    <3>2. \A j : NameAt(executionOrder, j)' = NameAt(executionOrder, j)
      BY DEF NameAt
    <3>3. Len(executionOrder) \in Nat
      BY <1>1 DEF ManagerInv, OrderPart, IInv, TypeOK
    <3> QED BY <1>1, <1>5, <3>1, <3>2, <3>3
  <2>3. ASSUME NEW k, NEW j \in DOMAIN results, NEW l \in Nat, l <= at, Replaced(k, j, l)
        PROVE  Replaced(k, j, l)'
    BY <1>1, <1>5, <2>3 DEF Replaced
  <2>4. ASSUME NEW j \in DOMAIN results', results'[j].outcome = "ran", NEW k \in Outputs(results'[j].name)
        PROVE  results'[j].name \in ctx'.shared[k] \/ Replaced(k, j, Len(results) + 1)'
    <3>1. j \in DOMAIN results /\ results'[j] = results[j]
      BY <1>3, <1>5, <2>4
    <3>2. results[j].name \in ctx.shared[k] \/ Replaced(k, j, at)
      <4>1. Len(results) + 1 = at
        BY <1>1
      <4> QED BY <2>4, <3>1, <4>1 DEF ManagerInv, SequenceInv
    <3>3. ASSUME Replaced(k, j, at)
          PROVE  Replaced(k, j, Len(results) + 1)'
      <4>1. PICK m \in (j + 1) .. (at - 1) : k \in Effect[results[m].name].fresh
        BY <3>3 DEF Replaced
      <4>2. m \in DOMAIN results /\ m \in (j + 1) .. (Len(results') + 1 - 1)
        BY <1>1, <1>5, <3>1, <4>1
      <4>3. k \in Effect[results'[m].name].fresh
        BY <1>5, <4>1, <4>2
      <4> QED BY <4>2, <4>3 DEF Replaced
    <3> QED BY <3>1, <3>2, <3>3
  <2>5. OutputsReachDependents'
    <3> SUFFICES ASSUME NEW j \in DOMAIN results', NEW l \in DOMAIN results', j < l,
                        results'[j].outcome = "ran", results'[l].outcome # "cached",
                        results'[j].name \in Deps(results'[l].name),
                        NEW k \in Outputs(results'[j].name) \cap Effect[results'[l].name].reads
                 PROVE  results'[j].name \in results'[l].saw[k] \/ Replaced(k, j, l)'
      BY DEF OutputsReachDependents, Outputs
    <3>1. /\ j \in DOMAIN results /\ l \in DOMAIN results /\ l \in Nat /\ l <= at
          /\ results'[j] = results[j] /\ results'[l] = results[l]
      BY <1>1, <1>3, <1>5
    <3>2. results[j].name \in results[l].saw[k] \/ Replaced(k, j, l)
      BY <3>1 DEF ManagerInv, SequenceInv, OutputsReachDependents
    <3> QED BY <2>3, <3>1, <3>2
  <2>6. \A a, b \in AllIssues(ctx') : a.id = b.id => a = b
    BY DEF ManagerInv, SequenceInv
  <2> QED BY <2>1, <2>4, <2>5, <2>6 DEF SequenceInv, Outputs
<1>13. LevelsInv'
  BY <1>0 DEF LevelsInv
<1> QED BY <1>6, <1>7, <1>8, <1>9, <1>10, <1>11, <1>12, <1>13 DEF ManagerInv

LEMMA RunNextInv ==
  ASSUME ManagerInv, Distinct, RunNext
  PROVE  ManagerInv'
<1> DEFINE i == executionOrder[at]
           n == Current
           r == Result(n, "ran", ctx)
           w == Finished(ctx, i)
<1>0. /\ pc = "sequence" /\ at <= Len(executionOrder) /\ at' = at + 1
      /\ UNCHANGED <<vars, pc, parallel, completed, level, prior, version>>
      /\ UNCHANGED <<passes, executionOrder, status>>
      /\ OrderPart /\ RunTypeOK /\ ResultsInv /\ WritersInv /\ ReadsInv /\ IdsInv /\ SequenceInv
  BY DEF RunNext, vars, ManagerInv
<1>1. /\ i \in DOMAIN passes /\ n = passes[i].name /\ n \in Name /\ n \in Registered
      /\ n = NameAt(executionOrder, at) /\ at \in DOMAIN executionOrder
      /\ Len(results) = at - 1 /\ at \in Nat
      /\ ~Has(results, n) /\ \A d \in Deps(n) \cap Registered : Has(results, d)
  BY <1>0, CurrentFacts
<1>2. /\ ctx' = w /\ results' = Append(results, r)
      /\ cache' \in {cache, cache \cup {[key |-> CacheKey(n), result |-> r]}}
  BY DEF RunNext
<1>3. /\ ctx \in Context /\ version \in Nat /\ results \in Seq(ResultSet)
  BY <1>0 DEF RunTypeOK
<1>31. w = Finished(ctx, i) /\ r = Result(n, "ran", ctx)
  OBVIOUS
<1> HIDE DEF i, n, r, w
<1>4. /\ Kept(n, i, ctx, w)
      /\ \A k \in Effect[n].fresh : w.shared[k] = {n}
      /\ \A k \in Effect[n].extended \ Effect[n].fresh : w.shared[k] = ctx.shared[k] \cup {n}
  <2>1. OrderPart /\ Distinct /\ ctx \in Context /\ i \in DOMAIN passes
    BY <1>0, <1>1, <1>3
  <2>2. n = passes[i].name /\ w = Finished(ctx, i)
    BY <1>1, <1>31
  <2> QED BY <2>1, <2>2, FinishedFacts
<1>5. /\ r \in ResultSet /\ r.name = n /\ r.outcome = "ran"
      /\ \A k \in Effect[n].reads : r.saw[k] = ctx.shared[k]
  BY <1>1, <1>3, <1>31, ResultFacts
<1>6. /\ results' \in Seq(ResultSet) /\ Len(results') = at /\ DOMAIN results = 1 .. (at - 1)
      /\ DOMAIN results' = 1 .. at /\ results'[at] = r /\ \A j \in DOMAIN results : results'[j] = results[j]
      /\ \A j \in DOMAIN results' : j = at \/ j \in DOMAIN results
  BY <1>1, <1>2, <1>3, <1>5, AppendFacts
<1>7. OrderPart'
  BY <1>0, OrderPartSame
<1>8. RunTypeOK'
  <2>1. ctx' \in Context
    BY <1>2, <1>4 DEF Kept
  <2>2. \A e \in cache' : e.result \in ResultSet
                          /\ e.key = [pass |-> e.result.name, version |-> e.result.version]
    <3>1. r.version = version
      BY <1>31 DEF Result
    <3>2. \A e \in cache' : e \in cache \/ e = [key |-> CacheKey(n), result |-> r]
      BY <1>2
    <3>3. CacheKey(n) = [pass |-> r.name, version |-> r.version]
      BY <1>5, <3>1 DEF CacheKey
    <3>4. \A e \in cache : e.result \in ResultSet
                           /\ e.key = [pass |-> e.result.name, version |-> e.result.version]
      BY <1>0 DEF RunTypeOK
    <3>5. ASSUME NEW e, e = [key |-> CacheKey(n), result |-> r]
          PROVE  e.result = r /\ e.key = CacheKey(n)
      BY <3>5
    <3> QED BY <1>5, <3>2, <3>3, <3>4, <3>5
  <2> QED BY <1>0, <1>1, <1>6, <2>1, <2>2 DEF RunTypeOK
<1>9. ResultsInv'
  BY <1>0, <1>1, <1>2, <1>3, <1>5, AppendResult
<1>10. \A k, d : Sole(k, d) /\ DidRun(results, d) => ctx.shared[k] = {d}
  BY <1>0 DEF WritersInv
<1>11. ReadsInv'
  <2>1. \A k \in Effect[r.name].reads, d \in Deps(r.name) :
          Sole(k, d) /\ r.outcome # "cached" /\ DidRun(results, d) => r.saw[k] = {d}
    BY <1>5, <1>10
  <2> QED BY <1>0, <1>1, <1>2, <1>3, <1>5, <2>1, AppendReads
<1>12. IdsInv' /\ \A a, b \in AllIssues(ctx') : a.id = b.id => a = b
  <2>1. /\ \A a \in AllIssues(w) : a.id < w.nextId
        /\ \A a, b \in AllIssues(w) : a.id = b.id => a = b
    BY <1>0, <1>3, <1>4, KeptIds DEF IdsInv, SequenceInv
  <2>2. \A a \in AllIssues(w) : a.by \in DOMAIN passes
    BY <1>0, <1>1, <1>4 DEF Kept, IdsInv
  <2>3. AllIssues(ctx)' = AllIssues(w)
    BY <1>2 DEF AllIssues
  <2> QED BY <1>0, <1>2, <2>1, <2>2, <2>3 DEF IdsInv, DependentIdsDiffer
<1>13. WritersInv'
  <2> SUFFICES ASSUME NEW k, NEW d, Sole(k, d)
               PROVE  /\ w.shared[k] \subseteq {d}
                      /\ w.shared[k] = {d} => Has(results', d)
                      /\ DidRun(results', d) => w.shared[k] = {d}
    BY <1>0, <1>2, SameRegistered DEF WritersInv, Has, DidRun
  <2>1. /\ ctx.shared[k] \subseteq {d}
        /\ ctx.shared[k] = {d} => Has(results, d)
        /\ DidRun(results, d) => ctx.shared[k] = {d}
    BY <1>0 DEF WritersInv
  <2>2. k \in Key /\ k \in Outputs(d) /\ \A m \in Registered : m # d => k \notin Outputs(m)
    BY <1>0, SoleFacts
  <2>3. CASE d = n
    <3>1. w.shared[k] = {n}
      BY <1>4, <2>1, <2>2, <2>3 DEF Outputs
    <3>2. Has(results', n)
      BY <1>1, <1>5, <1>6 DEF Has
    <3> QED BY <2>3, <3>1, <3>2
  <2>4. CASE d # n
    <3>1. w.shared[k] = ctx.shared[k]
      BY <1>1, <1>4, <2>2, <2>4 DEF Kept
    <3>2. (Has(results, d) => Has(results', d)) /\ (DidRun(results', d) => DidRun(results, d))
      BY <1>5, <1>6, <2>4 DEF Has, DidRun
    <3> QED BY <2>1, <3>1, <3>2
  <2> QED BY <2>3, <2>4
<1>14. ASSUME NEW k, NEW j \in DOMAIN results, NEW l \in Nat, l <= at, Replaced(k, j, l)
       PROVE  \E m \in (j + 1) .. (l - 1) : k \in Effect[results'[m].name].fresh
  <2>1. PICK m \in (j + 1) .. (l - 1) : k \in Effect[results[m].name].fresh
    BY <1>14 DEF Replaced
  <2>2. m \in DOMAIN results
    BY <1>1, <1>6, <1>14, <2>1
  <2> QED BY <1>6, <2>1, <2>2
<1>15. SequenceInv'
  <2>1. /\ Len(results') = at' - 1 /\ at' <= Len(executionOrder') + 1
        /\ \A j \in DOMAIN results' : results'[j].name = NameAt(executionOrder, j)'
    <3>1. \A j \in DOMAIN results' : results'[j].name = NameAt(executionOrder, j)
      BY <1>0, <1>1, <1>5, <1>6 DEF SequenceInv
    <3>2. \A j : NameAt(executionOrder, j)' = NameAt(executionOrder, j)
      BY <1>0 DEF NameAt
    <3>3. Len(executionOrder) \in Nat
      BY <1>0 DEF OrderPart, IInv, TypeOK
    <3> QED BY <1>0, <1>1, <1>6, <3>1, <3>2, <3>3
  <2>2. \A j \in DOMAIN results : results[j].outcome = "ran" =>
          \A k \in Outputs(results[j].name) : results[j].name \in ctx.shared[k] \/ Replaced(k, j, at)
    <3>1. Len(results) + 1 = at
      BY <1>1
    <3> QED BY <1>0, <3>1 DEF SequenceInv
  <2>3. ASSUME NEW j \in DOMAIN results', results'[j].outcome = "ran", NEW k \in Outputs(results'[j].name)
        PROVE  \/ results'[j].name \in w.shared[k]
               \/ \E m \in (j + 1) .. at : k \in Effect[results'[m].name].fresh
    <3>1. CASE j = at
      BY <1>4, <1>5, <1>6, <2>3, <3>1 DEF Outputs
    <3>2. CASE j \in DOMAIN results
      <4>1. results'[j] = results[j] /\ j \in Nat /\ j < at
        BY <1>1, <1>6, <3>2
      <4>2. CASE Replaced(k, j, at)
        BY <1>1, <1>14, <3>2, <4>1, <4>2
      <4>3. CASE results[j].name \in ctx.shared[k]
        <5>1. CASE k \in Effect[n].fresh
          BY <1>1, <1>5, <1>6, <4>1, <5>1
        <5>2. CASE k \notin Effect[n].fresh
          <6>1. k \in Key
            <7>1. results[j].name \in Name
              BY <1>0, <3>2, RegisteredFacts DEF ResultsInv
            <7> QED BY <2>3, <4>1, <7>1, OutputsAreKeys
          <6> QED BY <1>4, <4>1, <4>3, <5>2, <6>1 DEF Kept, Outputs
        <5> QED BY <5>1, <5>2
      <4> QED BY <2>2, <2>3, <3>2, <4>1, <4>2, <4>3
    <3> QED BY <1>6, <3>1, <3>2
  <2>4. \A j \in DOMAIN results' : results'[j].outcome = "ran" =>
          \A k \in Outputs(results'[j].name) :
            results'[j].name \in ctx'.shared[k] \/ Replaced(k, j, Len(results) + 1)'
    <3>1. Len(results') + 1 - 1 = at
      BY <1>1, <1>6
    <3> QED BY <1>2, <2>3, <3>1 DEF Replaced
  <2>5. OutputsReachDependents'
    <3> SUFFICES ASSUME NEW j \in DOMAIN results', NEW l \in DOMAIN results', j < l,
                        results'[j].outcome = "ran", results'[l].outcome # "cached",
                        results'[j].name \in Deps(results'[l].name),
                        NEW k \in Outputs(results'[j].name) \cap Effect[results'[l].name].reads
                 PROVE  \/ results'[j].name \in results'[l].saw[k]
                        \/ \E m \in (j + 1) .. (l - 1) : k \in Effect[results'[m].name].fresh
      BY <1>0, SameRegistered DEF OutputsReachDependents, Outputs, Replaced
    <3>1. j \in DOMAIN results /\ results'[j] = results[j] /\ l \in Nat /\ l <= at
      BY <1>1, <1>6
    <3>2. results[j].name \in results'[l].saw[k] \/ Replaced(k, j, l)
      <4>1. CASE l = at
        BY <1>5, <1>6, <2>2, <3>1, <4>1
      <4>2. CASE l \in DOMAIN results
        BY <1>0, <1>6, <3>1, <4>2 DEF SequenceInv, OutputsReachDependents
      <4> QED BY <1>6, <4>1, <4>2
    <3> QED BY <1>14, <3>1, <3>2
  <2> QED BY <1>0, <1>12, <2>1, <2>4, <2>5 DEF SequenceInv, Outputs
<1>16. LevelsInv'
  BY <1>0 DEF LevelsInv
<1> QED BY <1>7, <1>8, <1>9, <1>11, <1>12, <1>13, <1>15, <1>16 DEF ManagerInv

(* A failed pass leaves part of its work, and the run ends.                *)
LEMMA RunFailsInv ==
  ASSUME ManagerInv, Distinct, RunFails
  PROVE  ManagerInv'
<1> DEFINE i == executionOrder[at]
           n == Current
<1>0. /\ pc = "sequence" /\ at <= Len(executionOrder)
      /\ pc' = "idle" /\ prior' = prior
      /\ UNCHANGED <<vars, at, level, results, cache, version>>
      /\ UNCHANGED <<passes, executionOrder, status>>
      /\ OrderPart /\ RunTypeOK /\ ResultsInv /\ ReadsInv /\ IdsInv /\ SequenceInv
  BY DEF RunFails, Return, vars, envVars, ManagerInv
<1>1. i \in DOMAIN passes /\ n = passes[i].name
  BY <1>0, CurrentFacts
<1>2. PICK keys \in SUBSET Outputs(n), m \in 0 .. Len(Effect[n].issues) :
        ctx' = Abandoned(ctx, i, keys, m)
  BY DEF RunFails
<1> DEFINE w == Abandoned(ctx, i, keys, m)
<1>3. w = Abandoned(ctx, i, keys, m) /\ ctx' = w
  BY <1>2
<1> HIDE DEF i, n, w
<1>4. ctx \in Context /\ Distinct
  BY <1>0 DEF RunTypeOK
<1>5. Kept(n, i, ctx, w)
  BY <1>0, <1>1, <1>3, <1>4, AbandonedFacts
<1>6. IdsInv'
  <2>1. /\ \A a \in AllIssues(w) : a.id < w.nextId
        /\ \A a, b \in AllIssues(w) : a.id = b.id => a = b
    BY <1>0, <1>4, <1>5, KeptIds DEF IdsInv, SequenceInv
  <2>2. \A a \in AllIssues(w) : a.by \in DOMAIN passes
    BY <1>0, <1>1, <1>5 DEF Kept, IdsInv
  <2>3. AllIssues(ctx)' = AllIssues(w)
    BY <1>3 DEF AllIssues
  <2> QED BY <1>0, <1>3, <2>1, <2>2, <2>3 DEF IdsInv, DependentIdsDiffer
<1>7. OrderPart'
  BY <1>0, OrderPartSame
<1>8. RunTypeOK'
  BY <1>0, <1>3, <1>5 DEF RunTypeOK, Kept
<1>9. ResultsInv' /\ ReadsInv'
  BY <1>0, SameRegistered DEF ResultsInv, DependenciesRunFirst, ReadsInv, ReadsSole, AllRan
<1>10. WritersInv' /\ SequenceInv' /\ LevelsInv'
  BY <1>0 DEF WritersInv, SequenceInv, LevelsInv
<1> QED BY <1>6, <1>7, <1>8, <1>9, <1>10 DEF ManagerInv

-----------------------------------------------------------------------------
(* Before and after the passes. *)

LEMMA ReturnInv ==
  ASSUME ManagerInv, UNCHANGED <<vars, ctx, level, at, results, envVars>>,
         prior' \in {prior, results}, pc' \in {"idle", "ordering"}
  PROVE  ManagerInv'
<1>0. UNCHANGED <<passes, executionOrder, status, cache, version>>
  BY DEF vars, envVars
<1>1. OrderPart'
  BY OrderPartSame DEF ManagerInv
<1>2. RunTypeOK'
  BY <1>0 DEF ManagerInv, RunTypeOK
<1> QED BY <1>0, <1>1, <1>2, QuietInv

(* compute_order touches neither the context nor the results.              *)
LEMMA OrderingInv ==
  ASSUME ManagerInv, Start \/ Order
  PROVE  ManagerInv'
<1>0. /\ passes' = passes /\ pc' = "ordering" /\ [Next]_vars
      /\ UNCHANGED <<ctx, at, level, results, prior, cache, version>>
  <2>1. CASE Start
    BY <2>1 DEF Start, ComputeOrder, Next
  <2>2. CASE Order
    <3>1. passes' = passes
      BY <2>2 DEF Order, SearchStep, VisitNext, VisitDependency, Visit, FinishVisit, InstallOrder
    <3> QED BY <2>2, <3>1 DEF Order, runVars, envVars, Next
  <2> QED BY <2>1, <2>2
<1>1. OrderPart'
  BY <1>0, OrderPartStep DEF ManagerInv
<1>2. RunTypeOK'
  BY <1>0 DEF ManagerInv, RunTypeOK
<1> QED BY <1>0, <1>1, <1>2, QuietInv

LEMMA NewContextFacts ==
  ASSUME NEW w, w = NewContext(Inputs)
  PROVE  /\ w \in Context /\ AllIssues(w) = {}
         /\ \A k \in Key : k \notin Inputs => w.shared[k] = {}
BY InputAssumption DEF NewContext, Context, AllIssues

LEMMA BeginInv ==
  ASSUME ManagerInv, Begin
  PROVE  ManagerInv'
<1> DEFINE w == NewContext(Inputs)
<1>0. /\ pc = "ordering" /\ status = "ok" /\ pc' \in {"sequence", "levels"}
      /\ ctx' = w /\ at' = 1 /\ completed' = {} /\ level' = NoLevel /\ results' = <<>>
      /\ UNCHANGED <<vars, prior, cache, version>>
      /\ UNCHANGED <<passes, executionOrder, status>>
      /\ OrderPart /\ RunTypeOK /\ ReadsInv
  BY DEF Begin, vars, envVars, ManagerInv
<1>1. w = NewContext(Inputs)
  OBVIOUS
<1> HIDE DEF w
<1>2. /\ w \in Context /\ AllIssues(w) = {}
      /\ \A k \in Key : k \notin Inputs => w.shared[k] = {}
  BY <1>1, NewContextFacts
<1>3. AllIssues(ctx)' = {}
  BY <1>0, <1>2 DEF AllIssues
<1>4. DOMAIN results' = {} /\ Len(results') = 0 /\ results' \in Seq(ResultSet)
  BY <1>0
<1>5. level' \in [DOMAIN level' -> Local] /\ DOMAIN level' = {}
  BY <1>0 DEF NoLevel
<1>6. OrderPart'
  BY <1>0, OrderPartStep DEF OrderPart
<1>7. RunTypeOK'
  BY <1>0, <1>2, <1>4, <1>5 DEF RunTypeOK
<1>8. ResultsInv'
  BY <1>4 DEF ResultsInv, DependenciesRunFirst
<1>9. ReadsInv'
  <2>1. ReadsSole(results)'
    BY <1>4 DEF ReadsSole
  <2>2. ReadsSole(prior)'
    BY <1>0, SameRegistered DEF ReadsInv, ReadsSole, AllRan
  <2> QED BY <2>1, <2>2 DEF ReadsInv
<1>10. IdsInv'
  BY <1>3 DEF IdsInv, DependentIdsDiffer
<1>11. WritersInv'
  <2>1. ASSUME NEW k, NEW d, Sole(k, d)
        PROVE  w.shared[k] = {}
    BY <1>0, <1>2, <2>1, SoleFacts
  <2> QED BY <1>0, <1>4, <2>1, SameRegistered DEF WritersInv, Has, DidRun
<1>12. SequenceInv'
  <2>1. Len(executionOrder) \in Nat
    BY <1>0 DEF OrderPart, IInv, TypeOK
  <2>2. OutputsReachDependents'
    BY <1>4 DEF OutputsReachDependents
  <2>3. at' <= Len(executionOrder)' + 1 /\ Len(results') = at' - 1
    BY <1>0, <1>4, <2>1
  <2> QED BY <1>3, <1>4, <2>2, <2>3 DEF SequenceInv
<1>13. LevelsInv'
  BY <1>0, <1>3, <1>4, <1>5 DEF LevelsInv
<1> QED BY <1>6, <1>7, <1>8, <1>9, <1>10, <1>11, <1>12, <1>13 DEF ManagerInv

-----------------------------------------------------------------------------
(* Level by level. *)

LEMMA StartLevelInv ==
  ASSUME ManagerInv, Distinct, StartLevel
  PROVE  ManagerInv'
<1>0. /\ pc = "levels"
      /\ UNCHANGED <<vars, pc, ctx, at, completed, results, prior, cache, version>>
      /\ UNCHANGED <<passes, executionOrder, status>>
      /\ OrderPart /\ RunTypeOK /\ ResultsInv /\ WritersInv /\ ReadsInv /\ IdsInv /\ LevelsInv
      /\ level' = [i \in Ready |-> [ctx |-> CloneForParallel(ctx), ran |-> FALSE,
                                    result |-> Result(passes[i].name, "ran", ctx)]]
  BY DEF StartLevel, vars, envVars, ManagerInv
<1> DEFINE c == CloneForParallel(ctx)
<1>1. ctx \in Context /\ version \in Nat
  BY <1>0 DEF RunTypeOK
<1>2. /\ c \in Context /\ c.shared = ctx.shared /\ c.nextId = ctx.nextId /\ AllIssues(c) = {}
  BY <1>1 DEF CloneForParallel, Context, AllIssues
<1> HIDE DEF c
<1>3. ASSUME NEW i \in Ready
      PROVE  /\ i \in DOMAIN passes /\ passes[i].name \in Name
             /\ passes[i].name \notin completed /\ passes[i].deps \subseteq completed
             /\ level'[i].ctx = c /\ level'[i].ran = FALSE
             /\ level'[i].result \in ResultSet /\ level'[i].result.name = passes[i].name
             /\ \A k \in Effect[passes[i].name].reads : level'[i].result.saw[k] = ctx.shared[k]
             /\ level'[i] \in Local
  <2> DEFINE r == Result(passes[i].name, "ran", ctx)
  <2>1. i \in DOMAIN passes /\ passes[i].name \notin completed /\ passes[i].deps \subseteq completed
    BY DEF Ready
  <2>2. passes[i].name \in Name
    BY <1>0, <2>1, PassFacts
  <2>3. level'[i] = [ctx |-> c, ran |-> FALSE, result |-> r]
    BY <1>0 DEF c
  <2>4. r = Result(passes[i].name, "ran", ctx)
    OBVIOUS
  <2> HIDE DEF r
  <2>5. /\ r \in ResultSet /\ r.name = passes[i].name
        /\ \A k \in Effect[passes[i].name].reads : r.saw[k] = ctx.shared[k]
    BY <1>1, <2>2, <2>4, ResultFacts
  <2>6. [ctx |-> c, ran |-> FALSE, result |-> r] \in Local
    BY <1>2, <2>5 DEF Local
  <2> QED BY <2>1, <2>2, <2>3, <2>5, <2>6
<1>4. DOMAIN level' = Ready /\ level' = [i \in DOMAIN level' |-> level'[i]]
  BY <1>0
<1>5. ASSUME NEW i \in Ready
      PROVE  LocalInv(i)'
  <2>1. ASSUME NEW k, NEW d, Sole(k, d)
        PROVE  /\ ctx.shared[k] \subseteq {d}
               /\ DidRun(results, d) => ctx.shared[k] = {d}
    BY <1>0, <2>1 DEF WritersInv
  <2>2. LocalKeys(i)'
    <3>1. /\ \A k, d : Sole(k, d)' = Sole(k, d)
          /\ \A d : DidRun(results, d)' = DidRun(results, d)
      BY <1>0, SameRegistered DEF DidRun
    <3>2. ASSUME NEW k, NEW d, Sole(k, d)
          PROVE  /\ level'[i].ctx.shared[k] = ctx.shared[k] /\ ~level'[i].ran
                 /\ ctx.shared[k] \subseteq {d}
                 /\ DidRun(results, d) => ctx.shared[k] = {d}
                 /\ k \in Effect[passes[i].name].reads => level'[i].result.saw[k] = ctx.shared[k]
      BY <1>2, <1>3, <2>1, <3>2
    <3> QED BY <1>0, <3>1, <3>2 DEF LocalKeys
  <2>3. LocalIds(i)'
    <3>1. AllIssues(level'[i].ctx) = {} /\ level'[i].ctx.nextId = ctx.nextId
      BY <1>2, <1>3
    <3>2. \A b \in AllIssues(ctx') : b.id < ctx.nextId
      BY <1>0 DEF IdsInv
    <3> QED BY <3>1, <3>2 DEF LocalIds, AllIssues
  <2> QED BY <1>0, <1>3, <2>2, <2>3 DEF LocalInv
<1>6. OrderPart'
  BY <1>0, OrderPartSame
<1>7. RunTypeOK'
  <2>1. level' \in [DOMAIN level' -> Local] /\ DOMAIN level' \subseteq DOMAIN passes'
    BY <1>0, <1>3, <1>4
  <2> QED BY <1>0, <2>1 DEF RunTypeOK
<1>8. ResultsInv' /\ ReadsInv' /\ IdsInv'
  BY <1>0, SameRegistered DEF ResultsInv, DependenciesRunFirst, ReadsInv, ReadsSole, AllRan,
                              IdsInv, DependentIdsDiffer
<1>9. WritersInv'
  BY <1>0, SameRegistered DEF WritersInv, Has, DidRun
<1>10. SequenceInv'
  BY <1>0 DEF SequenceInv
<1>11. LevelsInv'
  BY <1>0, <1>4, <1>5 DEF LevelsInv
<1> QED BY <1>6, <1>7, <1>8, <1>9, <1>10, <1>11 DEF ManagerInv

(* What a thread leaves in its copy, whether it succeeds or fails.         *)
LEMMA ThreadFacts ==
  ASSUME ManagerInv, Distinct, pc = "levels", NEW i \in DOMAIN level, RunThread(i),
         NEW n, n = passes[i].name
  PROVE  /\ Kept(n, i, level[i].ctx, level'[i].ctx)
         /\ level'[i].ran = TRUE /\ level'[i] \in Local /\ level'[i].result.name = n
         /\ \A k \in Effect[n].reads : level'[i].result.saw[k] = level[i].ctx.shared[k]
         /\ level'[i].result.outcome = "ran" =>
              /\ \A k \in Effect[n].fresh : level'[i].ctx.shared[k] = {n}
              /\ \A k \in Effect[n].extended \ Effect[n].fresh :
                   level'[i].ctx.shared[k] = level[i].ctx.shared[k] \cup {n}
         /\ DOMAIN level' = DOMAIN level /\ level' = [j \in DOMAIN level' |-> level'[j]]
         /\ \A j \in DOMAIN level : j # i => level'[j] = level[j]
<1> DEFINE c == level[i].ctx
<1>1. /\ OrderPart /\ version \in Nat /\ i \in DOMAIN passes
      /\ c \in Context /\ level \in [DOMAIN level -> Local]
  <2>1. level[i] \in Local
    BY DEF ManagerInv, RunTypeOK
  <2> QED BY <2>1 DEF ManagerInv, RunTypeOK, Local
<1>2. n \in Name
  BY <1>1, PassFacts
<1> HIDE DEF c
<1>3. CASE level' = [level EXCEPT ![i] = [ctx |-> Finished(c, i), ran |-> TRUE,
                                          result |-> Result(n, "ran", c)]]
  <2> DEFINE w == Finished(c, i)
             r == Result(n, "ran", c)
  <2>1. w = Finished(c, i) /\ r = Result(n, "ran", c)
    OBVIOUS
  <2>2. level' = [level EXCEPT ![i] = [ctx |-> w, ran |-> TRUE, result |-> r]]
    BY <1>3
  <2> HIDE DEF w, r
  <2>3. /\ Kept(n, i, c, w)
        /\ \A k \in Effect[n].fresh : w.shared[k] = {n}
        /\ \A k \in Effect[n].extended \ Effect[n].fresh : w.shared[k] = c.shared[k] \cup {n}
    <3>1. OrderPart /\ Distinct /\ c \in Context /\ i \in DOMAIN passes
      BY <1>1
    <3>2. n = passes[i].name /\ w = Finished(c, i)
      BY <2>1
    <3> QED BY <3>1, <3>2, FinishedFacts
  <2>4. /\ r \in ResultSet /\ r.name = n /\ r.outcome = "ran"
        /\ \A k \in Effect[n].reads : r.saw[k] = c.shared[k]
    BY <1>1, <1>2, <2>1, ResultFacts
  <2>5. /\ level'[i] = [ctx |-> w, ran |-> TRUE, result |-> r]
        /\ DOMAIN level' = DOMAIN level /\ level' = [j \in DOMAIN level' |-> level'[j]]
        /\ \A j \in DOMAIN level : j # i => level'[j] = level[j]
    BY <1>1, <2>2
  <2>6. level'[i] \in Local
    BY <2>3, <2>4, <2>5 DEF Kept, Local
  <2>7. level'[i].ctx = w /\ level'[i].ran = TRUE /\ level'[i].result = r
    BY <2>5
  <2> QED BY <2>3, <2>4, <2>5, <2>6, <2>7 DEF c
<1>4. CASE \E keys \in SUBSET Outputs(n), m \in 0 .. Len(Effect[n].issues) :
             level' = [level EXCEPT ![i] = [ctx |-> Abandoned(c, i, keys, m), ran |-> TRUE,
                                            result |-> Result(n, "failed", c)]]
  <2>1. PICK keys \in SUBSET Outputs(n), m \in 0 .. Len(Effect[n].issues) :
             level' = [level EXCEPT ![i] = [ctx |-> Abandoned(c, i, keys, m), ran |-> TRUE,
                                            result |-> Result(n, "failed", c)]]
    BY <1>4
  <2> DEFINE w == Abandoned(c, i, keys, m)
             r == Result(n, "failed", c)
  <2>2. w = Abandoned(c, i, keys, m) /\ r = Result(n, "failed", c)
    OBVIOUS
  <2>3. level' = [level EXCEPT ![i] = [ctx |-> w, ran |-> TRUE, result |-> r]]
    BY <2>1
  <2> HIDE DEF w, r
  <2>4. Kept(n, i, c, w)
    <3>1. OrderPart /\ Distinct /\ c \in Context /\ i \in DOMAIN passes
      BY <1>1
    <3>2. n = passes[i].name /\ w = Abandoned(c, i, keys, m)
      BY <2>2
    <3> QED BY <3>1, <3>2, AbandonedFacts
  <2>5. /\ r \in ResultSet /\ r.name = n /\ r.outcome = "failed"
        /\ \A k \in Effect[n].reads : r.saw[k] = c.shared[k]
    BY <1>1, <1>2, <2>2, ResultFacts
  <2>6. /\ level'[i] = [ctx |-> w, ran |-> TRUE, result |-> r]
        /\ DOMAIN level' = DOMAIN level /\ level' = [j \in DOMAIN level' |-> level'[j]]
        /\ \A j \in DOMAIN level : j # i => level'[j] = level[j]
    BY <1>1, <2>3
  <2>7. level'[i] \in Local
    BY <2>4, <2>5, <2>6 DEF Kept, Local
  <2>8. level'[i].ctx = w /\ level'[i].ran = TRUE /\ level'[i].result = r
    BY <2>6
  <2> QED BY <2>4, <2>5, <2>6, <2>7, <2>8 DEF c
<1> QED BY <1>3, <1>4 DEF RunThread, c

LEMMA RunThreadInv ==
  ASSUME ManagerInv, Distinct, pc = "levels", NEW i \in DOMAIN level, RunThread(i)
  PROVE  ManagerInv'
<1> DEFINE n == passes[i].name
           c == level[i].ctx
           w == level'[i].ctx
           res == level'[i].result
<1>0. /\ UNCHANGED <<vars, pc, ctx, at, completed, results, prior, cache, version>>
      /\ UNCHANGED <<passes, executionOrder, status>> /\ ~level[i].ran
      /\ OrderPart /\ RunTypeOK /\ ResultsInv /\ WritersInv /\ ReadsInv /\ IdsInv /\ LevelsInv
  BY DEF RunThread, vars, envVars, ManagerInv
<1>1. i \in DOMAIN passes /\ LocalInv(i) /\ c \in Context /\ n \in Name
      /\ passes[i].deps \subseteq Name /\ n \in Registered
  <2>1. level[i] \in Local /\ i \in DOMAIN passes
    BY <1>0 DEF RunTypeOK
  <2> QED BY <1>0, <2>1, PassFacts DEF LevelsInv, Local
<1>2. n = passes[i].name
  OBVIOUS
<1>3. /\ Kept(n, i, c, w)
      /\ level'[i].ran = TRUE /\ level'[i] \in Local /\ res.name = n
      /\ \A k \in Effect[n].reads : res.saw[k] = c.shared[k]
      /\ res.outcome = "ran" =>
           /\ \A k \in Effect[n].fresh : w.shared[k] = {n}
           /\ \A k \in Effect[n].extended \ Effect[n].fresh : w.shared[k] = c.shared[k] \cup {n}
      /\ DOMAIN level' = DOMAIN level /\ level' = [j \in DOMAIN level' |-> level'[j]]
      /\ \A j \in DOMAIN level : j # i => level'[j] = level[j]
  BY ThreadFacts
<1> HIDE DEF n, c, w, res
<1>4. OrderPart'
  BY <1>0, OrderPartSame
<1>5. RunTypeOK'
  <2>1. \A j \in DOMAIN level' : level'[j] \in Local
    BY <1>0, <1>3 DEF RunTypeOK
  <2>2. level' \in [DOMAIN level' -> Local] /\ DOMAIN level' \subseteq DOMAIN passes'
    BY <1>0, <1>3, <2>1 DEF RunTypeOK
  <2> QED BY <1>0, <2>2 DEF RunTypeOK
<1>6. ResultsInv' /\ ReadsInv' /\ IdsInv'
  BY <1>0, SameRegistered DEF ResultsInv, DependenciesRunFirst, ReadsInv, ReadsSole, AllRan,
                              IdsInv, DependentIdsDiffer
<1>7. WritersInv'
  BY <1>0, SameRegistered DEF WritersInv, Has, DidRun
<1>8. SequenceInv'
  BY <1>0 DEF SequenceInv
<1>9. \A k, d : Sole(k, d)' = Sole(k, d)
  BY <1>0, SameRegistered
<1>10. \A d : DidRun(results, d)' = DidRun(results, d)
  BY <1>0 DEF DidRun
<1>11. n \notin completed /\ passes[i].deps \subseteq completed /\ LocalKeys(i) /\ LocalIds(i)
  BY <1>1 DEF LocalInv, n
<1>12. LocalKeys(i)'
  <2>1. ASSUME NEW k, NEW d, Sole(k, d)
        PROVE  /\ d = n => /\ w.shared[k] \subseteq {d}
                           /\ res.outcome = "ran" => w.shared[k] = {d}
               /\ d # n => w.shared[k] \in {{}, ctx.shared[k]}
               /\ d \in passes[i].deps /\ DidRun(results, d) =>
                    /\ w.shared[k] = {d}
                    /\ k \in Effect[n].reads => res.saw[k] = {d}
    <3>1. k \in Key /\ k \in Outputs(d) /\ \A m \in Registered : m # d => k \notin Outputs(m)
      BY <1>0, <2>1, SoleFacts
    <3>2. /\ d = n => c.shared[k] \subseteq {d}
          /\ d # n => c.shared[k] \in {{}, ctx.shared[k]}
          /\ d \in passes[i].deps /\ DidRun(results, d) => c.shared[k] = {d}
      BY <1>11, <2>1 DEF LocalKeys, n, c
    <3>3. CASE d = n
      <4>1. w.shared[k] \subseteq {d}
        BY <1>3, <3>1, <3>2, <3>3 DEF Kept
      <4>2. res.outcome = "ran" => w.shared[k] = {d}
        BY <1>3, <3>1, <3>2, <3>3 DEF Outputs
      <4> QED BY <1>11, <3>3, <4>1, <4>2
    <3>4. CASE d # n
      <4>1. w.shared[k] = c.shared[k]
        BY <1>1, <1>3, <3>1, <3>4 DEF Kept, n
      <4> QED BY <1>3, <3>2, <3>4, <4>1
    <3> QED BY <3>3, <3>4
  <2> QED BY <1>0, <1>3, <1>9, <1>10, <2>1 DEF LocalKeys, n, w, res
<1>13. LocalIds(i)'
  <2>1. AllIssues(c) = {} /\ \A b \in AllIssues(ctx) : passes[b.by].name \in passes[i].deps => b.id < c.nextId
    BY <1>0, <1>11 DEF LocalIds, c
  <2>2. /\ \A a \in AllIssues(w) : a.by = i /\ c.nextId <= a.id /\ a.id < w.nextId
        /\ \A a, b \in AllIssues(w) : a.id = b.id => a = b
        /\ c.nextId <= w.nextId
    BY <1>3, <2>1 DEF Kept
  <2>3. /\ c.nextId \in Nat /\ w.nextId \in Nat
        /\ \A a \in AllIssues(w) : a.id \in Nat
        /\ \A b \in AllIssues(ctx) : b.id \in Nat
    BY <1>0, <1>1, <1>3 DEF Kept, Context, Emitted, AllIssues, RunTypeOK
  <2>4. \A b \in AllIssues(ctx) : passes[b.by].name \in passes[i].deps =>
          b.id < w.nextId /\ \A a \in AllIssues(w) : b.id < a.id
    BY <2>1, <2>2, <2>3
  <2>5. AllIssues(level'[i].ctx) = AllIssues(w) /\ level'[i].ctx = w /\ level'[i].ran = TRUE
        /\ AllIssues(ctx') = AllIssues(ctx)
    BY <1>0, <1>3 DEF w
  <2> QED BY <1>0, <2>2, <2>4, <2>5 DEF LocalIds, AllIssues
<1>14. ASSUME NEW j \in DOMAIN level', j # i
       PROVE  LocalInv(j)'
  <2>1. LocalInv(j) /\ level'[j] = level[j]
    BY <1>0, <1>3, <1>14 DEF LevelsInv
  <2>2. LocalKeys(j)'
    BY <1>0, <1>9, <1>10, <2>1 DEF LocalInv, LocalKeys
  <2>3. LocalIds(j)'
    BY <1>0, <2>1 DEF LocalInv, LocalIds, AllIssues
  <2> QED BY <1>0, <2>1, <2>2, <2>3 DEF LocalInv
<1>15. LocalInv(i)'
  BY <1>0, <1>3, <1>11, <1>12, <1>13 DEF LocalInv, n, res
<1>16. LevelsInv'
  BY <1>0, <1>14, <1>15 DEF LevelsInv, AllIssues
<1> QED BY <1>4, <1>5, <1>6, <1>7, <1>8, <1>16 DEF ManagerInv

(* Merging the next copy of the level into the context.                    *)
LEMMA MergeNextInv ==
  ASSUME ManagerInv, Distinct, MergeNext
  PROVE  ManagerInv'
<1>0. /\ pc = "levels" /\ \A j \in DOMAIN level : level[j].ran
      /\ UNCHANGED <<vars, pc, at, prior, cache, version>>
      /\ UNCHANGED <<passes, executionOrder, status>>
      /\ OrderPart /\ RunTypeOK /\ ResultsInv /\ WritersInv /\ ReadsInv /\ IdsInv /\ LevelsInv
  BY DEF MergeNext, vars, envVars, ManagerInv
<1>1. PICK i \in DOMAIN level :
        /\ ctx' = Merge(ctx, level[i].ctx)
        /\ results' = Append(results, level[i].result)
        /\ completed' = completed \cup {passes[i].name}
        /\ level' = [j \in DOMAIN level \ {i} |-> level[j]]
  BY DEF MergeNext
<1> DEFINE n == passes[i].name
           c == level[i].ctx
           w == Merge(ctx, c)
           r == level[i].result
<1>2. /\ i \in DOMAIN passes /\ LocalInv(i) /\ c \in Context /\ r \in ResultSet /\ ctx \in Context
      /\ results \in Seq(ResultSet) /\ level[i].ran
      /\ \A j \in DOMAIN level : level[j] \in Local /\ j \in DOMAIN passes
  <2>1. \A j \in DOMAIN level : level[j] \in Local /\ j \in DOMAIN passes
    BY <1>0 DEF RunTypeOK
  <2> QED BY <1>0, <2>1 DEF LevelsInv, RunTypeOK, Local
<1>3. /\ n \in Name /\ n \in Registered /\ Deps(n) = passes[i].deps /\ r.name = n
      /\ n \notin completed /\ Deps(n) \subseteq completed
      /\ completed = {results[j].name : j \in DOMAIN results}
      /\ LocalKeys(i) /\ LocalIds(i)
  BY <1>0, <1>2, PassFacts DEF LocalInv, LevelsInv
<1>4. w = Merge(ctx, c) /\ n = passes[i].name /\ r = level[i].result /\ c = level[i].ctx
  OBVIOUS
<1>5. ctx' = w /\ results' = Append(results, r) /\ completed' = completed \cup {n}
  BY <1>1
<1> HIDE DEF n, c, w, r
<1>6. /\ w \in Context
      /\ \A k \in Key : w.shared[k] = IF c.shared[k] # {} THEN c.shared[k] ELSE ctx.shared[k]
      /\ AllIssues(w) = AllIssues(ctx) \cup AllIssues(c)
      /\ ctx.nextId <= w.nextId /\ c.nextId <= w.nextId
  <2>1. ctx \in Context /\ c \in Context /\ w = Merge(ctx, c)
    BY <1>2, <1>4
  <2> QED BY <2>1, MergeFacts
<1>7. /\ results' \in Seq(ResultSet) /\ Len(results) \in Nat
      /\ DOMAIN results = 1 .. Len(results)
      /\ DOMAIN results' = 1 .. (Len(results) + 1) /\ results'[Len(results) + 1] = r
      /\ \A j \in DOMAIN results : results'[j] = results[j]
      /\ \A j \in DOMAIN results' : j = Len(results) + 1 \/ j \in DOMAIN results
  BY <1>2, <1>5, AppendFacts
<1>8. ~Has(results, n) /\ \A d : Has(results, d) <=> d \in completed
  BY <1>3 DEF Has
<1>9. /\ DOMAIN level' = DOMAIN level \ {i} /\ \A j \in DOMAIN level' : level'[j] = level[j]
      /\ level' \in [DOMAIN level' -> Local]
  BY <1>1, <1>2
<1>10. OrderPart'
  BY <1>0, OrderPartSame
<1>11. RunTypeOK'
  BY <1>0, <1>5, <1>6, <1>7, <1>9 DEF RunTypeOK
<1>12. ResultsInv'
  <2>1. \A d \in Deps(r.name) \cap Registered : Has(results, d)
    BY <1>3, <1>8
  <2> QED BY <1>0, <1>2, <1>3, <1>5, <1>8, <2>1, AppendResult
<1>13. ReadsInv'
  <2>1. \A d \in Deps(r.name) \cap Registered : Has(results, d)
    BY <1>3, <1>8
  <2>2. \A k \in Effect[r.name].reads, d \in Deps(r.name) :
          Sole(k, d) /\ r.outcome # "cached" /\ DidRun(results, d) => r.saw[k] = {d}
    BY <1>3, <1>4 DEF LocalKeys
  <2>3. UNCHANGED <<passes, prior>> /\ ~Has(results, r.name) /\ ReadsInv
    BY <1>0, <1>3, <1>8
  <2> QED BY <1>2, <1>5, <2>1, <2>2, <2>3, AppendReads
<1>14. \A k, d : Sole(k, d)' = Sole(k, d)
  BY <1>0, SameRegistered
<1>15. ASSUME NEW k, NEW d, Sole(k, d)
       PROVE  /\ ctx.shared[k] \subseteq {d}
              /\ ctx.shared[k] = {d} => Has(results, d)
              /\ DidRun(results, d) => ctx.shared[k] = {d}
              /\ d = n => /\ c.shared[k] \subseteq {d}
                          /\ r.outcome = "ran" => c.shared[k] = {d}
              /\ d # n => c.shared[k] \in {{}, ctx.shared[k]}
              /\ w.shared[k] = IF c.shared[k] # {} THEN c.shared[k] ELSE ctx.shared[k]
  <2>1. k \in Key
    BY <1>15 DEF Sole
  <2> QED BY <1>0, <1>2, <1>3, <1>4, <1>6, <1>15, <2>1 DEF WritersInv, LocalKeys
<1>16. \A d : d # n => DidRun(results', d) = DidRun(results, d)
  BY <1>3, <1>7 DEF DidRun
<1>17. WritersInv'
  <2>1. ASSUME NEW k, NEW d, Sole(k, d)
        PROVE  /\ w.shared[k] \subseteq {d}
               /\ w.shared[k] = {d} => Has(results', d)
               /\ DidRun(results', d) => w.shared[k] = {d}
    <3>1. CASE d = n
      <4>1. Has(results', d)
        BY <1>3, <1>7, <3>1 DEF Has
      <4>2. DidRun(results', d) => r.outcome = "ran"
        BY <1>7, <1>8, <3>1 DEF DidRun, Has
      <4> QED BY <1>15, <2>1, <3>1, <4>1, <4>2
    <3>2. CASE d # n
      <4>1. w.shared[k] = ctx.shared[k]
        BY <1>15, <2>1, <3>2
      <4>2. Has(results, d) => Has(results', d)
        BY <1>7 DEF Has
      <4> QED BY <1>15, <1>16, <2>1, <3>2, <4>1, <4>2
    <3> QED BY <3>1, <3>2
  <2> QED BY <1>0, <1>5, <1>14, <2>1 DEF WritersInv, Has, DidRun
<1>18. /\ \A a \in AllIssues(c) : a.by = i /\ a.id < c.nextId
       /\ \A a, b \in AllIssues(c) : a.id = b.id => a = b
       /\ \A b \in AllIssues(ctx) : passes[b.by].name \in Deps(n) =>
            \A a \in AllIssues(c) : b.id < a.id
  BY <1>3, <1>4 DEF LocalIds
<1>19. /\ \A a \in AllIssues(ctx) : a.id < ctx.nextId /\ a.by \in DOMAIN passes
                                    /\ passes[a.by].name \in completed
       /\ DependentIdsDiffer
  BY <1>0 DEF IdsInv, LevelsInv
<1>20. IdsInv'
  <2>1. /\ ctx.nextId \in Nat /\ c.nextId \in Nat /\ w.nextId \in Nat
        /\ \A a \in AllIssues(ctx) \cup AllIssues(c) : a.id \in Nat
    BY <1>2, <1>6 DEF Context, Emitted, AllIssues
  <2>2. \A a \in AllIssues(w) : a.id < w.nextId /\ a.by \in DOMAIN passes
    BY <1>2, <1>6, <1>18, <1>19, <2>1
  <2>3. ASSUME NEW a \in AllIssues(w), NEW b \in AllIssues(w), a # b,
               \/ passes[a.by].name = passes[b.by].name
               \/ passes[b.by].name \in Deps(passes[a.by].name)
        PROVE  a.id # b.id
    <3>1. CASE a \in AllIssues(ctx) /\ b \in AllIssues(ctx)
      BY <1>19, <2>3, <3>1 DEF DependentIdsDiffer
    <3>2. CASE a \in AllIssues(c) /\ b \in AllIssues(c)
      BY <1>18, <2>3, <3>2
    <3>3. CASE a \in AllIssues(c) /\ b \in AllIssues(ctx)
      <4>1. passes[a.by].name = n /\ passes[b.by].name # n
        BY <1>3, <1>4, <1>18, <1>19, <3>3
      <4>2. b.id < a.id
        BY <1>18, <2>3, <3>3, <4>1
      <4> QED BY <2>1, <3>3, <4>2
    <3>4. CASE a \in AllIssues(ctx) /\ b \in AllIssues(c)
      <4>1. passes[b.by].name = n /\ passes[a.by].name \in completed
        BY <1>4, <1>18, <1>19, <3>4
      <4>2. n \notin Deps(passes[a.by].name)
        <5> SUFFICES ASSUME n \in Deps(passes[a.by].name)
                     PROVE  n \in completed
          BY <1>3
        <5>1. PICK j \in DOMAIN results : results[j].name = passes[a.by].name
          BY <1>3, <4>1
        <5>2. PICK l \in 1 .. (j - 1) : results[l].name = n
          BY <1>0, <1>3, <5>1 DEF ResultsInv, DependenciesRunFirst
        <5>3. l \in DOMAIN results
          BY <1>7, <5>1, <5>2
        <5> QED BY <1>3, <5>2, <5>3
      <4> QED BY <1>3, <2>3, <4>1, <4>2
    <3> QED BY <1>6, <3>1, <3>2, <3>3, <3>4
  <2>4. AllIssues(ctx)' = AllIssues(w) /\ \A m : Deps(m)' = Deps(m)
    BY <1>0, <1>5, SameRegistered DEF AllIssues
  <2> QED BY <1>0, <1>5, <2>2, <2>3, <2>4 DEF IdsInv, DependentIdsDiffer
<1>21. SequenceInv'
  BY <1>0 DEF SequenceInv
<1>22. ASSUME NEW j \in DOMAIN level'
       PROVE  LocalInv(j)'
  <2> DEFINE m == passes[j].name
  <2>1. /\ j \in DOMAIN level /\ j # i /\ level'[j] = level[j] /\ LocalInv(j)
        /\ j \in DOMAIN passes
    BY <1>0, <1>2, <1>9 DEF LevelsInv
  <2>2. passes[j].name # n
    BY <1>2, <1>4, <2>1 DEF Distinct
  <2>3. LocalKeys(j)'
    <3>1. ASSUME NEW k, NEW d, Sole(k, d)
          PROVE  /\ d = passes[j].name =>
                      /\ level[j].ctx.shared[k] \subseteq {d}
                      /\ level[j].ran /\ level[j].result.outcome = "ran" =>
                           level[j].ctx.shared[k] = {d}
                 /\ d # passes[j].name => level[j].ctx.shared[k] \in {{}, ctx.shared[k]}
                 /\ d \in passes[j].deps /\ DidRun(results, d) =>
                      /\ level[j].ctx.shared[k] = {d}
                      /\ k \in Effect[passes[j].name].reads => level[j].result.saw[k] = {d}
      BY <2>1, <3>1 DEF LocalInv, LocalKeys
    <3>2. ASSUME NEW k, NEW d, Sole(k, d), d # passes[j].name
          PROVE  level[j].ctx.shared[k] \in {{}, w.shared[k]}
      <4>1. CASE d = n
        <5>1. ctx.shared[k] = {}
          BY <1>8, <1>15, <3>2, <4>1
        <5> QED BY <3>1, <3>2, <5>1
      <4>2. CASE d # n
        <5>1. w.shared[k] = ctx.shared[k]
          BY <1>15, <3>2, <4>2
        <5> QED BY <3>1, <3>2, <5>1
      <4> QED BY <4>1, <4>2
    <3>3. ASSUME NEW d \in passes[j].deps, DidRun(results', d)
          PROVE  DidRun(results, d)
      <4>1. d # n
        BY <1>3, <2>1 DEF LocalInv
      <4> QED BY <1>16, <3>3, <4>1
    <3>4. \A d : DidRun(results, d)' = DidRun(results', d)
      BY DEF DidRun
    <3> QED BY <1>0, <1>5, <1>14, <2>1, <3>1, <3>2, <3>3, <3>4 DEF LocalKeys
  <2>4. LocalIds(j)'
    <3>1. \A b \in AllIssues(w) : passes[b.by].name \in passes[j].deps => b \in AllIssues(ctx)
      BY <1>3, <1>4, <1>6, <1>18, <2>1 DEF LocalInv
    <3>2. \A b \in AllIssues(w) : passes[b.by].name \in passes[j].deps =>
            b.id < level[j].ctx.nextId /\ \A a \in AllIssues(level[j].ctx) : b.id < a.id
      BY <2>1, <3>1 DEF LocalInv, LocalIds
    <3>3. /\ ~level[j].ran => AllIssues(level[j].ctx) = {}
          /\ \A a \in AllIssues(level[j].ctx) : a.by = j /\ a.id < level[j].ctx.nextId
          /\ \A a, b \in AllIssues(level[j].ctx) : a.id = b.id => a = b
      BY <2>1 DEF LocalInv, LocalIds
    <3> QED BY <1>0, <1>5, <2>1, <3>2, <3>3 DEF LocalIds, AllIssues
  <2>5. passes[j].name \notin completed' /\ passes[j].deps \subseteq completed'
        /\ level'[j].result.name = passes[j].name
    BY <1>5, <2>1, <2>2 DEF LocalInv
  <2> QED BY <1>0, <2>3, <2>4, <2>5 DEF LocalInv
<1>23. LevelsInv'
  <2>1. completed' = {results'[j].name : j \in DOMAIN results'}
    <3>1. \A d \in completed' : \E j \in DOMAIN results' : results'[j].name = d
      BY <1>3, <1>5, <1>7
    <3>2. \A j \in DOMAIN results' : results'[j].name \in completed'
      BY <1>3, <1>5, <1>7
    <3> QED BY <3>1, <3>2
  <2>2. \A a \in AllIssues(ctx') : passes[a.by].name \in completed'
    BY <1>4, <1>5, <1>6, <1>18, <1>19
  <2> QED BY <1>0, <1>22, <2>1, <2>2 DEF LevelsInv, AllIssues
<1> QED BY <1>10, <1>11, <1>12, <1>13, <1>17, <1>20, <1>21, <1>23 DEF ManagerInv

-----------------------------------------------------------------------------
(* The invariant holds to begin with, and every step keeps it.             *)

LEMMA ManagerInitially ==
  ASSUME DistinctRegistrations, InitManager
  PROVE  ManagerInv
<1>0. /\ passes \in Registrations /\ executionOrder = <<>> /\ status = "stale" /\ Idle
      /\ pc = "idle" /\ ctx = NewContext(Inputs) /\ at = 1 /\ level = NoLevel
      /\ results = <<>> /\ prior = <<>> /\ cache = {} /\ version = 0
  BY DEF InitManager
<1>1. /\ passes \in Seq(Decl) /\ Len(passes) \in Nat /\ DOMAIN passes = 1 .. Len(passes)
      /\ \A i, j \in DOMAIN passes : passes[i].name = passes[j].name => i = j
  BY <1>0, RegistrationsAssumption DEF DistinctRegistrations
<1>2. DOMAIN results = {} /\ DOMAIN prior = {} /\ DOMAIN executionOrder = {} /\ DOMAIN level = {}
      /\ level \in [DOMAIN level -> Local]
  BY <1>0 DEF NoLevel
<1>3. IInv
  <2>1. TypeOK
    <3>1. executionOrder \in Seq(Nat) /\ stack \in Seq(Frame) /\ order \in Seq(Name)
      BY <1>0 DEF Idle
    <3>2. next \in 1 .. (Len(passes) + 1)
      BY <1>0, <1>1 DEF Idle
    <3> QED BY <1>0, <1>1, <3>1, <3>2 DEF TypeOK, Idle
  <2>2. \A i \in DOMAIN passes : LastOf(passes[i].name) # {}
    <3> TAKE i \in DOMAIN passes
    <3>1. i \in LastOf(passes[i].name)
      BY <1>1 DEF LastOf, IsLast
    <3> QED BY <3>1
  <2>3. \A i \in DOMAIN passes : ~(i < next)
    BY <1>0, <1>1 DEF Idle
  <2> QED BY <1>0, <2>1, <2>2, <2>3, IdleInv DEF IInv, SearchInv, LoopInv
<1>4. OrderPart
  BY <1>0, <1>1, <1>2, <1>3
  DEF OrderPart, ScheduleInv, InstalledOrderIsTopological, IndicesInRange
<1>5. ctx \in Context /\ AllIssues(ctx) = {}
  BY <1>0, NewContextFacts
<1>6. RunTypeOK
  <2>1. results \in Seq(ResultSet) /\ prior \in Seq(ResultSet)
    BY <1>0
  <2> QED BY <1>0, <1>2, <1>5, <2>1 DEF RunTypeOK
<1>7. ResultsInv /\ ReadsInv
  BY <1>2 DEF ResultsInv, DependenciesRunFirst, ReadsInv, ReadsSole
<1>8. IdsInv
  BY <1>5 DEF IdsInv, DependentIdsDiffer
<1>9. WritersInv /\ SequenceInv /\ LevelsInv
  BY <1>0 DEF WritersInv, SequenceInv, LevelsInv
<1> QED BY <1>4, <1>6, <1>7, <1>8, <1>9 DEF ManagerInv

LEMMA ManagerStep ==
  ASSUME DistinctRegistrations, ManagerInv, [NextManager]_allVars
  PROVE  ManagerInv'
<1>0. Distinct
  BY DistinctHolds DEF ManagerInv
<1>1. CASE Start \/ Order
  BY <1>1, OrderingInv
<1>2. CASE Edit
  <2>1. version' \in Nat
    BY <1>2 DEF Edit, ManagerInv, RunTypeOK
  <2>2. RunTypeOK'
    BY <1>2, <2>1 DEF Edit, runVars, vars, ManagerInv, RunTypeOK
  <2> QED BY <1>2, <2>2, SameInv DEF Edit, runVars
<1>3. CASE \E b \in Modes : SetParallel(b)
  <2>1. RunTypeOK'
    BY <1>3 DEF SetParallel, envVars, vars, ManagerInv, RunTypeOK
  <2> QED BY <1>3, <2>1, SameInv DEF SetParallel
<1>4. CASE Forget
  <2>1. RunTypeOK'
    BY <1>4 DEF Forget, runVars, vars, ManagerInv, RunTypeOK
  <2> QED BY <1>4, <2>1, SameInv DEF Forget, runVars
<1>5. CASE Refuse \/ SequenceEnds \/ LevelsEnd
  BY <1>5, ReturnInv DEF Refuse, SequenceEnds, LevelsEnd, Return
<1>6. CASE Begin
  BY <1>6, BeginInv
<1>7. CASE RunFromCache
  BY <1>0, <1>7, RunFromCacheInv
<1>8. CASE RunNext
  BY <1>0, <1>8, RunNextInv
<1>9. CASE RunFails
  BY <1>0, <1>9, RunFailsInv
<1>10. CASE StartLevel
  BY <1>0, <1>10, StartLevelInv
<1>11. CASE MergeNext
  BY <1>0, <1>11, MergeNextInv
<1>12. CASE pc = "levels" /\ \E i \in DOMAIN level : RunThread(i)
  BY <1>0, <1>12, RunThreadInv
<1>13. CASE UNCHANGED allVars
  <2>1. RunTypeOK'
    BY <1>13 DEF allVars, runVars, envVars, vars, ManagerInv, RunTypeOK
  <2> QED BY <1>13, <2>1, SameInv DEF allVars, runVars
<1> QED BY <1>1, <1>2, <1>3, <1>4, <1>5, <1>6, <1>7, <1>8, <1>9, <1>10, <1>11, <1>12, <1>13
        DEF NextManager, Step

LEMMA ManagerInvariance ==
  ASSUME DistinctRegistrations
  PROVE  SpecManager => []ManagerInv
BY ManagerInitially, ManagerStep, PTL DEF SpecManager

-----------------------------------------------------------------------------
(* A reader of a sole writer has what it wrote, which is all that levels promise. *)
LEMMA ReachInLevels ==
  ASSUME ManagerInv, pc # "sequence"
  PROVE  OutputsReachDependents
<1> SUFFICES ASSUME NEW i \in DOMAIN results, NEW j \in DOMAIN results,
                    results[i].outcome = "ran", results[j].outcome # "cached",
                    results[i].name \in Deps(results[j].name),
                    NEW k \in Outputs(results[i].name) \cap Effect[results[j].name].reads,
                    Writers(k) = {results[i].name}
             PROVE  results[i].name \in results[j].saw[k]
  BY DEF OutputsReachDependents
<1>1. results[i].name \in Registered /\ AllRan(results, results[i].name)
  BY DEF ManagerInv, ResultsInv, AllRan
<1>2. k \in Key
  BY <1>1, RegisteredFacts, OutputsAreKeys DEF ManagerInv
<1>3. Sole(k, results[i].name)
  BY <1>1, <1>2 DEF Sole
<1> QED BY <1>1, <1>3 DEF ManagerInv, ReadsInv, ReadsSole

(***************************************************************************)
(* In either mode a pass runs after those it depends on, finds what they   *)
(* stored unless a pass in between replaced it or others write that key    *)
(* too, and its issues are told from theirs.                               *)
(***************************************************************************)
THEOREM DependentsComeAfter ==
  ASSUME DistinctRegistrations
  PROVE  SpecManager => []DependentsFollow
<1>1. ManagerInv => DependentsFollow
  <2> SUFFICES ASSUME ManagerInv PROVE DependentsFollow
    OBVIOUS
  <2>1. OutputsReachDependents
    BY ReachInLevels DEF ManagerInv, SequenceInv
  <2> QED BY <2>1 DEF ManagerInv, ResultsInv, IdsInv, DependentsFollow
<1> QED BY <1>1, ManagerInvariance, PTL

(* What a clean run shows to a reader is what the only writer stored.       *)
LEMMA SawTheWriter ==
  ASSUME ManagerInv, NEW rs \in {results, prior}, ReadsSole(rs), Clean(rs),
         NEW i \in DOMAIN rs, rs[i].name \in Name, NEW k \in Effect[rs[i].name].reads,
         NEW d \in Deps(rs[i].name), Writers(k) = {d}
  PROVE  rs[i].saw[k] = {d}
<1>1. OrderPart
  BY DEF ManagerInv
<1>2. d \in Name /\ d # Input
  BY <1>1, RegisteredFacts, InputAssumption
<1>3. d \in Registered
  BY <1>2 DEF Writers
<1>4. k \in Key
  BY OutputsAreKeys
<1> QED BY <1>3, <1>4 DEF Sole, ReadsSole, Clean, AllRan

(***************************************************************************)
(* A pass that depends on the only writer of what it reads is given the    *)
(* same value by a run one after the other and by a run level by level.    *)
(***************************************************************************)
THEOREM ModesAlwaysAgree ==
  ASSUME DistinctRegistrations
  PROVE  SpecManager => []ModesAgree
<1>1. ManagerInv => ModesAgree
  <2> SUFFICES ASSUME ManagerInv, Clean(results), Clean(prior),
                      NEW i \in DOMAIN results, NEW j \in DOMAIN prior,
                      results[i].name = prior[j].name,
                      NEW k \in Effect[results[i].name].reads,
                      NEW d \in Deps(results[i].name), Writers(k) = {d}
               PROVE  results[i].saw[k] = prior[j].saw[k]
    BY DEF ModesAgree, Declared
  <2>1. ReadsSole(results) /\ ReadsSole(prior)
    BY DEF ManagerInv, ReadsInv
  <2>2. results[i].name \in Name
    BY RegisteredFacts DEF ManagerInv, ResultsInv
  <2>3. results[i].saw[k] = {d}
    BY <2>1, <2>2, SawTheWriter
  <2>4. prior[j].saw[k] = {d}
    BY <2>1, <2>2, SawTheWriter
  <2> QED BY <2>3, <2>4
<1> QED BY <1>1, ManagerInvariance, PTL

-----------------------------------------------------------------------------
(* What the cache serves, whatever passes are registered.  An entry's key  *)
(* holds the version its result was computed for, and the version does not *)
(* change while a run is under way.                                        *)

IsSequence(s) == Len(s) \in Nat /\ s = [i \in 1 .. Len(s) |-> s[i]]

CurrentInv ==
  /\ IsSequence(results)
  /\ \A e \in cache : /\ e.result = [x \in {"name", "outcome", "version", "saw"} |-> e.result[x]]
                      /\ e.key.version = e.result.version
  /\ ResultsAreCurrent
  /\ pc = "levels" => /\ level = [i \in DOMAIN level |-> level[i]]
                      /\ \A i \in DOMAIN level : level[i].result.version = version

LEMMA AppendAny ==
  ASSUME NEW s, IsSequence(s), NEW r, NEW t, t = Append(s, r)
  PROVE  /\ IsSequence(t)
         /\ \A i \in DOMAIN t : t[i] = r \/ \E j \in DOMAIN s : t[i] = s[j]
<1> DEFINE S == {s[i] : i \in 1 .. Len(s)} \cup {r}
<1>1. s \in [1 .. Len(s) -> S] /\ Len(s) \in Nat
  BY DEF IsSequence
<1>2. s \in Seq(S) /\ r \in S
  BY <1>1, SeqDef
<1> HIDE DEF S
<1>3. /\ t \in Seq(S) /\ Len(t) = Len(s) + 1 /\ DOMAIN t = 1 .. (Len(s) + 1)
      /\ t[Len(s) + 1] = r /\ \A j \in 1 .. Len(s) : t[j] = s[j]
      /\ DOMAIN s = 1 .. Len(s) /\ Len(s) \in Nat
  BY <1>2
<1>4. IsSequence(t)
  <2>1. Len(t) \in Nat /\ t \in [1 .. Len(t) -> S]
    BY <1>3, LenProperties
  <2> QED BY <2>1 DEF IsSequence
<1>5. \A i \in DOMAIN t : i = Len(s) + 1 \/ i \in DOMAIN s
  BY <1>3
<1> QED BY <1>3, <1>4, <1>5

LEMMA CurrentInitially ==
  ASSUME InitManager
  PROVE  CurrentInv
<1>1. results = <<>> /\ cache = {} /\ pc = "idle"
  BY DEF InitManager
<1>2. IsSequence(results)
  BY <1>1 DEF IsSequence
<1> QED BY <1>1, <1>2 DEF CurrentInv, ResultsAreCurrent

LEMMA ResultVersion ==
  ASSUME NEW n, NEW outcome, NEW c, NEW r, r = Result(n, outcome, c)
  PROVE  /\ r.version = version
         /\ r = [x \in {"name", "outcome", "version", "saw"} |-> r[x]]
BY DEF Result

LEMMA CurrentStep ==
  ASSUME CurrentInv, [NextManager]_allVars
  PROVE  CurrentInv'
<1>1. ASSUME UNCHANGED <<results, cache, version>>, pc' \in {"idle", "ordering"}
      PROVE  CurrentInv'
  BY <1>1 DEF CurrentInv, ResultsAreCurrent, IsSequence
<1>2. CASE Start \/ Order \/ Refuse \/ RunFails \/ SequenceEnds \/ LevelsEnd
  BY <1>1, <1>2 DEF Start, Order, Refuse, RunFails, SequenceEnds, LevelsEnd, Return, runVars, envVars
<1>3. CASE Edit
  BY <1>3 DEF Edit, runVars, CurrentInv, ResultsAreCurrent, IsSequence
<1>4. CASE (\E b \in Modes : SetParallel(b)) \/ Forget \/ UNCHANGED allVars
  <2>1. UNCHANGED <<pc, results, level, version>> /\ cache' \subseteq cache
    BY <1>4 DEF SetParallel, Forget, allVars, runVars, envVars
  <2> QED BY <2>1 DEF CurrentInv, ResultsAreCurrent, IsSequence
<1>5. CASE Begin
  <2>1. /\ results' = <<>> /\ level' = NoLevel /\ UNCHANGED <<cache, version>>
    BY <1>5 DEF Begin, envVars
  <2>2. IsSequence(results') /\ DOMAIN results' = {} /\ DOMAIN level' = {}
    BY <2>1 DEF IsSequence, NoLevel
  <2>3. level' = [i \in DOMAIN level' |-> level'[i]]
    BY <2>1 DEF NoLevel
  <2> QED BY <2>1, <2>2, <2>3 DEF CurrentInv, ResultsAreCurrent, IsSequence
<1>6. ASSUME pc \in {"sequence", "levels"}, UNCHANGED <<pc, version>>,
             NEW r, results' = Append(results, r), r.version = version
      PROVE  IsSequence(results)' /\ ResultsAreCurrent'
  <2>1. /\ IsSequence(results')
        /\ \A i \in DOMAIN results' : results'[i] = r \/ \E j \in DOMAIN results : results'[i] = results[j]
    <3>1. IsSequence(results) /\ results' = Append(results, r)
      BY <1>6 DEF CurrentInv
    <3>2. IsSequence(results')
      BY <3>1, AppendAny
    <3>3. \A i \in DOMAIN results' : results'[i] = r \/ \E j \in DOMAIN results : results'[i] = results[j]
      BY <3>1, AppendAny
    <3> QED BY <3>2, <3>3
  <2> QED BY <1>6, <2>1 DEF CurrentInv, ResultsAreCurrent, IsSequence
<1>7. CASE RunFromCache
  <2>1. PICK entry \in cache : /\ entry.key = CacheKey(Current)
                               /\ results' = Append(results, [entry.result EXCEPT !.outcome = "cached"])
    BY <1>7 DEF RunFromCache, Hits
  <2> DEFINE r == [entry.result EXCEPT !.outcome = "cached"]
  <2>2. r.version = entry.result.version
    BY DEF CurrentInv
  <2>3. entry.key.version = version
    BY <2>1 DEF CacheKey
  <2>4. r.version = version
    BY <2>2, <2>3 DEF CurrentInv
  <2>5. pc = "sequence" /\ UNCHANGED <<pc, version, cache, level>>
    BY <1>7 DEF RunFromCache, envVars
  <2> HIDE DEF r
  <2>6. results' = Append(results, r)
    BY <2>1 DEF r
  <2>7. IsSequence(results)' /\ ResultsAreCurrent'
    BY <1>6, <2>4, <2>5, <2>6
  <2> QED BY <2>5, <2>7 DEF CurrentInv
<1>8. CASE RunNext
  <2> DEFINE r == Result(Current, "ran", ctx)
             e == [key |-> CacheKey(Current), result |-> r]
  <2>1. /\ results' = Append(results, r) /\ cache' \in {cache, cache \cup {e}}
        /\ pc = "sequence" /\ UNCHANGED <<pc, version, level>>
    BY <1>8 DEF RunNext
  <2>2. r = Result(Current, "ran", ctx)
    OBVIOUS
  <2>3. e.result = r /\ e.key.version = version
    BY DEF CacheKey
  <2> HIDE DEF r, e
  <2>4. r.version = version /\ r = [x \in {"name", "outcome", "version", "saw"} |-> r[x]]
    BY <2>2, ResultVersion
  <2>5. IsSequence(results)' /\ ResultsAreCurrent'
    BY <1>6, <2>1, <2>4
  <2>6. \A f \in cache' : f \in cache \/ f = e
    BY <2>1
  <2>7. \A f \in cache' : /\ f.result = [x \in {"name", "outcome", "version", "saw"} |-> f.result[x]]
                          /\ f.key.version = f.result.version
    BY <2>3, <2>4, <2>6 DEF CurrentInv
  <2> QED BY <2>1, <2>5, <2>7 DEF CurrentInv
<1>9. CASE StartLevel
  <2>1. /\ pc = "levels" /\ UNCHANGED <<pc, results, cache, version>>
        /\ level' = [i \in Ready |-> [ctx |-> CloneForParallel(ctx), ran |-> FALSE,
                                      result |-> Result(passes[i].name, "ran", ctx)]]
    BY <1>9 DEF StartLevel, envVars
  <2>2. \A i \in DOMAIN level' : level'[i].result = Result(passes[i].name, "ran", ctx)
    BY <2>1
  <2>3. \A i \in DOMAIN level' : level'[i].result.version = version
    BY <2>2, ResultVersion
  <2>4. level' = [i \in DOMAIN level' |-> level'[i]]
    BY <2>1
  <2> QED BY <2>1, <2>3, <2>4 DEF CurrentInv, ResultsAreCurrent, IsSequence
<1>10. CASE pc = "levels" /\ \E i \in DOMAIN level : RunThread(i)
  <2>1. PICK i \in DOMAIN level : RunThread(i)
    BY <1>10
  <2>2. PICK c, outcome : level' = [level EXCEPT ![i] =
           [ctx |-> c, ran |-> TRUE, result |-> Result(passes[i].name, outcome, level[i].ctx)]]
    BY <2>1 DEF RunThread
  <2> DEFINE r == Result(passes[i].name, outcome, level[i].ctx)
  <2>3. r.version = version
    BY ResultVersion
  <2> HIDE DEF r
  <2>4. level' = [level EXCEPT ![i] = [ctx |-> c, ran |-> TRUE, result |-> r]]
    BY <2>2 DEF r
  <2>5. level = [j \in DOMAIN level |-> level[j]] /\ \A j \in DOMAIN level : level[j].result.version = version
    BY <1>10 DEF CurrentInv
  <2>6. /\ DOMAIN level' = DOMAIN level /\ level' = [j \in DOMAIN level' |-> level'[j]]
        /\ level'[i] = [ctx |-> c, ran |-> TRUE, result |-> r]
        /\ \A j \in DOMAIN level : j # i => level'[j] = level[j]
    BY <2>4, <2>5
  <2>7. \A j \in DOMAIN level' : level'[j].result.version = version
    BY <2>3, <2>5, <2>6
  <2>8. UNCHANGED <<pc, results, cache, version>>
    BY <2>1 DEF RunThread, envVars
  <2> QED BY <2>6, <2>7, <2>8 DEF CurrentInv, ResultsAreCurrent, IsSequence
<1>11. CASE MergeNext
  <2>1. PICK i \in DOMAIN level : /\ results' = Append(results, level[i].result)
                                  /\ level' = [j \in DOMAIN level \ {i} |-> level[j]]
    BY <1>11 DEF MergeNext
  <2>2. pc = "levels" /\ UNCHANGED <<pc, cache, version>>
    BY <1>11 DEF MergeNext, envVars
  <2>3. level[i].result.version = version
    BY <2>2 DEF CurrentInv
  <2>4. IsSequence(results)' /\ ResultsAreCurrent'
    BY <1>6, <2>1, <2>2, <2>3
  <2>5. /\ level' = [j \in DOMAIN level' |-> level'[j]]
        /\ \A j \in DOMAIN level' : level'[j].result.version = version
    BY <2>1, <2>2 DEF CurrentInv
  <2> QED BY <2>2, <2>4, <2>5 DEF CurrentInv
<1> QED BY <1>2, <1>3, <1>4, <1>5, <1>7, <1>8, <1>9, <1>10, <1>11 DEF NextManager, Step

(* Every result of a run is of the source and configuration as they are,   *)
(* computed by this run or served from the cache.                          *)
THEOREM ServedAreCurrent == SpecManager => []ResultsAreCurrent
<1>1. CurrentInv => ResultsAreCurrent
  BY DEF CurrentInv
<1> QED BY <1>1, CurrentInitially, CurrentStep, PTL DEF SpecManager
=============================================================================
