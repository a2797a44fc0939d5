------------------------ MODULE ProjectPipelineProofs ------------------------
(***************************************************************************)
(* Proofs about the loader, its cache and the project built on it, for     *)
(* every set of loaders, paths, contents and edits, and for backends that  *)
(* make anything of a content.                                             *)
(***************************************************************************)
EXTENDS ProjectPipeline, SequenceTheorems, TLAPS

Held   == Content \cup {Missing}
Stamps == 0 .. MaxEdits

Busy(l) == at[l] \in {"probe", "hit", "run", "save", "write"}

Result ==
  [ok : {TRUE}, backend : Backend, by : Backend, content : Held, entry : Key \cup {NoKey}]
    \cup [ok : {FALSE}, backend : Backend \cup {Absent}]

LoadTypeOK ==
  /\ at \in [Loader -> {"idle", "probe", "hit", "run", "save", "write", "done"}]
  /\ plan \in [Loader -> Seq(Backend)] /\ key \in [Loader -> Key \cup {NoKey}]
  /\ out \in [Loader -> Held \cup {Absent}] /\ result \in [Loader -> Result]

LoaderTypeOK ==
  /\ file \in [Path -> [content : Held, stamp : Stamps]] /\ edits \in Stamps
  /\ cache \in [Key -> {NoFile, Partial} \cup [backend : Cached, content : Held]]
  /\ goal \in [Loader -> [path : Path \cup {Absent}, strategy : Strategy \cup {Absent}]]
  /\ seen \in [Loader -> SUBSET Held] /\ raced \in SUBSET Key
  /\ LoadTypeOK

-----------------------------------------------------------------------------
(***************************************************************************)
(* h is what each path held at each stamp: what it holds now at its own,   *)
(* and what a whole cache file holds at the stamp it is named after,       *)
(* unless an edit came between.                                            *)
(***************************************************************************)
FileHistory(h) ==
  /\ h \in [Path \X Stamps -> Held]
  /\ \A p \in Path : file[p].stamp <= edits /\ h[<<p, file[p].stamp>>] = file[p].content

EntryHistory(k, h) ==
  cache[k] \notin {NoFile, Partial} =>
    /\ k.stamp <= edits /\ cache[k].backend = k.backend
    /\ k \in raced \/ cache[k].content = h[<<k.path, k.stamp>>]

History(h) == FileHistory(h) /\ \A k \in Key : EntryHistory(k, h)

(* What a load is about, and that it has seen what is there now.           *)
Watches(l) ==
  at[l] # "idle" =>
    /\ goal[l].path \in Path /\ goal[l].strategy \in Strategy
    /\ file[goal[l].path].content \in seen[l]

Final(s) == s[Len(s)]

(* A load that goes on has a backend left, and the last one last.          *)
HasPlan(l) ==
  Busy(l) => /\ plan[l] # <<>>
             /\ IsChain(l) => Final(plan[l]) = Final(Plan(goal[l].path, goal[l].strategy))

(* A key found in the cache names a content the load has seen.             *)
FoundEntry(l, h) ==
  at[l] = "hit" =>
    /\ key[l] \in Key /\ key[l].backend = Head(plan[l]) /\ key[l].stamp <= edits
    /\ h[<<key[l].path, key[l].stamp>>] \in seen[l]

(* What is to be saved has been seen, and is what the entry is named after. *)
Saves(l, h) ==
  at[l] \in {"save", "write"} =>
    /\ Head(plan[l]) \in Cached /\ out[l] \in seen[l]
    /\ at[l] = "write" /\ key[l] # NoKey =>
         /\ key[l] \in Key /\ key[l].backend = Head(plan[l]) /\ key[l].stamp <= edits
         /\ key[l] \in raced \/ out[l] = h[<<key[l].path, key[l].stamp>>]

IsCurrent(l) ==
  at[l] = "done" /\ result[l].ok =>
    /\ result[l].by = result[l].backend
    /\ result[l].content \in seen[l] \/ result[l].entry \in raced

FailsAtLast(l) ==
  at[l] = "done" /\ ~result[l].ok /\ IsChain(l) =>
    \E c \in seen[l] :
      c = Missing \/ Outcome[Final(Plan(goal[l].path, goal[l].strategy))][c] \in {"garbled", "error"}

LoaderOK(l, h) ==
  /\ Watches(l) /\ HasPlan(l) /\ FoundEntry(l, h) /\ Saves(l, h) /\ IsCurrent(l) /\ FailsAtLast(l)

LoaderInv ==
  LoaderTypeOK /\ \E h : History(h) /\ \A l \in Loader : LoaderOK(l, h)

-----------------------------------------------------------------------------
LEMMA FirstAndLast ==
  ASSUME NEW S, NEW s \in Seq(S), s # <<>>
  PROVE  /\ Len(s) \in Nat /\ Head(s) \in S
         /\ Len(s) > 1 => /\ Tail(s) \in Seq(S) /\ Tail(s) # <<>>
                         /\ Final(Tail(s)) = Final(s)
         /\ ~(Len(s) > 1) => Len(s) = 1 /\ Head(s) = Final(s)
<1>1. Len(s) \in Nat /\ Len(s) # 0 /\ Head(s) = s[1] /\ s[1] \in S
  OBVIOUS
<1>2. ASSUME Len(s) > 1
      PROVE  Tail(s) \in Seq(S) /\ Tail(s) # <<>> /\ Final(Tail(s)) = Final(s)
  <2>1. Tail(s) \in Seq(S) /\ Len(Tail(s)) = Len(s) - 1
    BY <1>1, <1>2
  <2>2. \A i \in 1 .. Len(s) - 1 : Tail(s)[i] = s[i + 1]
    BY <1>1, <1>2
  <2>3. Len(s) - 1 \in 1 .. Len(s) - 1
    BY <1>1, <1>2
  <2>4. Tail(s)[Len(s) - 1] = s[Len(s)]
    BY <1>1, <2>2, <2>3
  <2>5. Tail(s) # <<>>
    BY <1>1, <1>2, <2>1
  <2>6. Tail(s)[Len(Tail(s))] = s[Len(s)]
    BY <2>1, <2>4
  <2> QED BY <2>1, <2>5, <2>6 DEF Final
<1>3. ASSUME ~(Len(s) > 1)
      PROVE  Len(s) = 1 /\ Head(s) = Final(s)
  <2>1. ASSUME NEW n \in Nat, n # 0, ~(n > 1)
        PROVE  n = 1
    BY <2>1
  <2>2. Len(s) = 1
    BY <1>1, <1>3, <2>1
  <2> QED BY <1>1, <2>2 DEF Final
<1> QED BY <1>1, <1>2, <1>3

(* The last backend of an automatic load is a reader without a cache.      *)
LEMMA LastOfPlan ==
  ASSUME NEW path \in Path, NEW strategy \in Strategy
  PROVE  /\ Plan(path, strategy) \in Seq(Backend) /\ Plan(path, strategy) # <<>>
         /\ strategy \in {"auto", "auto_fast"} => Final(Plan(path, strategy)) \in {"text", "msgpack"}
<1>1. "text" \in Backend /\ "msgpack" \in Backend
  BY DEF Backend
<1>2. AutoPlan \in Seq(Backend) /\ Len(AutoPlan) = 5 /\ AutoPlan[5] = "text"
  BY DEF AutoPlan, Backend, Cached
<1>3. ASSUME NEW s \in Seq(Backend)
      PROVE  s \o AutoPlan \in Seq(Backend) /\ s \o AutoPlan # <<>> /\ Final(s \o AutoPlan) = "text"
  <2>1. Len(s) \in Nat /\ Len(s \o AutoPlan) = Len(s) + Len(AutoPlan)
    <3>1. Len(s \o AutoPlan) = Len(s) + Len(AutoPlan)
      BY <1>2, ConcatProperties, Zenon
    <3> QED BY <3>1
  <2>0. s \o AutoPlan \in Seq(Backend)
    BY <1>2, ConcatProperties
  <2>2. (s \o AutoPlan)[Len(s) + 5] = AutoPlan[5]
    BY <1>2, <2>1
  <2>3. s \o AutoPlan # <<>>
    BY <1>2, <2>0, <2>1, EmptySeq
  <2> QED BY <1>2, <2>0, <2>1, <2>2, <2>3 DEF Final
<1>4. CASE strategy = "auto"
  <2>1. Plan(path, strategy) \in {<<"msgpack">>, AutoPlan}
    BY <1>4 DEF Plan
  <2>2. Final(<<"msgpack">>) = "msgpack" /\ <<"msgpack">> \in Seq(Backend) /\ <<"msgpack">> # <<>>
    BY <1>1 DEF Final
  <2>3. Final(AutoPlan) = "text" /\ AutoPlan # <<>>
    BY <1>2 DEF Final
  <2> QED BY <1>2, <2>1, <2>2, <2>3
<1>5. CASE strategy = "auto_fast"
  <2>1. Plan(path, strategy) \in {<<>> \o AutoPlan, <<"text">> \o AutoPlan, <<"text", "text">> \o AutoPlan}
    BY <1>5 DEF Plan
  <2>2. <<>> \in Seq(Backend) /\ <<"text">> \in Seq(Backend) /\ <<"text", "text">> \in Seq(Backend)
    BY <1>1
  <2> QED BY <1>3, <2>1, <2>2
<1>6. CASE strategy \in Backend
  <2>1. strategy \notin {"auto", "auto_fast"}
    BY <1>6 DEF Backend, Cached
  <2>2. Plan(path, strategy) = <<strategy>>
    BY <2>1 DEF Plan
  <2> QED BY <1>6, <2>1, <2>2
<1> QED BY <1>4, <1>5, <1>6 DEF Strategy

(* A step of one load does nothing to another.                             *)
LEMMA OthersKept ==
  ASSUME NEW m \in Loader, NEW h, LoaderOK(m, h), UNCHANGED <<file, edits>>, raced \subseteq raced',
         at'[m] = at[m], goal'[m] = goal[m], plan'[m] = plan[m], key'[m] = key[m],
         out'[m] = out[m], result'[m] = result[m], seen'[m] = seen[m]
  PROVE  LoaderOK(m, h)'
<1> USE DEF LoaderOK, Busy, IsChain
<1>1. Watches(m)' /\ HasPlan(m)'
  BY DEF Watches, HasPlan
<1>2. FoundEntry(m, h)' /\ Saves(m, h)'
  BY DEF FoundEntry, Saves
<1>3. IsCurrent(m)' /\ FailsAtLast(m)'
  BY DEF IsCurrent, FailsAtLast
<1> QED BY <1>1, <1>2, <1>3

-----------------------------------------------------------------------------
(* The ways a step of a load goes on. *)

(* The loads but l are where they were.                                    *)
Alone(l) ==
  \A m \in Loader \ {l} :
    /\ at'[m] = at[m] /\ plan'[m] = plan[m] /\ key'[m] = key[m]
    /\ out'[m] = out[m] /\ result'[m] = result[m]

(* A load fails for a reason: another backend is left, or the last failed. *)
Reason(l) ==
  IsChain(l) /\ Len(plan[l]) = 1 =>
    \E c \in seen[l] : c = Missing \/ Outcome[Head(plan[l])][c] \in {"garbled", "error"}

LEMMA ReturnAlone ==
  ASSUME LoaderTypeOK, NEW l \in Loader, NEW r \in Result, Return(l, r)
  PROVE  LoadTypeOK' /\ Alone(l) /\ at'[l] = "done" /\ result'[l] = r
BY DEF LoaderTypeOK, LoadTypeOK, Return, Alone

LEMMA DoneOK ==
  ASSUME LoaderTypeOK, NEW l \in Loader, NEW h, Watches(l), at'[l] = "done", at[l] # "idle",
         UNCHANGED <<file, goal, seen>>, IsCurrent(l)', FailsAtLast(l)'
  PROVE  LoaderOK(l, h)'
BY DEF LoaderOK, Watches, HasPlan, FoundEntry, Saves, Busy

LEMMA SucceedInv ==
  ASSUME LoaderTypeOK, NEW l \in Loader, NEW h, LoaderOK(l, h), Busy(l),
         NEW c \in seen[l], Succeed(l, c), UNCHANGED <<file, goal, seen>>
  PROVE  LoadTypeOK' /\ Alone(l) /\ LoaderOK(l, h)'
<1> DEFINE b == Head(plan[l])
<1>1. b \in Backend /\ c \in Held
  BY DEF LoaderOK, HasPlan, LoaderTypeOK, LoadTypeOK
<1>2. Got(b, b, c, NoKey) \in Result
  BY <1>1 DEF Got, Result
<1>3. LoadTypeOK' /\ Alone(l) /\ at'[l] = "done" /\ result'[l] = Got(b, b, c, NoKey)
  BY <1>2, ReturnAlone DEF Succeed
<1>4. IsCurrent(l)' /\ FailsAtLast(l)'
  BY <1>3 DEF IsCurrent, FailsAtLast, Got
<1>5. Watches(l) /\ at[l] # "idle"
  BY DEF LoaderOK, Busy
<1> QED BY <1>3, <1>4, <1>5, DoneOK

LEMMA FailInv ==
  ASSUME LoaderTypeOK, NEW l \in Loader, NEW h, LoaderOK(l, h), Busy(l), Reason(l),
         Fail(l), UNCHANGED <<file, goal, seen>>
  PROVE  LoadTypeOK' /\ Alone(l) /\ LoaderOK(l, h)'
<1>1. plan[l] \in Seq(Backend) /\ plan[l] # <<>> /\ Head(plan[l]) \in Backend
      /\ Watches(l) /\ at[l] # "idle"
  BY DEF LoaderOK, HasPlan, LoaderTypeOK, LoadTypeOK, Busy
<1>2. CASE Len(plan[l]) > 1
  <2>1. Tail(plan[l]) \in Seq(Backend) /\ Tail(plan[l]) # <<>>
        /\ Final(Tail(plan[l])) = Final(plan[l])
    BY <1>1, <1>2, FirstAndLast
  <2>2. /\ plan' = [plan EXCEPT ![l] = Tail(@)] /\ at' = [at EXCEPT ![l] = "probe"]
        /\ key' = [key EXCEPT ![l] = NoKey] /\ out' = [out EXCEPT ![l] = Absent]
        /\ UNCHANGED result
    BY <1>2 DEF Fail
  <2>3. LoadTypeOK' /\ Alone(l) /\ at'[l] = "probe" /\ plan'[l] = Tail(plan[l])
    BY <2>1, <2>2 DEF LoaderTypeOK, LoadTypeOK, Alone
  <2>4. Watches(l)' /\ FoundEntry(l, h)' /\ Saves(l, h)' /\ IsCurrent(l)' /\ FailsAtLast(l)'
    BY <1>1, <2>3 DEF Watches, FoundEntry, Saves, IsCurrent, FailsAtLast
  <2>5. HasPlan(l)'
    BY <2>1, <2>3 DEF HasPlan, LoaderOK, IsChain
  <2> QED BY <2>3, <2>4, <2>5 DEF LoaderOK
<1>3. CASE ~(Len(plan[l]) > 1)
  <2>1. Error(Head(plan[l])) \in Result
    BY <1>1 DEF Error, Result
  <2>2. LoadTypeOK' /\ Alone(l) /\ at'[l] = "done" /\ result'[l] = Error(Head(plan[l]))
    BY <1>3, <2>1, ReturnAlone DEF Fail
  <2>3. Len(plan[l]) = 1 /\ Head(plan[l]) = Final(plan[l])
    BY <1>1, <1>3, FirstAndLast
  <2>4. IsChain(l) => Final(plan[l]) = Final(Plan(goal[l].path, goal[l].strategy))
    BY DEF LoaderOK, HasPlan
  <2>5. IsCurrent(l)' /\ FailsAtLast(l)'
    BY <2>2, <2>3, <2>4 DEF IsCurrent, FailsAtLast, Error, Reason, IsChain
  <2> QED BY <1>1, <2>2, <2>5, DoneOK
<1> QED BY <1>2, <1>3

(* A backend with a cache is never the last of an automatic load.          *)
LEMMA CachedHasReason ==
  ASSUME LoaderTypeOK, NEW l \in Loader, NEW h, LoaderOK(l, h), Busy(l), Head(plan[l]) \in Cached
  PROVE  Reason(l)
<1>1. plan[l] \in Seq(Backend) /\ plan[l] # <<>>
  BY DEF LoaderOK, HasPlan, LoaderTypeOK, LoadTypeOK
<1>2. ASSUME IsChain(l), Len(plan[l]) = 1
      PROVE  FALSE
  <2>1. Final(plan[l]) \in {"text", "msgpack"}
    BY <1>2, LastOfPlan DEF LoaderOK, HasPlan, Watches, Busy, IsChain
  <2>2. Final(plan[l]) = Head(plan[l])
    BY <1>1, <1>2 DEF Final
  <2> QED BY <2>1, <2>2 DEF Cached
<1> QED BY <1>2 DEF Reason

LEMMA AfterSaveInv ==
  ASSUME LoaderTypeOK, NEW l \in Loader, NEW h, LoaderOK(l, h), at[l] \in {"save", "write"},
         AfterSave(l), UNCHANGED <<file, goal, seen>>
  PROVE  LoadTypeOK' /\ Alone(l) /\ LoaderOK(l, h)'
<1>1. Busy(l) /\ Head(plan[l]) \in Cached /\ out[l] \in seen[l]
  BY DEF Busy, LoaderOK, Saves
<1> QED BY <1>1, CachedHasReason, FailInv, SucceedInv DEF AfterSave

-----------------------------------------------------------------------------
(* The steps of a load. *)

CacheType == [Key -> {NoFile, Partial} \cup [backend : Cached, content : Held]]

LEMMA LoadStep ==
  ASSUME LoaderTypeOK, NEW l \in Loader, NEW h, History(h), \A m \in Loader : LoaderOK(m, h),
         LoadTypeOK', Alone(l), LoaderOK(l, h)', UNCHANGED <<file, edits, goal, seen>>,
         cache' \in CacheType, raced' \in SUBSET Key, raced \subseteq raced',
         \A k \in Key : EntryHistory(k, h)'
  PROVE  LoaderInv'
<1>1. LoaderTypeOK'
  BY DEF LoaderTypeOK, CacheType
<1>2. FileHistory(h)'
  BY DEF History, FileHistory
<1>3. ASSUME NEW m \in Loader \ {l}
      PROVE  LoaderOK(m, h)'
  BY OthersKept DEF Alone
<1> QED BY <1>1, <1>2, <1>3 DEF LoaderInv, History

(* Steps that leave the cache alone.                                       *)
LEMMA QuietStep ==
  ASSUME LoaderTypeOK, NEW l \in Loader, NEW h, History(h), \A m \in Loader : LoaderOK(m, h),
         LoadTypeOK', Alone(l), LoaderOK(l, h)', UNCHANGED <<file, edits, goal, seen, cache, raced>>
  PROVE  LoaderInv'
<1>1. \A k \in Key : EntryHistory(k, h)'
  BY DEF History, EntryHistory
<1>2. cache' \in CacheType /\ raced' \in SUBSET Key
  BY DEF LoaderTypeOK, CacheType
<1> QED BY <1>1, <1>2, LoadStep

LEMMA ProbeInv ==
  ASSUME LoaderTypeOK, NEW l \in Loader, NEW h, History(h), \A m \in Loader : LoaderOK(m, h), Probe(l)
  PROVE  LoaderInv'
<1> DEFINE b == Head(plan[l])
           k == Fingerprint(goal[l].path, b)
<1>1. at[l] = "probe" /\ Busy(l) /\ LoaderOK(l, h) /\ Watches(l) /\ HasPlan(l)
  BY DEF Probe, Busy, LoaderOK
<1>2. UNCHANGED <<file, edits, goal, seen, cache, raced>>
  BY DEF Probe
<1>3. plan[l] \in Seq(Backend) /\ plan[l] # <<>> /\ b \in Backend
  BY <1>1 DEF HasPlan, LoaderTypeOK, LoadTypeOK
<1>4. CASE IsChain(l) /\ b \notin Available
  <2>1. Reason(l)
    <3>1. ASSUME Len(plan[l]) = 1
          PROVE  FALSE
      <4>1. b = Final(plan[l])
        BY <1>3, <3>1, FirstAndLast
      <4>2. Final(plan[l]) \in {"text", "msgpack"}
        BY <1>1, <1>4, LastOfPlan DEF HasPlan, Watches, IsChain
      <4> QED BY <1>4, <4>1, <4>2, LoaderAssumption
    <3> QED BY <3>1 DEF Reason
  <2>2. Fail(l)
    BY <1>4 DEF Probe
  <2> QED BY <1>1, <1>2, <2>1, <2>2, FailInv, QuietStep
<1>5. CASE ~(IsChain(l) /\ b \notin Available)
  <2>1. UNCHANGED <<plan, out, result>>
    BY <1>5 DEF Probe
  <2>2. CASE b \in Cached /\ at' = [at EXCEPT ![l] = "hit"] /\ key' = [key EXCEPT ![l] = k]
    <3>1. goal[l].path \in Path /\ file[goal[l].path].content \in seen[l]
      BY <1>1 DEF Watches
    <3>2. k \in Key /\ k.backend = b /\ k.path = goal[l].path /\ k.stamp = file[goal[l].path].stamp
      BY <2>2, <3>1 DEF Fingerprint, Key, LoaderTypeOK, Stamps
    <3>3. k.stamp <= edits /\ h[<<k.path, k.stamp>>] \in seen[l]
      BY <3>1, <3>2 DEF History, FileHistory
    <3> HIDE DEF k
    <3>4. LoadTypeOK' /\ Alone(l) /\ at'[l] = "hit" /\ key'[l] = k
      BY <2>1, <2>2, <3>2 DEF LoaderTypeOK, LoadTypeOK, Alone
    <3>5. Watches(l)' /\ HasPlan(l)' /\ Saves(l, h)' /\ IsCurrent(l)' /\ FailsAtLast(l)'
      BY <1>1, <1>2, <2>1, <3>4 DEF Watches, HasPlan, Saves, IsCurrent, FailsAtLast, Busy, IsChain
    <3>6. FoundEntry(l, h)'
      BY <1>2, <2>1, <3>2, <3>3, <3>4 DEF FoundEntry
    <3> QED BY <1>2, <3>4, <3>5, <3>6, QuietStep DEF LoaderOK
  <2>3. CASE at' = [at EXCEPT ![l] = "run"] /\ UNCHANGED key
    <3>1. LoadTypeOK' /\ Alone(l) /\ at'[l] = "run"
      BY <2>1, <2>3 DEF LoaderTypeOK, LoadTypeOK, Alone
    <3>2. LoaderOK(l, h)'
      BY <1>1, <1>2, <2>1, <3>1
      DEF LoaderOK, Watches, HasPlan, FoundEntry, Saves, IsCurrent, FailsAtLast, Busy, IsChain
    <3> QED BY <1>2, <3>1, <3>2, QuietStep
  <2> QED BY <1>5, <2>2, <2>3 DEF Probe
<1> QED BY <1>4, <1>5

LEMMA ReadEntryInv ==
  ASSUME LoaderTypeOK, NEW l \in Loader, NEW h, History(h), \A m \in Loader : LoaderOK(m, h), ReadEntry(l)
  PROVE  LoaderInv'
<1> DEFINE b == Head(plan[l])
           entry == cache[key[l]]
<1>1. at[l] = "hit" /\ Busy(l) /\ LoaderOK(l, h) /\ Watches(l) /\ HasPlan(l) /\ FoundEntry(l, h)
  BY DEF ReadEntry, Busy, LoaderOK
<1>2. UNCHANGED <<file, edits, goal, seen, cache, raced>>
  BY DEF ReadEntry
<1>3. key[l] \in Key /\ b = key[l].backend /\ b \in Cached /\ b \in Backend
  BY <1>1 DEF FoundEntry, Key, Backend
<1>4. CASE Fail(l)
  BY <1>1, <1>2, <1>3, <1>4, CachedHasReason, FailInv, QuietStep
<1>5. CASE entry \notin {NoFile, Partial} /\ Return(l, Got(b, entry.backend, entry.content, key[l]))
  <2>1. entry \in [backend : Cached, content : Held]
    BY <1>3, <1>5 DEF LoaderTypeOK
  <2>2. entry.backend = b /\ (key[l] \in raced \/ entry.content = h[<<key[l].path, key[l].stamp>>])
    BY <1>3, <1>5 DEF History, EntryHistory
  <2>3. key[l] \in raced \/ entry.content \in seen[l]
    BY <1>1, <2>2 DEF FoundEntry
  <2> HIDE DEF entry, b
  <2>4. Got(b, entry.backend, entry.content, key[l]) \in Result
    BY <1>3, <2>1, <2>2 DEF Got, Result
  <2>5. /\ LoadTypeOK' /\ Alone(l) /\ at'[l] = "done"
        /\ result'[l] = Got(b, entry.backend, entry.content, key[l])
    BY <1>5, <2>4, ReturnAlone
  <2>6. IsCurrent(l)' /\ FailsAtLast(l)'
    BY <1>2, <2>2, <2>3, <2>5 DEF IsCurrent, FailsAtLast, Got
  <2>7. LoaderOK(l, h)'
    BY <1>1, <1>2, <2>5, <2>6, DoneOK
  <2> QED BY <1>2, <2>5, <2>7, QuietStep
<1> QED BY <1>4, <1>5 DEF ReadEntry

LEMMA RunToolInv ==
  ASSUME LoaderTypeOK, NEW l \in Loader, NEW h, History(h), \A m \in Loader : LoaderOK(m, h), RunTool(l)
  PROVE  LoaderInv'
<1> DEFINE b == Head(plan[l])
           c == file[goal[l].path].content
           o == IF c = Missing \/ b \notin Available THEN "error" ELSE Outcome[b][c]
<1>1. at[l] = "run" /\ Busy(l) /\ LoaderOK(l, h) /\ Watches(l) /\ HasPlan(l)
  BY DEF RunTool, Busy, LoaderOK
<1>2. UNCHANGED <<file, edits, goal, seen, cache, raced>>
  BY DEF RunTool
<1>3. plan[l] \in Seq(Backend) /\ plan[l] # <<>> /\ b \in Backend
  BY <1>1 DEF HasPlan, LoaderTypeOK, LoadTypeOK
<1>4. c \in seen[l] /\ c \in Held
  BY <1>1 DEF Watches, LoaderTypeOK
<1>5. ASSUME Fail(l), o \in {"error", "garbled"} \/ b \in Cached
      PROVE  LoaderInv'
  <2>1. CASE b \in Cached
    BY <1>1, <1>2, <1>5, <2>1, CachedHasReason, FailInv, QuietStep
  <2>2. CASE b \notin Cached /\ o \in {"error", "garbled"}
    <3>1. ASSUME IsChain(l), Len(plan[l]) = 1
          PROVE  c = Missing \/ Outcome[b][c] \in {"garbled", "error"}
      <4>0. ~(Len(plan[l]) > 1)
        BY <3>1
      <4>1. b = Final(plan[l])
        BY <1>3, <4>0, FirstAndLast
      <4>2. Final(plan[l]) \in {"text", "msgpack"}
        BY <1>1, <3>1, LastOfPlan DEF HasPlan, Watches, IsChain
      <4>3. b \in Available
        BY <4>1, <4>2, LoaderAssumption
      <4> QED BY <2>2, <4>3
    <3>2. Reason(l)
      BY <1>4, <3>1 DEF Reason
    <3> QED BY <1>1, <1>2, <1>5, <3>2, FailInv, QuietStep
  <2> QED BY <1>5, <2>1, <2>2
<1>6. ASSUME Succeed(l, c)
      PROVE  LoaderInv'
  BY <1>1, <1>2, <1>4, <1>6, SucceedInv, QuietStep
<1>7. ASSUME b \in Cached, at' = [at EXCEPT ![l] = "save"], out' = [out EXCEPT ![l] = c],
             UNCHANGED <<plan, key, result>>
      PROVE  LoaderInv'
  <2>1. LoadTypeOK' /\ Alone(l) /\ at'[l] = "save" /\ out'[l] = c
    BY <1>4, <1>7 DEF LoaderTypeOK, LoadTypeOK, Alone
  <2>2. LoaderOK(l, h)'
    BY <1>1, <1>2, <1>4, <1>7, <2>1
    DEF LoaderOK, Watches, HasPlan, FoundEntry, Saves, IsCurrent, FailsAtLast, Busy, IsChain
  <2> QED BY <1>2, <2>1, <2>2, QuietStep
<1>8. CASE o = "error"
  <2>1. Fail(l)
    BY <1>8 DEF RunTool
  <2> QED BY <1>5, <1>8, <2>1
<1>9. CASE o = "garbled" /\ b # "pass"
  <2>1. Fail(l)
    BY <1>9 DEF RunTool
  <2> QED BY <1>5, <1>9, <2>1
<1>10. CASE o = "empty" /\ b \in {"ffi", "direct"}
  <2>1. Fail(l) \/ Succeed(l, c)
    BY <1>10 DEF RunTool
  <2> QED BY <1>5, <1>6, <1>10, <2>1 DEF Cached
<1>11. CASE o # "error" /\ (b = "pass" \/ (o = "module" /\ b \in Cached))
  <2>1. b \in Cached
    BY <1>11 DEF Cached
  <2>2. at' = [at EXCEPT ![l] = "save"] /\ out' = [out EXCEPT ![l] = c] /\ UNCHANGED <<plan, key, result>>
    BY <1>11 DEF RunTool
  <2> QED BY <1>7, <2>1, <2>2
<1>12. CASE /\ o # "error" /\ ~(o = "garbled" /\ b # "pass")
            /\ ~(o = "empty" /\ b \in {"ffi", "direct"})
            /\ ~(b = "pass" \/ (o = "module" /\ b \in Cached))
  <2>1. Succeed(l, c)
    BY <1>12 DEF RunTool
  <2> QED BY <1>6, <2>1
<1> QED BY <1>8, <1>9, <1>10, <1>11, <1>12

(* An entry is named after what the file holds now, which need not be what *)
(* was extracted; then the name is one of those that an edit raced.        *)
LEMMA OpenEntryInv ==
  ASSUME LoaderTypeOK, NEW l \in Loader, NEW h, History(h), \A m \in Loader : LoaderOK(m, h), OpenEntry(l)
  PROVE  LoaderInv'
<1> DEFINE path == goal[l].path
           k == Fingerprint(path, Head(plan[l]))
<1>1. at[l] = "save" /\ LoaderOK(l, h) /\ Watches(l) /\ HasPlan(l) /\ Saves(l, h)
  BY DEF OpenEntry, LoaderOK
<1>2. UNCHANGED <<file, edits, goal, seen>>
  BY DEF OpenEntry
<1>3. CASE AfterSave(l) /\ UNCHANGED <<cache, raced>>
  BY <1>1, <1>2, <1>3, AfterSaveInv, QuietStep
<1>4. CASE /\ cache' = [cache EXCEPT ![k] = Partial]
           /\ raced' = IF file[path].content # out[l] THEN raced \cup {k} ELSE raced
           /\ key' = [key EXCEPT ![l] = k] /\ at' = [at EXCEPT ![l] = "write"]
           /\ UNCHANGED <<plan, out, result>>
  <2>1. path \in Path
    BY <1>1 DEF Watches
  <2>2. /\ k \in Key /\ k.backend = Head(plan[l]) /\ k.path = path /\ k.stamp = file[path].stamp
        /\ k.stamp <= edits /\ h[<<k.path, k.stamp>>] = file[path].content
    BY <1>1, <2>1 DEF Saves, Fingerprint, Key, LoaderTypeOK, Stamps, History, FileHistory
  <2> HIDE DEF k
  <2>3. LoadTypeOK' /\ Alone(l) /\ at'[l] = "write" /\ key'[l] = k
    BY <1>4, <2>2 DEF LoaderTypeOK, LoadTypeOK, Alone
  <2>4. raced' \in SUBSET Key /\ raced \subseteq raced' /\ (k \in raced' \/ out[l] = file[path].content)
    BY <1>4, <2>2 DEF LoaderTypeOK
  <2>5. Watches(l)' /\ HasPlan(l)' /\ FoundEntry(l, h)' /\ IsCurrent(l)' /\ FailsAtLast(l)'
    BY <1>1, <1>2, <1>4, <2>3
    DEF Watches, HasPlan, FoundEntry, IsCurrent, FailsAtLast, Busy, IsChain
  <2>6. Saves(l, h)'
    BY <1>1, <1>2, <1>4, <2>2, <2>3, <2>4 DEF Saves
  <2>7. cache' \in CacheType /\ \A j \in Key : EntryHistory(j, h)'
    <3>1. cache'[k] = Partial /\ \A j \in Key : j # k => cache'[j] = cache[j]
      BY <1>4, <2>2 DEF LoaderTypeOK
    <3>2. ASSUME NEW j \in Key
          PROVE  EntryHistory(j, h)'
      BY <1>2, <2>4, <3>1 DEF EntryHistory, History
    <3>3. cache' \in CacheType
      BY <1>4, <2>2 DEF LoaderTypeOK, CacheType
    <3> QED BY <3>2, <3>3
  <2> QED BY <1>2, <2>3, <2>4, <2>5, <2>6, <2>7, LoadStep DEF LoaderOK
<1> QED BY <1>3, <1>4 DEF OpenEntry

LEMMA WriteEntryInv ==
  ASSUME LoaderTypeOK, NEW l \in Loader, NEW h, History(h), \A m \in Loader : LoaderOK(m, h), WriteEntry(l)
  PROVE  LoaderInv'
<1> DEFINE mine == [backend |-> Head(plan[l]), content |-> out[l]]
<1>1. at[l] = "write" /\ LoaderOK(l, h) /\ Saves(l, h)
  BY DEF WriteEntry, LoaderOK
<1>2. UNCHANGED <<file, edits, goal, seen, raced>> /\ AfterSave(l)
  BY DEF WriteEntry
<1>3. LoadTypeOK' /\ Alone(l) /\ LoaderOK(l, h)'
  BY <1>1, <1>2, AfterSaveInv
<1>4. cache' \in CacheType /\ \A j \in Key : EntryHistory(j, h)'
  <2>1. CASE UNCHANGED cache
    BY <1>2, <2>1 DEF LoaderTypeOK, CacheType, History, EntryHistory
  <2>2. CASE key[l] # NoKey
    <3>1. /\ key[l] \in Key /\ key[l].backend = Head(plan[l]) /\ key[l].stamp <= edits
          /\ key[l] \in raced \/ out[l] = h[<<key[l].path, key[l].stamp>>]
          /\ Head(plan[l]) \in Cached /\ out[l] \in Held
      BY <1>1, <2>2 DEF Saves, LoaderTypeOK
    <3>2. PICK left \in {mine, Partial, cache[key[l]]} : cache' = [cache EXCEPT ![key[l]] = left]
      BY <2>2 DEF WriteEntry
    <3>3. mine \in [backend : Cached, content : Held]
      BY <3>1
    <3>4. cache' \in CacheType
      BY <3>1, <3>2, <3>3 DEF LoaderTypeOK, CacheType
    <3>5. cache'[key[l]] = left /\ \A j \in Key : j # key[l] => cache'[j] = cache[j]
      BY <3>1, <3>2 DEF LoaderTypeOK
    <3>6. ASSUME NEW j \in Key
          PROVE  EntryHistory(j, h)'
      <4>1. CASE left = mine /\ j = key[l]
        BY <1>2, <3>1, <3>5, <4>1 DEF EntryHistory
      <4>2. CASE left = Partial /\ j = key[l]
        BY <3>5, <4>2 DEF EntryHistory
      <4>3. CASE cache'[j] = cache[j]
        BY <1>2, <4>3 DEF EntryHistory, History
      <4> QED BY <3>2, <3>5, <4>1, <4>2, <4>3
    <3> QED BY <3>4, <3>6
  <2> QED BY <2>1, <2>2 DEF WriteEntry
<1>5. raced' \in SUBSET Key
  BY <1>2 DEF LoaderTypeOK
<1> QED BY <1>2, <1>3, <1>4, <1>5, LoadStep

LEMMA LoaderStepInv ==
  ASSUME LoaderInv, NEW l \in Loader, LoaderStep(l)
  PROVE  LoaderInv'
<1>1. LoaderTypeOK
  BY DEF LoaderInv
<1>2. PICK h : History(h) /\ \A m \in Loader : LoaderOK(m, h)
  BY DEF LoaderInv
<1> QED BY <1>1, <1>2, ProbeInv, ReadEntryInv, RunToolInv, OpenEntryInv, WriteEntryInv DEF LoaderStep

-----------------------------------------------------------------------------
(* A load begins, is taken or dies. *)

LEMMA CallerStep ==
  ASSUME LoaderTypeOK, NEW l \in Loader, NEW h, History(h), \A m \in Loader : LoaderOK(m, h),
         LoaderTypeOK', UNCHANGED <<file, edits, cache, raced>>, Alone(l), LoaderOK(l, h)',
         \A m \in Loader \ {l} : goal'[m] = goal[m] /\ seen'[m] = seen[m]
  PROVE  LoaderInv'
<1>1. ASSUME NEW m \in Loader \ {l}
      PROVE  LoaderOK(m, h)'
  BY OthersKept DEF Alone
<1>2. History(h)'
  BY DEF History, FileHistory, EntryHistory
<1> QED BY <1>1, <1>2 DEF LoaderInv

LEMMA IdleOK ==
  ASSUME NEW l \in Loader, NEW h, at'[l] = "idle"
  PROVE  LoaderOK(l, h)'
BY DEF LoaderOK, Watches, HasPlan, FoundEntry, Saves, IsCurrent, FailsAtLast, Busy

LEMMA TakeInv ==
  ASSUME LoaderInv, NEW l \in Loader, Take(l)
  PROVE  LoaderInv'
<1>1. LoaderTypeOK
  BY DEF LoaderInv
<1>2. PICK h : History(h) /\ \A m \in Loader : LoaderOK(m, h)
  BY DEF LoaderInv
<1>3. None \in Result /\ Idle \in [path : Path \cup {Absent}, strategy : Strategy \cup {Absent}]
  BY DEF None, Error, Result, Idle
<1>4. LoaderTypeOK'
  BY <1>1, <1>3 DEF LoaderTypeOK, LoadTypeOK, Take
<1>5. at'[l] = "idle" /\ Alone(l) /\ \A m \in Loader \ {l} : goal'[m] = goal[m] /\ seen'[m] = seen[m]
  BY <1>1 DEF LoaderTypeOK, LoadTypeOK, Take, Alone
<1> QED BY <1>1, <1>2, <1>4, <1>5, IdleOK, CallerStep DEF Take

LEMMA CrashInv ==
  ASSUME LoaderInv, NEW l \in Loader, Crash(l)
  PROVE  LoaderInv'
<1>1. LoaderTypeOK
  BY DEF LoaderInv
<1>2. PICK h : History(h) /\ \A m \in Loader : LoaderOK(m, h)
  BY DEF LoaderInv
<1>3. Idle \in [path : Path \cup {Absent}, strategy : Strategy \cup {Absent}]
  BY DEF Idle
<1>4. LoaderTypeOK'
  BY <1>1, <1>3 DEF LoaderTypeOK, LoadTypeOK, Crash
<1>5. at'[l] = "idle" /\ Alone(l) /\ \A m \in Loader \ {l} : goal'[m] = goal[m] /\ seen'[m] = seen[m]
  BY <1>1 DEF LoaderTypeOK, LoadTypeOK, Crash, Alone
<1> QED BY <1>1, <1>2, <1>4, <1>5, IdleOK, CallerStep DEF Crash

LEMMA BeginInv ==
  ASSUME LoaderInv, NEW l \in Loader, NEW path \in Path, NEW strategy \in Strategy,
         Begin(l, path, strategy)
  PROVE  LoaderInv'
<1>1. LoaderTypeOK
  BY DEF LoaderInv
<1>2. PICK h : History(h) /\ \A m \in Loader : LoaderOK(m, h)
  BY DEF LoaderInv
<1>3. /\ goal' = [goal EXCEPT ![l] = [path |-> path, strategy |-> strategy]]
      /\ seen' = [seen EXCEPT ![l] = {file[path].content}]
      /\ UNCHANGED <<file, edits, cache, key, out, raced>>
  BY DEF Begin
<1>4. /\ goal'[l] = [path |-> path, strategy |-> strategy] /\ seen'[l] = {file[path].content}
      /\ \A m \in Loader \ {l} : goal'[m] = goal[m] /\ seen'[m] = seen[m]
  BY <1>1, <1>3 DEF LoaderTypeOK
<1>5. /\ goal' \in [Loader -> [path : Path \cup {Absent}, strategy : Strategy \cup {Absent}]]
      /\ seen' \in [Loader -> SUBSET Held]
  BY <1>1, <1>3 DEF LoaderTypeOK
<1>6. Watches(l)'
  BY <1>3, <1>4 DEF Watches
<1>7. CASE Exists(path) /\ plan' = [plan EXCEPT ![l] = Plan(path, strategy)]
           /\ at' = [at EXCEPT ![l] = "probe"] /\ UNCHANGED result
  <2>1. Plan(path, strategy) \in Seq(Backend) /\ Plan(path, strategy) # <<>>
    BY LastOfPlan
  <2>2. LoadTypeOK' /\ Alone(l) /\ at'[l] = "probe" /\ plan'[l] = Plan(path, strategy)
    BY <1>1, <1>3, <1>7, <2>1 DEF LoaderTypeOK, LoadTypeOK, Alone
  <2>3. LoaderTypeOK'
    BY <1>1, <1>3, <1>5, <2>2 DEF LoaderTypeOK
  <2>4. FoundEntry(l, h)' /\ Saves(l, h)' /\ IsCurrent(l)' /\ FailsAtLast(l)'
    BY <2>2 DEF FoundEntry, Saves, IsCurrent, FailsAtLast
  <2>5. HasPlan(l)'
    BY <1>4, <2>1, <2>2 DEF HasPlan
  <2>6. LoaderOK(l, h)'
    BY <1>6, <2>4, <2>5 DEF LoaderOK
  <2> QED BY <1>1, <1>2, <1>3, <1>4, <2>2, <2>3, <2>6, CallerStep
<1>8. CASE ~Exists(path) /\ at' = [at EXCEPT ![l] = "done"] /\ result' = [result EXCEPT ![l] = None]
           /\ UNCHANGED plan
  <2>1. None \in Result
    BY DEF None, Error, Result
  <2>2. LoadTypeOK' /\ Alone(l) /\ at'[l] = "done" /\ result'[l] = None
    BY <1>1, <1>3, <1>8, <2>1 DEF LoaderTypeOK, LoadTypeOK, Alone
  <2>3. LoaderTypeOK'
    BY <1>1, <1>3, <1>5, <2>2 DEF LoaderTypeOK
  <2>4. HasPlan(l)' /\ FoundEntry(l, h)' /\ Saves(l, h)'
    BY <2>2 DEF HasPlan, FoundEntry, Saves, Busy
  <2>5. Missing \in seen'[l]
    BY <1>4, <1>8 DEF Exists
  <2>6. IsCurrent(l)' /\ FailsAtLast(l)'
    BY <2>2, <2>5 DEF IsCurrent, FailsAtLast, None, Error
  <2>7. LoaderOK(l, h)'
    BY <1>6, <2>4, <2>6 DEF LoaderOK
  <2> QED BY <1>1, <1>2, <1>3, <1>4, <2>2, <2>3, <2>7, CallerStep
<1> QED BY <1>7, <1>8 DEF Begin

-----------------------------------------------------------------------------
(* What else happens. *)

(* An edited file has a stamp that nothing is named after yet.             *)
LEMMA EditInv ==
  ASSUME LoaderInv, NEW path \in Path, NEW c \in Content \cup {Missing}, Edit(path, c)
  PROVE  LoaderInv'
<1>1. LoaderTypeOK
  BY DEF LoaderInv
<1>2. PICK h : History(h) /\ \A m \in Loader : LoaderOK(m, h)
  BY DEF LoaderInv
<1> PICK new : new = [x \in Path \X Stamps |-> IF x = <<path, edits + 1>> THEN c ELSE h[x]]
  OBVIOUS
<1>3. /\ edits' = edits + 1 /\ edits \in Nat /\ edits + 1 \in Stamps /\ c \in Held
      /\ file' = [file EXCEPT ![path] = [content |-> c, stamp |-> edits + 1]]
      /\ UNCHANGED <<cache, at, goal, plan, key, out, result, raced>>
  BY <1>1, LoaderAssumption DEF Edit, LoaderTypeOK, Stamps, Held
<1>4. /\ file'[path] = [content |-> c, stamp |-> edits + 1]
      /\ \A p \in Path : p # path => file'[p] = file[p]
      /\ file' \in [Path -> [content : Held, stamp : Stamps]]
  BY <1>1, <1>3 DEF LoaderTypeOK
<1>5. \A m \in Loader : /\ seen[m] \subseteq seen'[m] /\ seen'[m] \subseteq Held
                        /\ goal[m].path = path => c \in seen'[m]
  BY <1>1, <1>3 DEF Edit, LoaderTypeOK
<1>6. LoaderTypeOK'
  <2>1. seen' \in [Loader -> SUBSET Held]
    BY <1>5 DEF Edit
  <2> QED BY <1>1, <1>3, <1>4, <2>1 DEF LoaderTypeOK, LoadTypeOK
<1>7. /\ new \in [Path \X Stamps -> Held] /\ new[<<path, edits + 1>>] = c
      /\ \A p \in Path, s \in Stamps : s <= edits => new[<<p, s>>] = h[<<p, s>>]
  BY <1>2, <1>3 DEF History, FileHistory, Stamps
<1>8. FileHistory(new)'
  <2>1. ASSUME NEW p \in Path
        PROVE  file'[p].stamp <= edits' /\ new[<<p, file'[p].stamp>>] = file'[p].content
    <3>1. CASE p = path
      BY <1>3, <1>4, <1>7, <3>1
    <3>2. CASE p # path
      <4>1. /\ file[p].stamp \in Stamps /\ file[p].stamp <= edits
            /\ h[<<p, file[p].stamp>>] = file[p].content
        BY <1>1, <1>2 DEF History, FileHistory, LoaderTypeOK
      <4>2. file[p].stamp <= edits + 1
        BY <1>3, <4>1 DEF Stamps
      <4>3. new[<<p, file[p].stamp>>] = h[<<p, file[p].stamp>>]
        BY <1>7, <4>1
      <4>4. file'[p] = file[p]
        BY <1>4, <3>2
      <4> QED BY <1>3, <4>1, <4>2, <4>3, <4>4
    <3> QED BY <3>1, <3>2
  <2> QED BY <1>7, <2>1 DEF FileHistory
<1>9. ASSUME NEW k \in Key, k.stamp <= edits
      PROVE  k.stamp <= edits' /\ new[<<k.path, k.stamp>>] = h[<<k.path, k.stamp>>]
  <2>1. k.path \in Path /\ k.stamp \in Stamps
    BY DEF Key, Stamps
  <2>2. k.stamp <= edits'
    BY <1>3, <1>9, <2>1 DEF Stamps
  <2> QED BY <1>7, <1>9, <2>1, <2>2
<1>10. ASSUME NEW k \in Key
       PROVE  EntryHistory(k, new)'
  BY <1>2, <1>3, <1>9 DEF History, EntryHistory
<1>11. ASSUME NEW m \in Loader
       PROVE  LoaderOK(m, new)'
  <2>1. Watches(m) /\ HasPlan(m) /\ FoundEntry(m, h) /\ Saves(m, h) /\ IsCurrent(m) /\ FailsAtLast(m)
    BY <1>2 DEF LoaderOK
  <2>2. Watches(m)'
    BY <1>3, <1>4, <1>5, <2>1 DEF Watches
  <2>3. HasPlan(m)'
    BY <1>3, <2>1 DEF HasPlan, Busy, IsChain
  <2>4. FoundEntry(m, new)'
    BY <1>3, <1>5, <1>9, <2>1 DEF FoundEntry
  <2>5. Saves(m, new)'
    BY <1>3, <1>5, <1>9, <2>1 DEF Saves
  <2>6. IsCurrent(m)' /\ FailsAtLast(m)'
    BY <1>3, <1>5, <2>1 DEF IsCurrent, FailsAtLast, IsChain
  <2> QED BY <2>2, <2>3, <2>4, <2>5, <2>6 DEF LoaderOK
<1> QED BY <1>6, <1>8, <1>10, <1>11 DEF LoaderInv, History

LEMMA RemoveEntryInv ==
  ASSUME LoaderInv, NEW k \in Key, RemoveEntry(k)
  PROVE  LoaderInv'
<1>1. LoaderTypeOK
  BY DEF LoaderInv
<1>2. PICK h : History(h) /\ \A m \in Loader : LoaderOK(m, h)
  BY DEF LoaderInv
<1>3. /\ UNCHANGED <<file, edits, at, goal, plan, out, result, seen, raced>>
      /\ cache' = [cache EXCEPT ![k] = NoFile]
      /\ key' = [l \in Loader |-> IF at[l] = "write" /\ key[l] = k THEN NoKey ELSE key[l]]
  BY DEF RemoveEntry
<1>4. LoaderTypeOK'
  BY <1>1, <1>3 DEF LoaderTypeOK, LoadTypeOK
<1>5. History(h)'
  <2>1. FileHistory(h)'
    BY <1>2, <1>3 DEF History, FileHistory
  <2>2. \A j \in Key : cache'[j] = NoFile \/ cache'[j] = cache[j]
    BY <1>1, <1>3 DEF LoaderTypeOK
  <2>3. \A j \in Key : EntryHistory(j, h)'
    BY <1>2, <1>3, <2>2 DEF History, EntryHistory
  <2> QED BY <2>1, <2>3 DEF History
<1>6. ASSUME NEW m \in Loader
      PROVE  LoaderOK(m, h)'
  <2>1. key'[m] = key[m] \/ (at[m] = "write" /\ key'[m] = NoKey)
    BY <1>3
  <2>2. Watches(m)' /\ HasPlan(m)' /\ IsCurrent(m)' /\ FailsAtLast(m)'
    BY <1>2, <1>3 DEF LoaderOK, Watches, HasPlan, IsCurrent, FailsAtLast, Busy, IsChain
  <2>3. FoundEntry(m, h)'
    BY <1>2, <1>3, <2>1 DEF LoaderOK, FoundEntry
  <2>4. Saves(m, h)'
    BY <1>2, <1>3, <2>1 DEF LoaderOK, Saves
  <2> QED BY <2>2, <2>3, <2>4 DEF LoaderOK
<1> QED BY <1>4, <1>5, <1>6 DEF LoaderInv

LEMMA LoaderStutter ==
  ASSUME LoaderInv, UNCHANGED loaderVars
  PROVE  LoaderInv'
<1>1. PICK h : History(h) /\ \A m \in Loader : LoaderOK(m, h)
  BY DEF LoaderInv
<1>2. LoaderTypeOK'
  BY DEF loaderVars, LoaderInv, LoaderTypeOK, LoadTypeOK
<1>3. History(h)'
  BY <1>1 DEF loaderVars, History, FileHistory, EntryHistory
<1>4. ASSUME NEW m \in Loader
      PROVE  LoaderOK(m, h)'
  BY <1>1, OthersKept DEF loaderVars
<1> QED BY <1>2, <1>3, <1>4 DEF LoaderInv

LEMMA LoaderStart ==
  ASSUME LoaderInit
  PROVE  LoaderInv
<1> DEFINE h == [x \in Path \X Stamps |-> file[x[1]].content]
<1>1. 0 \in Stamps
  BY LoaderAssumption DEF Stamps
<1>2. /\ None \in Result /\ Idle \in [path : Path \cup {Absent}, strategy : Strategy \cup {Absent}]
  BY DEF None, Error, Result, Idle
<1>3. file \in [Path -> [content : Held, stamp : Stamps]]
  BY <1>1 DEF LoaderInit, Held
<1>4. LoaderTypeOK
  BY <1>1, <1>2, <1>3 DEF LoaderInit, LoaderTypeOK, LoadTypeOK
<1>5. h \in [Path \X Stamps -> Held]
  BY <1>3
<1>6. \A p \in Path : file[p].stamp = 0 /\ h[<<p, 0>>] = file[p].content
  BY <1>1 DEF LoaderInit
<1> HIDE DEF h
<1>7. FileHistory(h)
  BY <1>5, <1>6 DEF FileHistory, LoaderInit
<1>8. \A k \in Key : EntryHistory(k, h)
  BY DEF EntryHistory, LoaderInit
<1>9. \A l \in Loader : LoaderOK(l, h)
  BY DEF LoaderInit, LoaderOK, Watches, HasPlan, FoundEntry, Saves, IsCurrent, FailsAtLast, Busy
<1> QED BY <1>4, <1>7, <1>8, <1>9 DEF LoaderInv, History

-----------------------------------------------------------------------------
(* The project. *)

LEMMA LoaderNextInv ==
  ASSUME LoaderInv,
         \/ Environment
         \/ \E l \in Loader : LoaderStep(l) \/ Take(l) \/ Crash(l)
         \/ \E l \in Loader, path \in Path, strategy \in Strategy : Begin(l, path, strategy)
         \/ UNCHANGED loaderVars
  PROVE  LoaderInv'
BY EditInv, RemoveEntryInv, LoaderStepInv, TakeInv, CrashInv, BeginInv, LoaderStutter DEF Environment

LEMMA AtOthers ==
  ASSUME LoaderInv, NEW l \in Loader, NEW m \in Loader \ {l}, NEW path, NEW strategy,
         LoaderStep(l) \/ Take(l) \/ Crash(l) \/ Begin(l, path, strategy)
  PROVE  at'[m] = at[m]
<1>1. at \in [Loader -> {"idle", "probe", "hit", "run", "save", "write", "done"}]
  BY DEF LoaderInv, LoaderTypeOK, LoadTypeOK
<1>2. UNCHANGED at \/ \E x : at' = [at EXCEPT ![l] = x]
  BY DEF LoaderStep, Probe, ReadEntry, RunTool, OpenEntry, WriteEntry, AfterSave, Fail, Succeed,
         Return, Take, Crash, Begin
<1> QED BY <1>1, <1>2

Module == Held \cup {Taken}

N == Len(Inputs)

ProjectTypeOK ==
  /\ stage \in {"new", "loading", "ready", "running", "reported", "refused"}
  /\ pipelines \in Seq(Module) /\ report \in Seq(Module) /\ loads \in Seq(Result)
  /\ next \in Nat \ {0} /\ runs \in Nat

(* Pipeline i has the module its load gave.                                *)
HasModule(i) == pipelines[i] = loads[i].content

(* Before the last input is loaded.                                        *)
LoadingInv ==
  /\ stage # "loading" => at[Project] = "idle"
  /\ stage \in {"new", "loading"} =>
       /\ runs = 0 /\ Len(loads) = next - 1 /\ Len(pipelines) = next - 1
       /\ \A i \in 1 .. next - 1 : loads[i].ok /\ HasModule(i)
  /\ stage = "loading" => next <= N

(* After that; what the first run has taken it has reported.               *)
BuiltInv ==
  /\ stage \in {"ready", "running", "reported"} =>
       /\ Len(pipelines) = N /\ Len(loads) = N
       /\ \A i \in 1 .. N : loads[i].ok /\ (HasModule(i) \/ pipelines[i] = Taken)
  /\ stage \in {"running", "reported"} => runs >= 1
  /\ stage = "ready" /\ runs = 0 => \A i \in 1 .. N : HasModule(i)
  /\ stage = "running" /\ runs = 1 =>
       /\ Len(report) = next - 1 /\ next <= N + 1
       /\ \A i \in 1 .. next - 1 : report[i] = loads[i].content
       /\ \A i \in next .. N : HasModule(i)
  /\ stage = "reported" /\ ~failed /\ runs = 1 => report = [i \in 1 .. N |-> loads[i].content]

ProjectInv == LoaderInv /\ ProjectTypeOK /\ LoadingInv /\ BuiltInv

LEMMA InputsLength == N \in Nat /\ \A i \in 1 .. N : Inputs[i] \in Path
BY ProjectAssumption DEF N

LEMMA LoadInputInv ==
  ASSUME ProjectInv, LoadInput
  PROVE  ProjectInv'
<1>1. next \in 1 .. N /\ Inputs[next] \in Path
  BY InputsLength DEF ProjectInv, ProjectTypeOK, LoadInput, N
<1>2. LoaderInv'
  BY <1>1, BeginInv, ProjectAssumption DEF ProjectInv, LoadInput, Strategy
<1>3. ProjectTypeOK'
  BY DEF ProjectInv, ProjectTypeOK, LoadInput
<1>4. LoadingInv'
  BY <1>1 DEF ProjectInv, LoadingInv, LoadInput, HasModule
<1>5. BuiltInv'
  BY DEF BuiltInv, LoadInput
<1> QED BY <1>2, <1>3, <1>4, <1>5 DEF ProjectInv

LEMMA InputLoadedInv ==
  ASSUME ProjectInv, InputLoaded
  PROVE  ProjectInv'
<1> DEFINE r == result[Project]
<1>1. LoaderInv' /\ at'[Project] = "idle"
  <2>1. LoaderInv'
    BY TakeInv, ProjectAssumption DEF ProjectInv, InputLoaded
  <2>2. at \in [Loader -> {"idle", "probe", "hit", "run", "save", "write", "done"}]
    BY DEF ProjectInv, LoaderInv, LoaderTypeOK, LoadTypeOK
  <2> QED BY <2>1, <2>2, ProjectAssumption DEF InputLoaded, Take
<1>2. r \in Result /\ (r.ok => r.content \in Module)
  BY ProjectAssumption DEF ProjectInv, LoaderInv, LoaderTypeOK, LoadTypeOK, Result, Module
<1>3. /\ stage = "loading" /\ loads' = Append(loads, r)
      /\ UNCHANGED <<report, runs, failed>>
  BY DEF InputLoaded
<1>4. /\ next \in 1 .. N /\ runs = 0 /\ Len(loads) = next - 1 /\ Len(pipelines) = next - 1
      /\ \A i \in 1 .. next - 1 : loads[i].ok /\ HasModule(i)
      /\ loads \in Seq(Result) /\ pipelines \in Seq(Module) /\ report \in Seq(Module)
  BY <1>3, InputsLength DEF ProjectInv, LoadingInv, ProjectTypeOK
<1> HIDE DEF r
<1>5. loads' \in Seq(Result)
  BY <1>2, <1>3, <1>4
<1>6. CASE ~r.ok
  <2>1. stage' = "refused" /\ pipelines' = <<>> /\ UNCHANGED next
    BY <1>6 DEF InputLoaded, r
  <2>2. ProjectTypeOK'
    BY <1>3, <1>4, <1>5, <2>1 DEF ProjectInv, ProjectTypeOK
  <2> QED BY <1>1, <2>1, <2>2 DEF ProjectInv, LoadingInv, BuiltInv
<1>7. CASE r.ok
  <2>1. /\ pipelines' = Append(pipelines, r.content)
        /\ IF next < N THEN next' = next + 1 /\ UNCHANGED stage
                       ELSE stage' = "ready" /\ next' = 1
    BY <1>7 DEF InputLoaded, r, N
  <2>2. /\ pipelines' \in Seq(Module) /\ Len(pipelines') = next /\ Len(loads') = next
        /\ \A i \in 1 .. next - 1 : loads'[i] = loads[i] /\ pipelines'[i] = pipelines[i]
        /\ loads'[next] = r /\ pipelines'[next] = r.content
    BY <1>2, <1>3, <1>4, <1>7, <2>1
  <2>3. \A i \in 1 .. next : loads'[i].ok /\ pipelines'[i] = loads'[i].content
    <3> TAKE i \in 1 .. next
    <3>1. CASE i = next
      BY <1>7, <2>2, <3>1
    <3>2. CASE i # next
      <4>1. i \in 1 .. next - 1
        BY <1>4, <3>2
      <4> QED BY <1>4, <2>2, <4>1 DEF HasModule
    <3> QED BY <3>1, <3>2
  <2>4. CASE next < N
    <3>1. next' = next + 1 /\ stage' = "loading" /\ next' - 1 = next /\ next' <= N
          /\ next' \in Nat \ {0}
      BY <1>3, <1>4, <2>1, <2>4, InputsLength
    <3>2. ProjectTypeOK'
      BY <1>3, <1>4, <1>5, <2>2, <3>1 DEF ProjectInv, ProjectTypeOK
    <3>3. LoadingInv'
      BY <1>3, <1>4, <2>2, <2>3, <3>1 DEF LoadingInv, HasModule, N
    <3> QED BY <1>1, <3>1, <3>2, <3>3 DEF ProjectInv, BuiltInv
  <2>5. CASE ~(next < N)
    <3>1. next' = 1 /\ stage' = "ready" /\ next = N
      BY <1>4, <2>1, <2>5, InputsLength
    <3>2. ProjectTypeOK'
      BY <1>3, <1>4, <1>5, <2>2, <3>1 DEF ProjectInv, ProjectTypeOK
    <3>3. BuiltInv'
      BY <1>3, <1>4, <2>2, <2>3, <3>1 DEF BuiltInv, HasModule, N
    <3> QED BY <1>1, <3>1, <3>2, <3>3 DEF ProjectInv, LoadingInv
  <2> QED BY <2>4, <2>5
<1> QED BY <1>6, <1>7

LEMMA RunInv ==
  ASSUME ProjectInv, Run
  PROVE  ProjectInv'
<1>1. /\ stage \in {"ready", "reported"} /\ stage' = "running" /\ next' = 1 /\ report' = <<>>
      /\ runs' = runs + 1 /\ runs \in Nat
      /\ UNCHANGED <<loaderVars, pipelines, loads, failed>>
  BY DEF Run, ProjectInv, ProjectTypeOK
<1>2. LoaderInv'
  BY <1>1, LoaderStutter DEF ProjectInv
<1>3. ProjectTypeOK'
  BY <1>1 DEF ProjectInv, ProjectTypeOK
<1>4. LoadingInv'
  BY <1>1 DEF ProjectInv, LoadingInv, loaderVars
<1>5. BuiltInv'
  <2>1. runs' = 1 => runs = 0 /\ stage = "ready"
    BY <1>1 DEF ProjectInv, BuiltInv
  <2>2. runs' = 1 => \A i \in 1 .. N : HasModule(i)
    BY <2>1 DEF ProjectInv, BuiltInv
  <2>3. /\ Len(pipelines) = N /\ Len(loads) = N
        /\ \A i \in 1 .. N : loads[i].ok /\ (HasModule(i) \/ pipelines[i] = Taken)
    BY <1>1 DEF ProjectInv, BuiltInv
  <2>4. runs' >= 1 /\ next' <= N + 1 /\ Len(report') = next' - 1 /\ 1 .. next' - 1 = {}
    BY <1>1, InputsLength
  <2> QED BY <1>1, <2>2, <2>3, <2>4 DEF BuiltInv, HasModule, N
<1> QED BY <1>2, <1>3, <1>4, <1>5 DEF ProjectInv

LEMMA RunModuleInv ==
  ASSUME ProjectInv, NEW ok \in BOOLEAN, RunModule(ok)
  PROVE  ProjectInv'
<1>1. /\ stage = "running" /\ pipelines' = [pipelines EXCEPT ![next] = Taken]
      /\ UNCHANGED <<loaderVars, runs, loads>>
  BY DEF RunModule
<1>2. /\ Len(pipelines) = N /\ Len(loads) = N /\ next \in 1 .. N /\ runs \in Nat /\ runs >= 1
      /\ \A i \in 1 .. N : loads[i].ok /\ (HasModule(i) \/ pipelines[i] = Taken)
      /\ pipelines \in Seq(Module) /\ report \in Seq(Module) /\ loads \in Seq(Result)
  BY <1>1, InputsLength DEF ProjectInv, ProjectTypeOK, BuiltInv, RunModule
<1>3. /\ pipelines' \in Seq(Module) /\ Len(pipelines') = N /\ pipelines'[next] = Taken
      /\ \A i \in 1 .. N : i # next => pipelines'[i] = pipelines[i]
  BY <1>1, <1>2 DEF Module
<1>4. \A i \in 1 .. N : loads'[i].ok /\ (HasModule(i)' \/ pipelines'[i] = Taken)
  BY <1>1, <1>2, <1>3 DEF HasModule
<1>5. LoaderInv'
  BY <1>1, LoaderStutter DEF ProjectInv
<1>6. UNCHANGED at
  BY <1>1 DEF loaderVars
<1>7. CASE ok
  <2>1. report' = Append(report, pipelines[next]) /\ next' = next + 1 /\ UNCHANGED <<stage, failed>>
    BY <1>7 DEF RunModule
  <2>2. pipelines[next] \in Module
    BY <1>2
  <2>3. ProjectTypeOK'
    BY <1>1, <1>2, <1>3, <2>1, <2>2 DEF ProjectInv, ProjectTypeOK
  <2>4. LoadingInv'
    BY <1>1, <1>6, <2>1 DEF ProjectInv, LoadingInv
  <2>5. ASSUME runs = 1
        PROVE  /\ Len(report') = next' - 1 /\ next' <= N + 1
               /\ \A i \in 1 .. next' - 1 : report'[i] = loads[i].content
               /\ \A i \in next' .. N : HasModule(i)'
    <3>1. /\ Len(report) = next - 1 /\ \A i \in 1 .. next - 1 : report[i] = loads[i].content
          /\ \A i \in next .. N : HasModule(i)
      BY <1>1, <2>5 DEF ProjectInv, BuiltInv
    <3>2. Len(report') = next /\ next' - 1 = next /\ next' <= N + 1
      BY <1>2, <2>1, <2>2, <3>1, InputsLength
    <3>3. report'[next] = loads[next].content
      <4>1. report'[next] = pipelines[next]
        BY <1>2, <2>1, <2>2, <3>1
      <4>2. next \in next .. N
        BY <1>2, InputsLength
      <4> QED BY <3>1, <4>1, <4>2 DEF HasModule
    <3>4. \A i \in 1 .. next - 1 : report'[i] = report[i]
      BY <1>2, <2>1, <2>2, <3>1
    <3>5. \A i \in 1 .. next : i = next \/ i \in 1 .. next - 1
      BY <1>2
    <3>6. \A i \in 1 .. next : report'[i] = loads[i].content
      BY <3>1, <3>3, <3>4, <3>5
    <3>7. \A i \in next' .. N : i \in 1 .. N /\ i # next /\ i \in next .. N
      BY <1>2, <2>1, InputsLength
    <3>8. \A i \in next' .. N : HasModule(i)'
      BY <1>1, <1>3, <3>1, <3>7 DEF HasModule
    <3> QED BY <3>2, <3>6, <3>8
  <2>6. BuiltInv'
    BY <1>1, <1>2, <1>3, <1>4, <2>1, <2>5 DEF BuiltInv, N
  <2> QED BY <1>5, <2>3, <2>4, <2>6 DEF ProjectInv
<1>8. CASE ~ok
  <2>1. stage' = "ready" /\ report' = <<>> /\ next' = 1 /\ failed' = TRUE
    BY <1>8 DEF RunModule
  <2>2. ProjectTypeOK'
    BY <1>1, <1>2, <1>3, <2>1 DEF ProjectInv, ProjectTypeOK
  <2>3. LoadingInv'
    BY <1>1, <1>6, <2>1 DEF ProjectInv, LoadingInv
  <2>4. runs' # 0
    BY <1>1, <1>2
  <2>5. BuiltInv'
    BY <1>1, <1>2, <1>3, <1>4, <2>1, <2>4 DEF BuiltInv, N
  <2> QED BY <1>5, <2>2, <2>3, <2>5 DEF ProjectInv
<1> QED BY <1>7, <1>8

LEMMA ReportInv ==
  ASSUME ProjectInv, Report
  PROVE  ProjectInv'
<1>1. /\ stage = "running" /\ next > Len(pipelines) /\ stage' = "reported" /\ next' = 1
      /\ UNCHANGED <<loaderVars, pipelines, report, runs, loads, failed>>
  BY DEF Report
<1>2. LoaderInv'
  BY <1>1, LoaderStutter DEF ProjectInv
<1>3. ProjectTypeOK'
  BY <1>1 DEF ProjectInv, ProjectTypeOK
<1>4. LoadingInv'
  BY <1>1 DEF ProjectInv, LoadingInv, loaderVars
<1>5. /\ Len(pipelines) = N /\ Len(loads) = N /\ next \in Nat /\ runs >= 1
      /\ \A i \in 1 .. N : loads[i].ok /\ (HasModule(i) \/ pipelines[i] = Taken)
      /\ report \in Seq(Module)
  BY <1>1 DEF ProjectInv, ProjectTypeOK, BuiltInv
<1>6. ASSUME runs = 1
      PROVE  report = [i \in 1 .. N |-> loads[i].content]
  <2>1. /\ Len(report) = next - 1 /\ next <= N + 1
        /\ \A i \in 1 .. next - 1 : report[i] = loads[i].content
    BY <1>1, <1>6 DEF ProjectInv, BuiltInv
  <2>2. next - 1 = N
    BY <1>1, <1>5, <2>1, InputsLength
  <2> QED BY <1>5, <2>1, <2>2
<1>7. BuiltInv'
  BY <1>1, <1>5, <1>6 DEF BuiltInv, HasModule, N
<1> QED BY <1>2, <1>3, <1>4, <1>7 DEF ProjectInv

(* A killed process was loading: a run that has begun loads nothing more.  *)
LEMMA ProjectCrashInv ==
  ASSUME ProjectInv, ProjectCrash
  PROVE  ProjectInv'
<1>1. /\ Crash(Project) /\ stage' = "new" /\ pipelines' = <<>> /\ next' = 1 /\ report' = <<>>
      /\ loads' = <<>> /\ UNCHANGED <<runs, failed>>
  BY DEF ProjectCrash
<1>2. LoaderInv'
  BY <1>1, CrashInv, ProjectAssumption DEF ProjectInv
<1>3. stage = "loading" /\ runs = 0
  BY <1>1 DEF Crash, ProjectInv, LoadingInv
<1>4. at'[Project] = "idle"
  <2>1. at \in [Loader -> {"idle", "probe", "hit", "run", "save", "write", "done"}]
    BY DEF ProjectInv, LoaderInv, LoaderTypeOK, LoadTypeOK
  <2> QED BY <1>1, <2>1, ProjectAssumption DEF Crash
<1>5. ProjectTypeOK'
  BY <1>1 DEF ProjectInv, ProjectTypeOK
<1>6. LoadingInv'
  <2>1. Len(loads') = next' - 1 /\ Len(pipelines') = next' - 1 /\ 1 .. next' - 1 = {}
    BY <1>1
  <2> QED BY <1>1, <1>3, <1>4, <2>1 DEF LoadingInv
<1>7. BuiltInv'
  BY <1>1 DEF BuiltInv
<1> QED BY <1>2, <1>5, <1>6, <1>7 DEF ProjectInv

(* Steps in which no input, module or result changes hands.                *)
LEMMA AsideInv ==
  ASSUME ProjectInv, LoaderInv', UNCHANGED projectVars,
         at'[Project] = at[Project] \/ stage = "loading"
  PROVE  ProjectInv'
<1> USE DEF projectVars
<1>1. ProjectTypeOK'
  BY DEF ProjectInv, ProjectTypeOK
<1>2. LoadingInv'
  BY DEF ProjectInv, LoadingInv, HasModule
<1>3. BuiltInv'
  BY DEF ProjectInv, BuiltInv, HasModule, N
<1> QED BY <1>1, <1>2, <1>3 DEF ProjectInv

LEMMA ProjectStart ==
  ASSUME ProjectInit
  PROVE  ProjectInv
<1>1. LoaderInv
  BY LoaderStart DEF ProjectInit
<1>2. ProjectTypeOK
  BY DEF ProjectInit, ProjectTypeOK
<1>3. LoadingInv
  <2>1. Len(loads) = next - 1 /\ Len(pipelines) = next - 1 /\ 1 .. next - 1 = {}
    BY DEF ProjectInit
  <2> QED BY <2>1, ProjectAssumption DEF ProjectInit, LoaderInit, LoadingInv
<1>4. BuiltInv
  BY DEF ProjectInit, BuiltInv
<1> QED BY <1>1, <1>2, <1>3, <1>4 DEF ProjectInv

LEMMA ProjectStep ==
  ASSUME ProjectInv, [ProjectNext]_vars
  PROVE  ProjectInv'
<1> USE DEF ProjectInv
<1>1. CASE LoadInput
  BY <1>1, LoadInputInv
<1>2. CASE InputLoaded
  BY <1>2, InputLoadedInv
<1>3. CASE Run
  BY <1>3, RunInv
<1>4. CASE Report
  BY <1>4, ReportInv
<1>5. CASE ProjectCrash
  BY <1>5, ProjectCrashInv
<1>6. CASE \E ok \in BOOLEAN : RunModule(ok)
  BY <1>6, RunModuleInv
<1>7. CASE LoaderStep(Project) /\ UNCHANGED projectVars
  <2>1. LoaderInv'
    BY <1>7, LoaderNextInv, ProjectAssumption
  <2>2. at[Project] # "idle"
    BY <1>7 DEF LoaderStep, Probe, ReadEntry, RunTool, OpenEntry, WriteEntry
  <2> QED BY <1>7, <2>1, <2>2, AsideInv DEF LoadingInv
<1>8. CASE Environment /\ UNCHANGED projectVars
  <2>1. LoaderInv'
    BY <1>8, LoaderNextInv
  <2>2. UNCHANGED at
    BY <1>8 DEF Environment, Edit, RemoveEntry
  <2> QED BY <1>8, <2>1, <2>2, AsideInv
<1>9. ASSUME NEW l \in Loader \ {Project}, UNCHANGED projectVars,
             \/ LoaderStep(l) \/ Take(l) \/ Crash(l)
             \/ \E load \in OtherLoads : Begin(l, load[1], load[2])
      PROVE  ProjectInv'
  <2>1. PICK path \in Path, strategy \in Strategy :
          LoaderStep(l) \/ Take(l) \/ Crash(l) \/ Begin(l, path, strategy)
    <3>1. CASE \E load \in OtherLoads : Begin(l, load[1], load[2])
      BY <3>1, ProjectAssumption
    <3>2. CASE LoaderStep(l) \/ Take(l) \/ Crash(l)
      <4>1. LoaderStep(l) \/ Crash(l) \/ Take(l) => at[l] # "idle"
        BY DEF LoaderStep, Probe, ReadEntry, RunTool, OpenEntry, WriteEntry, Take, Crash
      <4>2. goal[l].path \in Path /\ goal[l].strategy \in Strategy
        BY <3>2, <4>1 DEF LoaderInv, LoaderOK, Watches
      <4> QED BY <3>2, <4>2
    <3> QED BY <1>9, <3>1, <3>2
  <2>2. LoaderInv'
    BY <1>9, <2>1, LoaderNextInv
  <2>3. at'[Project] = at[Project]
    BY <1>9, <2>1, AtOthers, ProjectAssumption
  <2> QED BY <1>9, <2>2, <2>3, AsideInv
<1>10. CASE UNCHANGED vars
  BY <1>10, LoaderStutter, AsideInv DEF vars, loaderVars
<1> QED BY <1>1, <1>2, <1>3, <1>4, <1>5, <1>6, <1>7, <1>8, <1>9, <1>10 DEF ProjectNext

(***************************************************************************)
(* Whatever is edited, removed, killed or written at the same time, and    *)
(* however many loaders there are, a load gives what its backend makes of  *)
(* a content the file had meanwhile, or of a race that is known by name.   *)
(***************************************************************************)
THEOREM LoadsAreCurrent == ProjectSpec => []LoadedIsCurrent
<1>1. ProjectInv => LoadedIsCurrent
  BY DEF ProjectInv, LoaderInv, LoaderOK, IsCurrent, LoadedIsCurrent
<1> QED BY <1>1, ProjectStart, ProjectStep, PTL DEF ProjectSpec

(***************************************************************************)
(* No state of the cache makes an automatic load fail: the last backend,   *)
(* which has none, could not read the file either.                         *)
(***************************************************************************)
THEOREM OnlyLastFails == ProjectSpec => []AutoFailsOnlyAtLast
<1>1. ProjectInv => AutoFailsOnlyAtLast
  BY DEF ProjectInv, LoaderInv, LoaderOK, FailsAtLast, AutoFailsOnlyAtLast, Final
<1> QED BY <1>1, ProjectStart, ProjectStep, PTL DEF ProjectSpec

(***************************************************************************)
(* A project is built of all its inputs in their order or not at all, and  *)
(* its first report is the analysis of each.                               *)
(***************************************************************************)
THEOREM ProjectsAreWhole == ProjectSpec => []BuiltWhole
<1>1. ProjectInv => BuiltWhole
  BY DEF ProjectInv, BuiltInv, BuiltWhole, HasModule, N
<1> QED BY <1>1, ProjectStart, ProjectStep, PTL DEF ProjectSpec
=============================================================================
