----------------------------- MODULE PassManager -----------------------------
(***************************************************************************)
(* PassManager::run_all_with_ir_and_config: compute_order, then            *)
(* run_with_context, which runs the passes one after the other on a shared *)
(* context, through an optional result cache, or level by level, each pass *)
(* of a level on a clone of the context in a thread of its own.            *)
(*                                                                         *)
(* A pass is known by what it does to the context: Effect[n] names the     *)
(* keys it reads, stores afresh and extends, the issues it emits, and      *)
(* whether its run may return an error, after any part of its work.        *)
(***************************************************************************)
EXTENDS PassOrder, Naturals, Sequences

-----------------------------------------------------------------------------
(***************************************************************************)
(* The blackboard passes share: PassContext's store, its issues and its    *)
(* issue counter.  The value under a key is the set of the passes whose    *)
(* output it holds ({} when the key is absent), which is what tells a lost *)
(* or stale value from a good one.  An issue is known by the registration  *)
(* that emitted it and by its number among that pass's issues.             *)
(***************************************************************************)

CONSTANTS Key,     \* keys of the shared map
          SrtKey   \* "srt_resolutions": its presence turns the issue gate on

Input == "input"       \* the writer of what PassManager stores before the first pass

Issue == [gated : BOOLEAN, internal : BOOLEAN]

Emitted == [id : Nat, by : Nat, nth : Nat]

Context == [shared : [Key -> SUBSET (Name \cup {Input})],
            issues : SUBSET Emitted, suppressed : SUBSET Emitted, nextId : Nat]

NewContext(inputs) ==
  [shared |-> [k \in Key |-> IF k \in inputs THEN {Input} ELSE {}],
   issues |-> {}, suppressed |-> {}, nextId |-> 1]

CloneForParallel(c) == [c EXCEPT !.issues = {}, !.suppressed = {}]

(* Every key of the other context replaces this one's, written or not.     *)
Merge(c, other) ==
  [shared |-> [k \in Key |-> IF other.shared[k] # {} THEN other.shared[k] ELSE c.shared[k]],
   issues |-> c.issues \cup other.issues,
   suppressed |-> c.suppressed \cup other.suppressed,
   nextId |-> IF other.nextId > c.nextId THEN other.nextId ELSE c.nextId]

StoreReplacing(c, pass, fresh, extended) ==   \* mutant: nothing is extended
  [c EXCEPT !.shared = [k \in Key |-> IF k \in fresh \cup extended THEN {pass} ELSE @[k]]]

(***************************************************************************)
(* A pass stores the keys it computes afresh, stores back the keys it      *)
(* extends (get, extend, store), and emits its issues.                     *)
(***************************************************************************)
StoreOutputs(c, pass, fresh, extended) ==
  [c EXCEPT !.shared = [k \in Key |-> IF k \in fresh THEN {pass}
                                      ELSE IF k \in extended THEN @[k] \cup {pass} ELSE @[k]]]

(***************************************************************************)
(* emit_issue suppresses an issue that is `gated` when there are SRT       *)
(* resolutions, and one that is `internal`, which a fallback rule for      *)
(* runtime-internal code catches.                                          *)
(***************************************************************************)
Suppresses(c, issue) == (c.shared[SrtKey] # {} /\ issue.gated) \/ issue.internal

(* next_issue_id, then emit_issue, for one issue of registration i after the other. *)
EmitAll(c, i, issues) ==
  LET emitted == {[id |-> c.nextId + m - 1, by |-> i, nth |-> m] : m \in 1 .. Len(issues)}
      quiet   == {e \in emitted : Suppresses(c, issues[e.nth])}
  IN  [c EXCEPT !.nextId = @ + Len(issues),
                !.issues = @ \cup (emitted \ quiet), !.suppressed = @ \cup quiet]

AllIssues(c) == c.issues \cup c.suppressed

-----------------------------------------------------------------------------
CONSTANTS Effect,         \* [Name -> [reads, fresh, extended, issues, mayFail]]
          Inputs,         \* keys stored before the first pass
          Registrations,  \* the sequences of passes a client registers
          Modes,          \* the values set_parallel may be called with
          CacheAttached,  \* with_cache was called
          MaxVersion,     \* bound: edits of the source or the configuration
          MaxRuns         \* bound: calls of run_all

ASSUME EffectAssumption ==
  \A n \in Name : /\ Effect[n].reads \subseteq Key
                  /\ Effect[n].fresh \subseteq Key
                  /\ Effect[n].extended \subseteq Key
                  /\ Effect[n].issues \in Seq(Issue)
ASSUME InputAssumption == Inputs \subseteq Key /\ Input \notin Name
ASSUME RegistrationsAssumption == Registrations \subseteq Seq(Decl)
ASSUME RunBounds == MaxRuns \in Nat /\ MaxVersion \in Nat

VARIABLES pc,         \* where run_all is: "idle", "ordering", "sequence" or "levels"
          parallel,   \* PassManager.parallel
          ctx,        \* the main PassContext
          at,         \* sequential: position in execution_order
          completed,  \* parallel: names of the passes merged
          level,      \* parallel: the passes of this level not merged yet, and their contexts
          results,    \* the PassResults so far
          returned,   \* how the last run_all ended
          prior,      \* the results of the last run that returned Ok
          cache,      \* the results in the AnalysisCache, by key
          version,    \* what file_fingerprint and config_hash stand for
          runs        \* calls of run_all so far

runVars == <<pc, parallel, ctx, at, completed, level, results, returned, prior>>
envVars == <<cache, version, runs>>
allVars == <<vars, runVars, envVars>>
NoLevel == [i \in {} |-> i]

Outputs(n) == Effect[n].fresh \cup Effect[n].extended

InitManager ==
  /\ passes \in Registrations
  /\ executionOrder = <<>> /\ status = "stale" /\ Idle
  /\ pc = "idle" /\ parallel \in Modes
  /\ ctx = NewContext(Inputs) /\ at = 1 /\ completed = {} /\ level = NoLevel
  /\ results = <<>> /\ returned = "none" /\ prior = <<>>
  /\ cache = {} /\ version = 0 /\ runs = 0

-----------------------------------------------------------------------------
(* Between runs: the client edits its source, or turns parallel mode. *)

Edit ==
  /\ pc = "idle" /\ version < MaxVersion
  /\ version' = version + 1
  /\ UNCHANGED <<vars, runVars, cache, runs>>

SetParallel(b) ==
  /\ pc = "idle" /\ b # parallel
  /\ parallel' = b
  /\ UNCHANGED <<vars, pc, ctx, at, completed, level, results, returned, prior, envVars>>

(* The cache may drop an entry, expired or evicted, at any time. *)
Forget ==
  /\ pc \in {"idle", "sequence"}
  /\ \E entry \in cache : cache' = cache \ {entry}
  /\ UNCHANGED <<vars, runVars, version, runs>>

-----------------------------------------------------------------------------
Start ==
  /\ pc = "idle" /\ runs < MaxRuns
  /\ ComputeOrder
  /\ pc' = "ordering" /\ runs' = runs + 1
  /\ UNCHANGED <<parallel, ctx, at, completed, level, results, returned, prior, cache, version>>

Order ==
  /\ pc = "ordering" /\ SearchStep
  /\ UNCHANGED <<runVars, envVars>>

Return(how) ==
  /\ pc' = "idle" /\ returned' = how
  /\ prior' = IF how = "ok" THEN results ELSE prior

(* compute_order's error is returned; otherwise a new context is set up. *)
Refuse ==
  /\ pc = "ordering" /\ ~searching /\ status = "cycle"
  /\ Return("error")
  /\ UNCHANGED <<vars, parallel, ctx, at, completed, level, results, envVars>>

Begin ==
  /\ pc = "ordering" /\ ~searching /\ status = "ok"
  /\ pc' = IF parallel THEN "levels" ELSE "sequence"
  /\ ctx' = NewContext(Inputs) /\ at' = 1 /\ completed' = {} /\ level' = NoLevel
  /\ results' = <<>>
  /\ UNCHANGED <<vars, parallel, returned, prior, envVars>>

-----------------------------------------------------------------------------
(* What run() of registration i leaves in a context. *)
Finished(c, i) ==
  LET e == Effect[passes[i].name]
  IN  EmitAll(StoreOutputs(c, passes[i].name, e.fresh, e.extended), i, e.issues)

(* After an error: what it stored under `keys`, and its first m issues. *)
Abandoned(c, i, keys, m) ==
  LET e == Effect[passes[i].name]
  IN  EmitAll(StoreOutputs(c, passes[i].name, e.fresh \cap keys, e.extended \cap keys), i,
              SubSeq(e.issues, 1, m))

Result(n, outcome, before) ==
  [name |-> n, outcome |-> outcome, version |-> version,
   saw |-> [k \in Effect[n].reads |-> before.shared[k]]]

-----------------------------------------------------------------------------
(* Sequential execution. *)

Current == passes[executionOrder[at]].name

KeyOfPass(n) == [pass |-> n, version |-> 0]   \* mutant: the fingerprint is left out

CacheKey(n) == [pass |-> n, version |-> version]

Hits(n) == {entry \in cache : CacheAttached /\ entry.key = CacheKey(n)}

(* A hit pushes the cached result and leaves the context alone. *)
RunFromCache ==
  /\ pc = "sequence" /\ at <= Len(executionOrder)
  /\ \E entry \in Hits(Current) :
       results' = Append(results, [entry.result EXCEPT !.outcome = "cached"])
  /\ at' = at + 1
  /\ UNCHANGED <<vars, pc, parallel, ctx, completed, level, returned, prior, envVars>>

RunNext ==
  /\ pc = "sequence" /\ at <= Len(executionOrder) /\ Hits(Current) = {}
  /\ ctx' = Finished(ctx, executionOrder[at])
  /\ LET result == Result(Current, "ran", ctx) IN
       /\ results' = Append(results, result)
       /\ cache' = IF CacheAttached
                     THEN cache \cup {[key |-> CacheKey(Current), result |-> result]}
                     ELSE cache
  /\ at' = at + 1
  /\ UNCHANGED <<vars, pc, parallel, completed, level, returned, prior, version, runs>>

(* An error stops the run: nothing is cached, later passes do not run. *)
RunFails ==
  /\ pc = "sequence" /\ at <= Len(executionOrder) /\ Hits(Current) = {}
  /\ Effect[Current].mayFail
  /\ \E keys \in SUBSET Outputs(Current), m \in 0 .. Len(Effect[Current].issues) :
       ctx' = Abandoned(ctx, executionOrder[at], keys, m)
  /\ Return("error")
  /\ UNCHANGED <<vars, parallel, at, completed, level, results, envVars>>

SequenceEnds ==
  /\ pc = "sequence" /\ at > Len(executionOrder)
  /\ Return("ok")
  /\ UNCHANGED <<vars, parallel, ctx, at, completed, level, results, envVars>>

-----------------------------------------------------------------------------
(* Parallel execution.  A level is found when the one before it is merged: *)
(* compute_levels depends on the names completed alone.                    *)

EagerReady == {i \in DOMAIN passes :       \* mutant: one dependency is enough
                 /\ passes[i].name \notin completed
                 /\ passes[i].deps = {} \/ passes[i].deps \cap completed # {}}

Ready == {i \in DOMAIN passes : /\ passes[i].name \notin completed
                                /\ passes[i].deps \subseteq completed}

StartLevel ==
  /\ pc = "levels" /\ DOMAIN level = {}
  /\ Ready # {}
  /\ level' = [i \in Ready |->
                 [ctx |-> CloneForParallel(ctx), ran |-> FALSE,
                  result |-> Result(passes[i].name, "ran", ctx)]]
  /\ UNCHANGED <<vars, pc, parallel, ctx, at, completed, results, returned, prior, envVars>>

(* One thread of the level; an error becomes an empty result, and what the *)
(* pass had put in its context is merged all the same.                     *)
RunThread(i) ==
  /\ ~level[i].ran
  /\ LET n == passes[i].name
         local == level[i].ctx
     IN  \/ level' = [level EXCEPT ![i] =
                        [ctx |-> Finished(local, i), ran |-> TRUE,
                         result |-> Result(n, "ran", local)]]
         \/ /\ Effect[n].mayFail
            /\ \E keys \in SUBSET Outputs(n), m \in 0 .. Len(Effect[n].issues) :
                 level' = [level EXCEPT ![i] =
                             [ctx |-> Abandoned(local, i, keys, m), ran |-> TRUE,
                              result |-> Result(n, "failed", local)]]
  /\ UNCHANGED <<vars, pc, parallel, ctx, at, completed, results, returned, prior, envVars>>

(* collect() keeps the order of the level, whatever order threads ended in. *)
MergeNext ==
  /\ pc = "levels" /\ \A i \in DOMAIN level : level[i].ran
  /\ \E i \in DOMAIN level :
       /\ \A j \in DOMAIN level : i <= j
       /\ ctx' = Merge(ctx, level[i].ctx)
       /\ results' = Append(results, level[i].result)
       /\ completed' = completed \cup {passes[i].name}
       /\ level' = [j \in DOMAIN level \ {i} |-> level[j]]
  /\ UNCHANGED <<vars, pc, parallel, at, returned, prior, envVars>>

WaitForAll ==                        \* mutant: an empty level does not end the run
  /\ pc = "levels" /\ DOMAIN level = {} /\ completed = Registered
  /\ Return("ok")
  /\ UNCHANGED <<vars, parallel, ctx, at, completed, level, results, envVars>>

LevelsEnd ==
  /\ pc = "levels" /\ DOMAIN level = {} /\ Ready = {}
  /\ Return("ok")
  /\ UNCHANGED <<vars, parallel, ctx, at, completed, level, results, envVars>>

-----------------------------------------------------------------------------
Step == \/ Order \/ Refuse \/ Begin
        \/ RunFromCache \/ RunNext \/ RunFails \/ SequenceEnds
        \/ StartLevel \/ MergeNext \/ LevelsEnd

NextManager ==
  \/ Start
  \/ Edit
  \/ \E b \in Modes : SetParallel(b)
  \/ Forget
  \/ Step
  \/ pc = "levels" /\ \E i \in DOMAIN level : RunThread(i)

SpecManager == InitManager /\ [][NextManager]_allVars

(* run_all keeps going until it returns, and so does every thread of a     *)
(* level: rayon runs each closure to its end.                              *)
FairManager ==
  SpecManager /\ WF_allVars(Step \/ (pc = "levels" /\ \E i \in DOMAIN level : RunThread(i)))

-----------------------------------------------------------------------------
ResultType == [name : Name, outcome : {"ran", "failed", "cached"}, version : Nat]

ManagerTypeOK ==
  /\ pc \in {"idle", "ordering", "sequence", "levels"}
  /\ at \in 1 .. (Len(executionOrder) + 1)
  /\ completed \subseteq Registered
  /\ DOMAIN level \subseteq DOMAIN passes
  /\ ctx.nextId \in Nat \ {0}
  /\ \A i \in DOMAIN results : [f \in {"name", "outcome", "version"} |-> results[i][f]] \in ResultType
  /\ returned \in {"none", "ok", "error"}
  /\ version <= MaxVersion /\ runs <= MaxRuns

(***************************************************************************)
(* In either mode a pass's result comes after the results of all the       *)
(* registered passes it depends on.                                        *)
(***************************************************************************)
DependenciesRunFirst ==
  \A j \in DOMAIN results : \A d \in Deps(results[j].name) \cap Registered :
    \E i \in 1 .. (j - 1) : results[i].name = d

(***************************************************************************)
(* What a pass stored is in the context its dependents run on, unless a    *)
(* pass in between stores that key afresh.  In parallel mode this takes a  *)
(* key that nobody else writes: a pass of the same level hands in the      *)
(* older value it was given, and the merge keeps that one if it comes      *)
(* later.                                                                  *)
(***************************************************************************)
Writers(k) ==
  {n \in Registered : k \in Outputs(n)} \cup (IF k \in Inputs THEN {Input} ELSE {})

Replaced(k, i, j) == \E m \in (i + 1) .. (j - 1) : k \in Effect[results[m].name].fresh

OutputsReachDependents ==
  \A i, j \in DOMAIN results :
    LET d == results[i].name
        n == results[j].name
    IN  i < j /\ results[i].outcome = "ran" /\ results[j].outcome # "cached" /\ d \in Deps(n) =>
          \A k \in Outputs(d) \cap Effect[n].reads :
            \/ d \in results[j].saw[k]
            \/ pc = "sequence" /\ Replaced(k, i, j)
            \/ pc # "sequence" /\ Writers(k) # {d}

(***************************************************************************)
(* Two issues share an id only when their passes may run side by side:     *)
(* never two issues of one pass, or of a pass and one it depends on.       *)
(***************************************************************************)
DependentIdsDiffer ==
  \A a, b \in AllIssues(ctx) :
    LET n == passes[a.by].name
        d == passes[b.by].name
    IN  a # b /\ (n = d \/ d \in Deps(n)) => a.id # b.id

(* A pass comes after those it depends on in every sense: it runs later,   *)
(* it has what they stored, and its issues are told from theirs.           *)
DependentsFollow == DependenciesRunFirst /\ OutputsReachDependents /\ DependentIdsDiffer

(***************************************************************************)
(* A result served from the cache was computed for this very source and    *)
(* configuration.                                                          *)
(***************************************************************************)
ResultsAreCurrent ==
  pc \in {"sequence", "levels"} => \A i \in DOMAIN results : results[i].version = version

(***************************************************************************)
(* A key with one writer, read by a pass that depends on that writer, has  *)
(* the same value for its reader in both modes: running the levels in      *)
(* parallel changes nothing for passes that declare what they need.        *)
(***************************************************************************)
Clean(rs) == \A i \in DOMAIN rs : rs[i].outcome = "ran"

Declared(n, k) == \E w \in Deps(n) : Writers(k) = {w}

ModesAgree ==
  Clean(results) /\ Clean(prior) =>
    \A i \in DOMAIN results, j \in DOMAIN prior : results[i].name = prior[j].name =>
      \A k \in Effect[results[i].name].reads :
        Declared(results[i].name, k) => results[i].saw[k] = prior[j].saw[k]

(* Every run_all returns, whatever the dependencies and the failures. *)
RunReturns == pc # "idle" ~> pc = "idle"

=============================================================================
