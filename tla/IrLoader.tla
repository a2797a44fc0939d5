------------------------------ MODULE IrLoader ------------------------------
(***************************************************************************)
(* load_ir and the IR cache under it.  Loaders are threads or processes    *)
(* that share the cache directory; none takes a lock.  A load probes a     *)
(* list of backends; three of them look in the cache first.  A cache file  *)
(* is named by a hash of path, size, modification time and backend, and is *)
(* written in place.  Meanwhile the source files are edited, loaders are   *)
(* killed, and cache files removed.                                        *)
(***************************************************************************)
EXTENDS Naturals, Sequences, FiniteSets

CONSTANTS Loader, Path,
          Content,           \* what a source file may hold
          Outcome,           \* of a backend on a content: "module", "empty", "garbled", "error"
          Available,         \* the backends whose tools are found
          Extension,         \* of a path: "ll", "bc" or "msgpack"
          IsLarge,           \* more than 10 MiB
          MaxEdits           \* bound: edits of the source files

Cached  == {"ffi", "direct", "pass"}                 \* DirectCppFfi, DirectCpp, CppPass
Backend == Cached \cup {"llvm", "text", "msgpack"}

ASSUME LoaderAssumption ==
  /\ Available \subseteq Backend /\ {"text", "msgpack"} \subseteq Available /\ MaxEdits \in Nat
  /\ Outcome \in [Backend -> [Content -> {"module", "empty", "garbled", "error"}]]
  /\ Extension \in [Path -> {"ll", "bc", "msgpack"}] /\ IsLarge \in [Path -> BOOLEAN]

Missing == "missing"    \* the content of a path without a file
Absent  == "absent"
NoFile  == [backend |-> Absent, content |-> Absent]
Partial == [backend |-> Absent, content |-> "partial"]   \* a cache file that is not whole
NoKey   == [path |-> Absent, stamp |-> 0, backend |-> Absent]

AutoPlan     == <<"ffi", "direct", "llvm", "pass", "text">>
Strategy == {"auto", "auto_fast"} \cup Backend

VARIABLES file,     \* each path's content and stamp (size and modification time)
          edits,    \* the edits so far, from which stamps are taken
          cache,    \* each cache file: absent, partial, or an extraction
          at,       \* where each loader is
          goal,     \* the path and strategy of its load
          plan,     \* the backends left to probe, the current one first
          key,      \* the cache file it is about
          out,      \* the content its tool extracted from
          result,   \* of its last load
          seen,     \* history: the contents its path had during the load
          raced     \* history: cache files named after an edit that followed the extraction

loaderVars == <<file, edits, cache, at, goal, plan, key, out, result, seen, raced>>

Key  == [path : Path, stamp : 0 .. MaxEdits, backend : Cached]
Idle == [path |-> Absent, strategy |-> Absent]

(* A module: the backend that gave it, the extraction it is, the entry it was read from. *)
Got(b, by, c, k) == [ok |-> TRUE, backend |-> b, by |-> by, content |-> c, entry |-> k]
Error(b)         == [ok |-> FALSE, backend |-> b]
None             == Error(Absent)

LoaderInit ==
  /\ file \in [Path -> [content : Content, stamp : {0}]] /\ edits = 0
  /\ cache = [x \in Key |-> NoFile]
  /\ at = [l \in Loader |-> "idle"] /\ goal = [l \in Loader |-> Idle]
  /\ plan = [l \in Loader |-> <<>>] /\ key = [l \in Loader |-> NoKey]
  /\ out = [l \in Loader |-> Absent] /\ result = [l \in Loader |-> None]
  /\ seen = [l \in Loader |-> {}] /\ raced = {}

(***************************************************************************)
(* The backends of a strategy, in order.  Auto takes a .msgpack file       *)
(* straight to its reader; AutoFast tries the text parser on a .ll file,   *)
(* twice if it is large, and then all of Auto.                             *)
(***************************************************************************)
Plan(path, strategy) ==
  CASE strategy = "auto" -> IF Extension[path] = "msgpack" THEN <<"msgpack">> ELSE AutoPlan
    [] strategy = "auto_fast" ->
         (IF Extension[path] # "ll" THEN <<>>
          ELSE IF IsLarge[path] THEN <<"text", "text">> ELSE <<"text">>) \o AutoPlan
    [] OTHER -> <<strategy>>

IsChain(l) == goal[l].strategy \in {"auto", "auto_fast"}

FingerprintWithoutTime(path, b) ==      \* mutant: size and path only
  [path |-> path, stamp |-> 0, backend |-> b]

Fingerprint(path, b) == [path |-> path, stamp |-> file[path].stamp, backend |-> b]

Exists(path) == file[path].content # Missing

-----------------------------------------------------------------------------
Return(l, r) ==
  /\ at' = [at EXCEPT ![l] = "done"] /\ result' = [result EXCEPT ![l] = r]
  /\ plan' = [plan EXCEPT ![l] = <<>>] /\ key' = [key EXCEPT ![l] = NoKey]
  /\ out' = [out EXCEPT ![l] = Absent]

Succeed(l, c) == Return(l, Got(Head(plan[l]), Head(plan[l]), c, NoKey))

FailAlways(l) ==   \* mutant: a backend's error is the load's
  Return(l, Error(Head(plan[l])))

(* The next backend, or the load's error. *)
Fail(l) ==
  IF Len(plan[l]) > 1
  THEN /\ plan' = [plan EXCEPT ![l] = Tail(@)] /\ at' = [at EXCEPT ![l] = "probe"]
       /\ key' = [key EXCEPT ![l] = NoKey] /\ out' = [out EXCEPT ![l] = Absent]
       /\ UNCHANGED result
  ELSE Return(l, Error(Head(plan[l])))

Begin(l, path, strategy) ==
  /\ at[l] = "idle"
  /\ goal' = [goal EXCEPT ![l] = [path |-> path, strategy |-> strategy]]
  /\ seen' = [seen EXCEPT ![l] = {file[path].content}]
  /\ IF Exists(path)
     THEN /\ plan' = [plan EXCEPT ![l] = Plan(path, strategy)]
          /\ at' = [at EXCEPT ![l] = "probe"] /\ UNCHANGED result
     ELSE /\ at' = [at EXCEPT ![l] = "done"] /\ result' = [result EXCEPT ![l] = None]
          /\ UNCHANGED plan
  /\ UNCHANGED <<file, edits, cache, key, out, raced>>

(* A chain skips what is not available; a hit is acted on later. *)
Probe(l) ==
  LET b == Head(plan[l])
      k == Fingerprint(goal[l].path, b)
  IN /\ at[l] = "probe"
     /\ IF IsChain(l) /\ b \notin Available THEN Fail(l)
        ELSE /\ IF b \in Cached /\ Exists(goal[l].path) /\ cache[k] # NoFile
                THEN at' = [at EXCEPT ![l] = "hit"] /\ key' = [key EXCEPT ![l] = k]
                ELSE at' = [at EXCEPT ![l] = "run"] /\ UNCHANGED key
             /\ UNCHANGED <<plan, out, result>>
     /\ UNCHANGED <<file, edits, cache, goal, seen, raced>>

(* The entry may be gone, half written, or the text of a tool that garbled it. *)
ReadEntry(l) ==
  LET b == Head(plan[l])
      entry == cache[key[l]]
  IN /\ at[l] = "hit"
     /\ IF entry \in {NoFile, Partial} THEN Fail(l)
        ELSE IF Outcome[entry.backend][entry.content] = "garbled" THEN Fail(l)
        ELSE Return(l, Got(b, entry.backend, entry.content, key[l]))
     /\ UNCHANGED <<file, edits, cache, goal, seen, raced>>

(***************************************************************************)
(* The tool reads the file.  The extractors' modules are saved if they are *)
(* not empty, an empty one is passed over by a chain; the pass's output is *)
(* saved before it is parsed, whatever it is.                              *)
(***************************************************************************)
RunTool(l) ==
  LET b == Head(plan[l])
      c == file[goal[l].path].content
      o == IF c = Missing \/ b \notin Available THEN "error" ELSE Outcome[b][c]
  IN /\ at[l] = "run"
     /\ CASE o = "error" -> Fail(l)
          [] o = "garbled" /\ b # "pass" -> Fail(l)
          [] o = "empty" /\ b \in {"ffi", "direct"} -> IF IsChain(l) THEN Fail(l) ELSE Succeed(l, c)
          [] o # "error" /\ (b = "pass" \/ (o = "module" /\ b \in Cached)) ->
               /\ at' = [at EXCEPT ![l] = "save"] /\ out' = [out EXCEPT ![l] = c]
               /\ UNCHANGED <<plan, key, result>>
          [] OTHER -> Succeed(l, c)
     /\ UNCHANGED <<file, edits, cache, goal, seen, raced>>

AfterSave(l) ==
  IF Outcome[Head(plan[l])][out[l]] = "garbled" THEN Fail(l) ELSE Succeed(l, out[l])

(* The fingerprint is taken anew; without a file there is none, and nothing is saved. *)
OpenEntry(l) ==
  LET path == goal[l].path
      k == Fingerprint(path, Head(plan[l]))
  IN /\ at[l] = "save"
     /\ IF Exists(path)
        THEN /\ cache' = [cache EXCEPT ![k] = Partial]
             /\ raced' = IF file[path].content # out[l] THEN raced \cup {k} ELSE raced
             /\ key' = [key EXCEPT ![l] = k] /\ at' = [at EXCEPT ![l] = "write"]
             /\ UNCHANGED <<plan, out, result>>
        ELSE AfterSave(l) /\ UNCHANGED <<cache, raced>>
     /\ UNCHANGED <<file, edits, goal, seen>>

(***************************************************************************)
(* The write ends, whole or in an error that is only logged.  Two writers  *)
(* of a file may leave what either wrote, or a mixture.  A file removed    *)
(* since it was opened stays removed.                                      *)
(***************************************************************************)
WriteEntry(l) ==
  LET k == key[l]
      mine == [backend |-> Head(plan[l]), content |-> out[l]]
  IN /\ at[l] = "write"
     /\ IF k = NoKey THEN UNCHANGED cache
        ELSE \E left \in {mine, Partial, cache[k]} : cache' = [cache EXCEPT ![k] = left]
     /\ AfterSave(l)
     /\ UNCHANGED <<file, edits, goal, seen, raced>>

(* The caller takes the result and may load again. *)
Take(l) ==
  /\ at[l] = "done"
  /\ at' = [at EXCEPT ![l] = "idle"] /\ goal' = [goal EXCEPT ![l] = Idle]
  /\ result' = [result EXCEPT ![l] = None] /\ seen' = [seen EXCEPT ![l] = {}]
  /\ UNCHANGED <<file, edits, cache, plan, key, out, raced>>

(* The process dies; a file it was writing stays as it is. *)
Crash(l) ==
  /\ at[l] \notin {"idle", "done"}
  /\ at' = [at EXCEPT ![l] = "idle"] /\ goal' = [goal EXCEPT ![l] = Idle]
  /\ plan' = [plan EXCEPT ![l] = <<>>] /\ key' = [key EXCEPT ![l] = NoKey]
  /\ out' = [out EXCEPT ![l] = Absent] /\ seen' = [seen EXCEPT ![l] = {}]
  /\ UNCHANGED <<file, edits, cache, result, raced>>

(* A source file is written or removed; a new file has a new size or time. *)
Edit(path, c) ==
  /\ edits < MaxEdits /\ c # file[path].content
  /\ edits' = edits + 1
  /\ file' = [file EXCEPT ![path] = [content |-> c, stamp |-> edits + 1]]
  /\ seen' = [l \in Loader |-> IF goal[l].path = path THEN seen[l] \cup {c} ELSE seen[l]]
  /\ UNCHANGED <<cache, at, goal, plan, key, out, result, raced>>

(* One file of clear_cache or clear_old_entries; who is writing it writes to no file. *)
RemoveEntry(k) ==
  /\ cache[k] # NoFile
  /\ cache' = [cache EXCEPT ![k] = NoFile]
  /\ key' = [l \in Loader |-> IF at[l] = "write" /\ key[l] = k THEN NoKey ELSE key[l]]
  /\ UNCHANGED <<file, edits, at, goal, plan, out, result, seen, raced>>

LoaderStep(l) ==
  Probe(l) \/ ReadEntry(l) \/ RunTool(l) \/ OpenEntry(l) \/ WriteEntry(l)

Environment ==
  \/ \E path \in Path, c \in Content \cup {Missing} : Edit(path, c)
  \/ \E k \in Key : RemoveEntry(k)

-----------------------------------------------------------------------------
(***************************************************************************)
(* Whatever is edited, removed, killed or written at the same time, a load *)
(* gives what the backend it names makes of a content the file had during  *)
(* the load.  The exception is an entry saved after an edit that followed  *)
(* the extraction: it is named after the new content and served for it.    *)
(***************************************************************************)
LoadedIsCurrent ==
  \A l \in Loader : at[l] = "done" /\ result[l].ok =>
    /\ result[l].by = result[l].backend
    /\ result[l].content \in seen[l] \/ result[l].entry \in raced

(***************************************************************************)
(* No half-written, mixed, removed or garbled cache file makes an          *)
(* automatic load fail: it fails only when its last backend, which has no  *)
(* cache, cannot read a content the file had, or there was no file.        *)
(***************************************************************************)
AutoFailsOnlyAtLast ==
  \A l \in Loader : at[l] = "done" /\ ~result[l].ok /\ IsChain(l) =>
    LET steps == Plan(goal[l].path, goal[l].strategy)
    IN \E c \in seen[l] : c = Missing \/ Outcome[steps[Len(steps)]][c] \in {"garbled", "error"}
=============================================================================
