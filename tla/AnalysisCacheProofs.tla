------------------------- MODULE AnalysisCacheProofs -------------------------
(***************************************************************************)
(* Proofs about the analysis cache, its directory and its dependency       *)
(* graph, for every set of keys, every length, limit and time to live and  *)
(* every number of edges: what get answers was put under that key, through *)
(* evictions, crashes, half-written files and loads, what persist_to_disk  *)
(* finished writing can be loaded, and the passes that are run again are   *)
(* those that must be.                                                     *)
(***************************************************************************)
EXTENDS AnalysisCache, DependencyGraph, FiniteSetTheorems, SequenceTheorems, TLAPS

MapOK(map) == DOMAIN map \subseteq EntryKey /\ \A k \in DOMAIN map : map[k] \in Entry

(* The file of k is whole, and holds e.                                    *)
Holds(k, e) ==
  Readable(FileOf(k)) /\ FileOf(k) \in DOMAIN disk.payload /\ disk.payload[FileOf(k)] = e

(* A payload file that is whole holds an entry.                            *)
PayloadsOK ==
  \A k \in EntryKey : Readable(FileOf(k)) =>
    FileOf(k) \in DOMAIN disk.payload /\ disk.payload[FileOf(k)] \in Entry

(* While the payloads are written, those no longer to do are there.        *)
WritingInv ==
  /\ writing \in {"idle", "graph", "payloads"} /\ todo \subseteq DOMAIN entries
  /\ IF writing = "idle" THEN todo = {} ELSE served = {}
  /\ writing = "graph" => todo = DOMAIN entries
  /\ writing = "payloads" =>
       Readable(GraphFile) /\ \A k \in DOMAIN entries \ todo : Holds(k, entries[k])

(* What was saved is there as long as it is said to be.                    *)
SavedInv ==
  /\ \A map \in saved :
       /\ MapOK(map) /\ Readable(GraphFile) /\ Readable(IndexFile) /\ disk.index = DOMAIN map
       /\ \A k \in DOMAIN map : Holds(k, map[k])
  /\ writing = "payloads" => saved = {}

DirectoryInv ==
  /\ MapOK(entries) /\ now \in 0 .. MaxTime
  /\ disk.index \subseteq EntryKey /\ PayloadsOK /\ WritingInv /\ SavedInv

-----------------------------------------------------------------------------
(* The file of a key is its own, and is neither the graph's nor the index. *)
LEMMA FilesDiffer ==
  /\ \A k, j \in EntryKey : FileOf(k) = FileOf(j) => k = j
  /\ \A k \in EntryKey : FileOf(k) # GraphFile /\ FileOf(k) # IndexFile
  /\ GraphFile # IndexFile
<1>1. \A k, j \in EntryKey : FileOf(k) = FileOf(j) => k = j
  BY EntryKeyAssumption DEF FileOf
<1>2. \A k \in EntryKey : FileOf(k) # GraphFile /\ FileOf(k) # IndexFile
  <2> TAKE k \in EntryKey
  <2>1. Len(<<k.pass, k.config>>) = 2 /\ Len(<<"dependency_graph.json">>) = 1
        /\ Len(<<"cache_index.json">>) = 1
    OBVIOUS
  <2> QED BY <2>1 DEF FileOf, GraphFile, IndexFile
<1>3. GraphFile # IndexFile
  BY DEF GraphFile, IndexFile
<1> QED BY <1>1, <1>2, <1>3

-----------------------------------------------------------------------------
(* The calls that leave the directory alone: what they do to the entries.  *)

Kept(k) == k \in DOMAIN entries /\ entries'[k].data = entries[k].data

LEMMA PutEntries ==
  ASSUME DirectoryInv, NEW k \in EntryKey, NEW n \in Length, Put(k, n)
  PROVE  /\ MapOK(entries') /\ served' = {} /\ now' = now
         /\ \A j \in DOMAIN entries' :
              Kept(j) \/ (j = k /\ entries'[j].data = [owner |-> k, len |-> n])
<1> DEFINE with == With(entries, k, NewEntry(k, n))
<1>1. NewEntry(k, n) \in Entry /\ NewEntry(k, n).data = [owner |-> k, len |-> n]
  BY DEF NewEntry, Entry, DirectoryInv
<1>2. MapOK(with)
  BY <1>1 DEF DirectoryInv, MapOK, With
<1>3. \E gone : entries' = Without(with, gone)
  <2>1. CASE MaxCacheSize > 0 /\ totalSize + n > MaxCacheSize
    BY <2>1 DEF Put, Evict
  <2>2. CASE ~(MaxCacheSize > 0 /\ totalSize + n > MaxCacheSize)
    <3>1. entries' = with
      BY <2>2 DEF Put
    <3>2. with = Without(with, {})
      BY DEF Without, With
    <3> QED BY <3>1, <3>2
  <2> QED BY <2>1, <2>2
<1>4. PICK gone : entries' = Without(with, gone)
  BY <1>3
<1>5. \A j \in DOMAIN entries' : j \in DOMAIN with /\ entries'[j] = with[j]
  BY <1>4 DEF Without
<1>6. MapOK(entries')
  BY <1>2, <1>5 DEF MapOK
<1>7. \A j \in DOMAIN with : j = k \/ (j \in DOMAIN entries /\ with[j] = entries[j])
  BY DEF With
<1>8. with[k] = NewEntry(k, n)
  BY DEF With
<1> HIDE DEF with
<1>9. served' = {} /\ now' = now
  BY DEF Put
<1> QED BY <1>1, <1>5, <1>6, <1>7, <1>8, <1>9 DEF Kept

LEMMA GetEntries ==
  ASSUME DirectoryInv, NEW k \in EntryKey, Get(k)
  PROVE  /\ MapOK(entries') /\ now' = now
         /\ \A j \in DOMAIN entries' : Kept(j)
         /\ served' = {} \/ (k \in DOMAIN entries /\ served' = {<<k, entries[k].data>>})
<1>1. CASE k \notin DOMAIN entries /\ served' = {} /\ UNCHANGED entries
  BY <1>1 DEF Get, DirectoryInv, Kept, MapOK
<1>2. CASE entries' = Without(entries, {k}) /\ served' = {}
  BY <1>2 DEF Get, DirectoryInv, Kept, Without, MapOK
<1>3. CASE /\ k \in DOMAIN entries
           /\ entries' = [entries EXCEPT ![k].accessed = now]
           /\ served' = {<<k, entries[k].data>>}
  <2>1. \A j \in DOMAIN entries : entries[j] \in Entry
    BY DEF DirectoryInv, MapOK
  <2>2. DOMAIN entries' = DOMAIN entries /\ entries'[k] = [entries[k] EXCEPT !.accessed = now]
        /\ \A j \in DOMAIN entries : j # k => entries'[j] = entries[j]
    BY <1>3
  <2>3. entries'[k] \in Entry /\ entries'[k].data = entries[k].data
    BY <1>3, <2>1, <2>2 DEF Entry, DirectoryInv
  <2> QED BY <1>3, <2>1, <2>2, <2>3 DEF Get, DirectoryInv, MapOK, Kept
<1> QED BY <1>1, <1>2, <1>3 DEF Get

LEMMA OtherEntries ==
  ASSUME DirectoryInv,
         \/ \E age \in 1 .. MaxTime : ClearOldEntries(age)
         \/ \E target \in Length : EvictLru(target)
         \/ ResetStats
         \/ Tick
  PROVE  /\ MapOK(entries') /\ now' \in 0 .. MaxTime /\ served' = {}
         /\ \A j \in DOMAIN entries' : Kept(j)
<1>1. (now' = now \/ (now < MaxTime /\ now' = now + 1)) /\ served' = {}
  BY DEF ClearOldEntries, EvictLru, ResetStats, Tick
<1>3. now' \in 0 .. MaxTime
  BY <1>1, CacheAssumption DEF DirectoryInv
<1>2. entries' = entries \/ \E gone : entries' = Without(entries, gone)
  BY DEF ClearOldEntries, EvictLru, Evict, ResetStats, Tick
<1>4. \A j \in DOMAIN entries' : j \in DOMAIN entries /\ entries'[j] = entries[j]
  BY <1>2 DEF Without
<1> QED BY <1>1, <1>3, <1>4 DEF DirectoryInv, Kept, MapOK

-----------------------------------------------------------------------------
(* What the store may answer. *)

Known == InMemory \cup OnDisk

Shrinks == Known' \subseteq Known /\ served' = {}

LEMMA MemoryKept ==
  ASSUME \A j \in DOMAIN entries' : Kept(j)
  PROVE  InMemory' \subseteq InMemory
BY DEF Kept, InMemory

LEMMA DiskKept ==
  ASSUME PayloadsOK,
         \A k \in EntryKey : Readable(FileOf(k))' =>
           /\ Readable(FileOf(k)) /\ FileOf(k) \in DOMAIN disk'.payload
           /\ disk'.payload[FileOf(k)] = disk.payload[FileOf(k)]
  PROVE  PayloadsOK' /\ OnDisk' \subseteq OnDisk
<1>1. PayloadsOK'
  BY DEF PayloadsOK, FileOf
<1>2. \A k \in EntryKey : Readable(FileOf(k))' =>
        Readable(FileOf(k)) /\ disk'.payload[FileOf(k)].data = disk.payload[FileOf(k)].data
  OBVIOUS
<1>3. OnDisk' \subseteq OnDisk
  <2> SUFFICES ASSUME NEW k \in EntryKey, Readable(FileOf(k))'
               PROVE  <<k, disk'.payload[FileOf(k)].data>> \in OnDisk
    BY DEF OnDisk, FileOf
  <2> QED BY <1>2 DEF OnDisk
<1> QED BY <1>1, <1>3

(* A file gone or half written, or one that holds no result rewritten.     *)
FileLost(f) ==
  /\ \A g : Readable(g)' => Readable(g) /\ g # f
  /\ \A g : g \in DOMAIN disk.payload /\ g # f =>
       g \in DOMAIN disk'.payload /\ disk'.payload[g] = disk.payload[g]

LEMMA StumpLoses ==
  ASSUME NEW f, disk' = StumpOf(f)
  PROVE  FileLost(f)
BY DEF StumpOf, FileLost, Readable, Without

LEMMA FileLostShrinks ==
  ASSUME PayloadsOK, NEW f, FileLost(f)
  PROVE  PayloadsOK' /\ OnDisk' \subseteq OnDisk
BY DiskKept DEF FileLost, PayloadsOK

-----------------------------------------------------------------------------
LEMMA CacheCall ==
  ASSUME DirectoryInv, MapOK(entries'), now' \in 0 .. MaxTime, writing = "idle", UNCHANGED diskVars
  PROVE  DirectoryInv'
<1>1. PayloadsOK'
  BY DEF DirectoryInv, diskVars, PayloadsOK, Readable, FileOf
<1>2. WritingInv'
  BY DEF DirectoryInv, diskVars, WritingInv
<1>3. SavedInv'
  BY DEF DirectoryInv, diskVars, SavedInv, Holds, Readable, FileOf, GraphFile, IndexFile
<1> QED BY <1>1, <1>2, <1>3 DEF DirectoryInv, diskVars

LEMMA SameDisk ==
  ASSUME UNCHANGED disk
  PROVE  OnDisk' = OnDisk
BY DEF OnDisk, Readable, FileOf

(* A tick while a write is going on.                                       *)
LEMMA TickInv ==
  ASSUME DirectoryInv, TickWhileWriting
  PROVE  DirectoryInv' /\ Shrinks
<1> USE DEF TickWhileWriting
<1>1. UNCHANGED <<entries, disk, writing, todo, saved>> /\ now' \in 0 .. MaxTime /\ served' = {}
  BY OtherEntries DEF diskVars, Tick
<1>2. PayloadsOK' /\ WritingInv' /\ SavedInv'
  BY <1>1 DEF DirectoryInv, PayloadsOK, Readable, FileOf, WritingInv, SavedInv, Holds,
              GraphFile, IndexFile
<1>3. DirectoryInv'
  BY <1>1, <1>2 DEF DirectoryInv, MapOK
<1>4. InMemory' = InMemory
  BY <1>1 DEF InMemory
<1> QED BY <1>1, <1>3, <1>4, SameDisk DEF Shrinks, Known

LEMMA PersistInv ==
  ASSUME DirectoryInv, Persist
  PROVE  DirectoryInv' /\ Shrinks
<1> USE DEF Persist, memory
<1>1. PayloadsOK' /\ WritingInv' /\ SavedInv'
  BY DEF DirectoryInv, PayloadsOK, Readable, FileOf, WritingInv, SavedInv, Holds,
         GraphFile, IndexFile
<1>2. DirectoryInv'
  BY <1>1 DEF DirectoryInv, MapOK
<1>3. InMemory' = InMemory
  BY DEF InMemory
<1> QED BY <1>2, <1>3, SameDisk DEF Shrinks, Known

-----------------------------------------------------------------------------
(* The writes.  Readable files but the one written stay as they are.       *)

LEMMA WrittenFacts ==
  ASSUME NEW f, NEW ix, NEW pl, disk' = Written(f, ix, pl)
  PROVE  /\ disk'.index = ix /\ disk'.payload = pl /\ Readable(f)'
         /\ \A g : g # f => (Readable(g)' <=> Readable(g))
BY DEF Written, Readable

LEMMA WriteGraphInv ==
  ASSUME DirectoryInv, WriteGraph
  PROVE  DirectoryInv' /\ Shrinks
<1> USE DEF WriteGraph, memory
<1>1. /\ disk'.index = disk.index /\ disk'.payload = disk.payload /\ Readable(GraphFile)'
      /\ \A g : g # GraphFile => (Readable(g)' <=> Readable(g))
  BY WrittenFacts
<1>2. PayloadsOK' /\ OnDisk' \subseteq OnDisk
  <2>1. \A k \in EntryKey : Readable(FileOf(k))' <=> Readable(FileOf(k))
    BY <1>1, FilesDiffer DEF Readable, FileOf, GraphFile
  <2>2. \A k \in EntryKey : Readable(FileOf(k))' =>
          /\ Readable(FileOf(k)) /\ FileOf(k) \in DOMAIN disk'.payload
          /\ disk'.payload[FileOf(k)] = disk.payload[FileOf(k)]
    BY <1>1, <2>1 DEF DirectoryInv, PayloadsOK
  <2>3. PayloadsOK
    BY DEF DirectoryInv
  <2> QED BY <2>2, <2>3, DiskKept
<1>3. WritingInv'
  BY <1>1 DEF DirectoryInv, WritingInv, GraphFile
<1>4. SavedInv'
  BY DEF SavedInv, NothingSaved
<1>5. DirectoryInv'
  BY <1>1, <1>2, <1>3, <1>4 DEF DirectoryInv, MapOK
<1>6. InMemory' = InMemory
  BY DEF InMemory
<1>7. served' = {}
  BY DEF DirectoryInv, WritingInv
<1> QED BY <1>2, <1>5, <1>6, <1>7 DEF Shrinks, Known

LEMMA WritePayloadInv ==
  ASSUME DirectoryInv, NEW k \in EntryKey, WritePayload(k)
  PROVE  DirectoryInv' /\ Shrinks
<1> USE DEF WritePayload, memory
<1> DEFINE f == FileOf(k)
           pl == With(disk.payload, f, entries[k])
<1>1. /\ disk'.index = disk.index /\ disk'.payload = pl /\ Readable(f)'
      /\ \A g : g # f => (Readable(g)' <=> Readable(g))
  BY WrittenFacts
<1>2. k \in DOMAIN entries /\ entries[k] \in Entry
  BY DEF DirectoryInv, MapOK, WritingInv
<1>3. /\ f \in DOMAIN pl /\ pl[f] = entries[k]
      /\ \A g \in DOMAIN disk.payload : g # f => g \in DOMAIN pl /\ pl[g] = disk.payload[g]
  BY DEF With
<1> HIDE DEF pl
<1>4. \A j \in EntryKey : j # k => FileOf(j) # f /\ (Readable(FileOf(j))' <=> Readable(FileOf(j)))
  BY <1>1, FilesDiffer DEF Readable, FileOf
<1>5. \A j \in EntryKey : Readable(FileOf(j)) => FileOf(j) \in DOMAIN disk.payload
                                              /\ disk.payload[FileOf(j)] \in Entry
  BY DEF DirectoryInv, PayloadsOK
<1>6. \A j \in EntryKey : Readable(FileOf(j))' =>
        /\ FileOf(j) \in DOMAIN disk'.payload
        /\ IF j = k THEN disk'.payload[FileOf(j)] = entries[k]
           ELSE Readable(FileOf(j)) /\ disk'.payload[FileOf(j)] = disk.payload[FileOf(j)]
  BY <1>1, <1>3, <1>4, <1>5
<1>7. PayloadsOK'
  BY <1>2, <1>5, <1>6 DEF PayloadsOK, FileOf
<1>8. OnDisk' \subseteq OnDisk \cup InMemory
  <2> SUFFICES ASSUME NEW j \in EntryKey, Readable(FileOf(j))'
               PROVE  <<j, disk'.payload[FileOf(j)].data>> \in OnDisk \cup InMemory
    BY DEF OnDisk, FileOf
  <2> QED BY <1>2, <1>6 DEF OnDisk, InMemory
<1>9. WritingInv'
  <2>1. Readable(GraphFile)'
    BY <1>1, FilesDiffer DEF DirectoryInv, WritingInv, GraphFile
  <2>2. ASSUME NEW j \in DOMAIN entries, j \notin todo'
        PROVE  Holds(j, entries[j])'
    <3>1. CASE j = k
      BY <3>1, <1>1, <1>3 DEF Holds, FileOf
    <3>2. CASE j # k
      <4>1. j \in EntryKey /\ Holds(j, entries[j])
        BY <2>2, <3>2 DEF DirectoryInv, WritingInv, MapOK
      <4> QED BY <1>1, <1>3, <1>4, <3>2, <4>1 DEF Holds, FileOf
    <3> QED BY <3>1, <3>2
  <2> QED BY <2>1, <2>2 DEF DirectoryInv, WritingInv
<1>10. SavedInv'
  BY DEF DirectoryInv, SavedInv
<1>11. DirectoryInv'
  BY <1>1, <1>7, <1>9, <1>10 DEF DirectoryInv, MapOK
<1>12. InMemory' = InMemory /\ served' = {}
  BY DEF InMemory, DirectoryInv, WritingInv
<1> QED BY <1>8, <1>11, <1>12 DEF Shrinks, Known

LEMMA WriteIndexInv ==
  ASSUME DirectoryInv, WriteIndex
  PROVE  DirectoryInv' /\ Shrinks
<1> USE DEF WriteIndex, memory
<1>1. /\ disk'.index = DOMAIN entries /\ disk'.payload = disk.payload /\ Readable(IndexFile)'
      /\ \A g : g # IndexFile => (Readable(g)' <=> Readable(g))
  BY WrittenFacts
<1>2. PayloadsOK' /\ OnDisk' \subseteq OnDisk
  <2>1. \A k \in EntryKey : Readable(FileOf(k))' <=> Readable(FileOf(k))
    BY <1>1, FilesDiffer DEF Readable, FileOf, IndexFile
  <2>2. \A k \in EntryKey : Readable(FileOf(k))' =>
          /\ Readable(FileOf(k)) /\ FileOf(k) \in DOMAIN disk'.payload
          /\ disk'.payload[FileOf(k)] = disk.payload[FileOf(k)]
    BY <1>1, <2>1 DEF DirectoryInv, PayloadsOK
  <2>3. PayloadsOK
    BY DEF DirectoryInv
  <2> QED BY <2>2, <2>3, DiskKept
<1>3. WritingInv' /\ served' = {}
  BY DEF DirectoryInv, WritingInv
<1>4. SavedInv'
  <2>1. MapOK(entries) /\ Readable(GraphFile)'
    BY <1>1, FilesDiffer DEF DirectoryInv, WritingInv, GraphFile
  <2>2. ASSUME NEW k \in DOMAIN entries
        PROVE  Holds(k, entries[k])'
    <3>1. k \in EntryKey /\ Holds(k, entries[k])
      BY DEF DirectoryInv, WritingInv, MapOK
    <3>2. FileOf(k) # IndexFile
      BY <3>1, FilesDiffer
    <3> QED BY <1>1, <3>1, <3>2 DEF Holds, FileOf
  <2> QED BY <1>1, <2>1, <2>2 DEF SavedInv, Readable, GraphFile, IndexFile
<1>5. DirectoryInv'
  BY <1>1, <1>2, <1>3, <1>4 DEF DirectoryInv, MapOK
<1>6. InMemory' = InMemory
  BY DEF InMemory
<1> QED BY <1>2, <1>3, <1>5, <1>6 DEF Shrinks, Known

(* A write that stops halfway costs the file it was writing.               *)
LEMMA WriteFailsInv ==
  ASSUME DirectoryInv, WriteFails
  PROVE  DirectoryInv' /\ Shrinks
<1> USE DEF WriteFails, memory
<1>1. PICK f : disk' = StumpOf(f)
  OBVIOUS
<1>2. PayloadsOK
  BY DEF DirectoryInv
<1>3. PayloadsOK' /\ OnDisk' \subseteq OnDisk
  BY <1>1, <1>2, StumpLoses, FileLostShrinks
<1>4. disk'.index \subseteq EntryKey
  BY <1>1 DEF StumpOf, DirectoryInv
<1>5. served' = {}
  BY DEF DirectoryInv, WritingInv, FileBeingWritten
<1>6. WritingInv' /\ SavedInv'
  BY <1>5 DEF WritingInv, SavedInv, NothingSaved
<1>7. DirectoryInv'
  BY <1>3, <1>4, <1>6 DEF DirectoryInv, MapOK
<1>8. InMemory' = InMemory
  BY DEF InMemory
<1> QED BY <1>3, <1>5, <1>7, <1>8 DEF Shrinks, Known

(* A crash costs the memory, and the file that was being written.          *)
LEMMA CrashInv ==
  ASSUME DirectoryInv, Crash
  PROVE  DirectoryInv' /\ Shrinks
<1> USE DEF Crash
<1>1. PayloadsOK
  BY DEF DirectoryInv
<1>2. /\ PayloadsOK' /\ OnDisk' \subseteq OnDisk /\ disk'.index \subseteq EntryKey
  <2>1. CASE disk' = disk
    BY <2>1, <1>1, SameDisk DEF PayloadsOK, Readable, FileOf, DirectoryInv
  <2>2. ASSUME NEW f, disk' = StumpOf(f)
        PROVE  /\ PayloadsOK' /\ OnDisk' \subseteq OnDisk /\ disk'.index \subseteq EntryKey
    <3>1. disk'.index \subseteq EntryKey
      BY <2>2 DEF StumpOf, DirectoryInv
    <3> QED BY <2>2, <3>1, <1>1, StumpLoses, FileLostShrinks
  <2> QED BY <2>1, <2>2
<1>3. entries' = EmptyMap /\ MapOK(entries') /\ DOMAIN entries' = {} /\ InMemory' = {}
  BY DEF EmptyMap, MapOK, InMemory
<1>4. WritingInv'
  BY <1>3 DEF WritingInv
<1>5. SavedInv'
  <2>1. CASE disk' = disk /\ saved' = saved
    BY <2>1 DEF DirectoryInv, SavedInv, Holds, Readable, FileOf, GraphFile, IndexFile
  <2>2. CASE saved' = {}
    BY <2>2 DEF SavedInv
  <2> QED BY <2>1, <2>2 DEF NothingSaved
<1>6. DirectoryInv'
  BY <1>2, <1>3, <1>4, <1>5 DEF DirectoryInv
<1> QED BY <1>2, <1>3, <1>6 DEF Shrinks, Known

-----------------------------------------------------------------------------
(* A load brings in what the payload files hold, under their own keys.     *)
LEMMA LoadableHeld ==
  ASSUME DirectoryInv
  PROVE  \A k \in DOMAIN Loadable :
           /\ k \in EntryKey /\ Readable(FileOf(k)) /\ disk.payload[FileOf(k)] \in Entry
           /\ Loadable[k] = disk.payload[FileOf(k)]
BY DEF DirectoryInv, PayloadsOK, Loadable, LoadableKeys, EmptyMap

LEMMA LoadInv ==
  ASSUME DirectoryInv, Load
  PROVE  DirectoryInv' /\ Shrinks
<1>1. UNCHANGED diskVars /\ writing = "idle" /\ served' = {} /\ now' \in 0 .. MaxTime
  BY DEF Load, diskVars, DirectoryInv
<1>2. \A k \in DOMAIN entries' :
        \/ k \in DOMAIN Loadable /\ entries'[k] = Loadable[k]
        \/ k \in DOMAIN entries /\ entries'[k] = entries[k]
  BY DEF Load
<1>3. MapOK(entries')
  BY <1>2, LoadableHeld DEF DirectoryInv, MapOK
<1>4. InMemory' \subseteq Known
  <2> SUFFICES ASSUME NEW k \in DOMAIN entries'
               PROVE  <<k, entries'[k].data>> \in Known
    BY DEF InMemory
  <2> QED BY <1>2, LoadableHeld DEF Known, InMemory, OnDisk
<1>5. DirectoryInv'
  BY <1>1, <1>3, CacheCall
<1>6. OnDisk' = OnDisk
  BY <1>1, SameDisk DEF diskVars
<1> QED BY <1>1, <1>4, <1>5, <1>6 DEF Shrinks, Known

LEMMA ClearInv ==
  ASSUME DirectoryInv, Clear
  PROVE  DirectoryInv' /\ Shrinks
<1> USE DEF Clear, memory
<1>1. PICK gone \in SUBSET disk.files :
        disk' = [files |-> disk.files \ gone, torn |-> disk.torn \ gone,
                 index |-> IF IndexFile \in gone THEN {} ELSE disk.index,
                 payload |-> Without(disk.payload, gone)]
  OBVIOUS
<1>2. /\ disk'.index \subseteq EntryKey
      /\ \A k \in EntryKey : Readable(FileOf(k))' => Readable(FileOf(k)) /\ FileOf(k) \notin gone
  BY <1>1 DEF DirectoryInv, Readable, FileOf
<1>3. \A f \in DOMAIN disk.payload : f \notin gone =>
        f \in DOMAIN disk'.payload /\ disk'.payload[f] = disk.payload[f]
  BY <1>1 DEF Without
<1>4. PayloadsOK
  BY DEF DirectoryInv
<1>5. PayloadsOK' /\ OnDisk' \subseteq OnDisk
  BY <1>2, <1>3, <1>4, DiskKept DEF PayloadsOK
<1>6. WritingInv' /\ SavedInv'
  BY DEF DirectoryInv, WritingInv, SavedInv, NothingSaved
<1>7. DirectoryInv'
  BY <1>2, <1>5, <1>6 DEF DirectoryInv, MapOK
<1>8. InMemory' = InMemory
  BY DEF InMemory
<1> QED BY <1>5, <1>7, <1>8 DEF Shrinks, Known

-----------------------------------------------------------------------------
(* Each call is a step of the store: it forgets, puts or looks up.         *)

LEMMA ShrinkingForgets ==
  ASSUME Shrinks
  PROVE  Store!StoreNext
BY DEF Shrinks, Known, Store!StoreNext, Store!ForgetPairs, Store!NoAnswer

LEMMA PutIsPutPair ==
  ASSUME DirectoryInv, writing = "idle", UNCHANGED diskVars,
         NEW k \in EntryKey, NEW n \in Length, Put(k, n)
  PROVE  DirectoryInv' /\ Store!StoreNext
<1> DEFINE v == [owner |-> k, len |-> n]
<1>1. /\ MapOK(entries') /\ served' = {} /\ now' = now
      /\ \A j \in DOMAIN entries' : Kept(j) \/ (j = k /\ entries'[j].data = v)
  BY PutEntries
<1>2. DirectoryInv'
  BY <1>1, CacheCall DEF DirectoryInv
<1>3. InMemory' \subseteq InMemory \cup {<<k, v>>}
  BY <1>1 DEF InMemory, Kept
<1>4. OnDisk' = OnDisk
  BY SameDisk DEF diskVars
<1>5. v \in Store!ValuesFor(k)
  BY DEF Store!ValuesFor
<1>6. Store!PutPair(k, v)
  BY <1>1, <1>3, <1>4 DEF Store!PutPair, Store!NoAnswer
<1> QED BY <1>2, <1>5, <1>6 DEF Store!StoreNext

LEMMA GetIsLookup ==
  ASSUME DirectoryInv, writing = "idle", UNCHANGED diskVars, NEW k \in EntryKey, Get(k)
  PROVE  DirectoryInv' /\ Store!StoreNext
<1>1. /\ MapOK(entries') /\ now' = now /\ \A j \in DOMAIN entries' : Kept(j)
      /\ served' = {} \/ (k \in DOMAIN entries /\ served' = {<<k, entries[k].data>>})
  BY GetEntries
<1>2. DirectoryInv'
  BY <1>1, CacheCall DEF DirectoryInv
<1>3. InMemory' \subseteq InMemory
  BY <1>1, MemoryKept
<1>4. OnDisk' = OnDisk
  BY SameDisk DEF diskVars
<1>5. k \in DOMAIN entries => <<k, entries[k].data>> \in InMemory
  BY DEF InMemory
<1>6. Store!Lookup(k)
  BY <1>1, <1>3, <1>4, <1>5 DEF Store!Lookup, Store!NoAnswer
<1> QED BY <1>2, <1>6 DEF Store!StoreNext

LEMMA InMemoryStepInv ==
  ASSUME DirectoryInv, InMemoryStep
  PROVE  DirectoryInv' /\ Store!StoreNext
<1> USE DEF InMemoryStep
<1>1. CASE \E k \in EntryKey, n \in Length : Put(k, n)
  BY <1>1, PutIsPutPair
<1>2. CASE \E k \in EntryKey : Get(k)
  BY <1>2, GetIsLookup
<1>3. CASE \/ \E age \in 1 .. MaxTime : ClearOldEntries(age)
           \/ \E target \in Length : EvictLru(target)
           \/ ResetStats
           \/ Tick
  <2>1. /\ MapOK(entries') /\ now' \in 0 .. MaxTime /\ served' = {}
        /\ \A j \in DOMAIN entries' : Kept(j)
    BY <1>3, OtherEntries
  <2>2. DirectoryInv'
    BY <2>1, CacheCall
  <2>3. InMemory' \subseteq InMemory /\ OnDisk' = OnDisk
    BY <2>1, MemoryKept, SameDisk DEF diskVars
  <2>4. Shrinks
    BY <2>1, <2>3 DEF Shrinks, Known
  <2> QED BY <2>2, <2>4, ShrinkingForgets
<1> QED BY <1>1, <1>2, <1>3 DEF CacheNext

LEMMA DirectoryStep ==
  ASSUME DirectoryInv, DirectoryNext
  PROVE  DirectoryInv' /\ Store!StoreNext
<1>1. CASE InMemoryStep
  BY <1>1, InMemoryStepInv
<1>2. CASE TickWhileWriting
  BY <1>2, TickInv, ShrinkingForgets
<1>3. CASE Persist
  BY <1>3, PersistInv, ShrinkingForgets
<1>4. CASE WriteGraph
  BY <1>4, WriteGraphInv, ShrinkingForgets
<1>5. CASE WriteIndex
  BY <1>5, WriteIndexInv, ShrinkingForgets
<1>6. CASE WriteFails
  BY <1>6, WriteFailsInv, ShrinkingForgets
<1>7. CASE Crash
  BY <1>7, CrashInv, ShrinkingForgets
<1>8. CASE \E k \in EntryKey : WritePayload(k)
  BY <1>8, WritePayloadInv, ShrinkingForgets
<1>9. CASE Load
  BY <1>9, LoadInv, ShrinkingForgets
<1>10. CASE Clear
  BY <1>10, ClearInv, ShrinkingForgets
<1> QED BY <1>1, <1>2, <1>3, <1>4, <1>5, <1>6, <1>7, <1>8, <1>9, <1>10 DEF DirectoryNext

LEMMA DirectoryStutter ==
  ASSUME DirectoryInv, UNCHANGED <<cacheVars, diskVars>>
  PROVE  DirectoryInv' /\ UNCHANGED <<InMemory \cup OnDisk, served>>
<1> USE DEF cacheVars, diskVars
<1>1. PayloadsOK' /\ WritingInv' /\ SavedInv'
  BY DEF DirectoryInv, PayloadsOK, Readable, FileOf, WritingInv, SavedInv, Holds,
         GraphFile, IndexFile
<1>2. InMemory' = InMemory /\ OnDisk' = OnDisk
  BY SameDisk DEF InMemory
<1> QED BY <1>1, <1>2 DEF DirectoryInv, MapOK

LEMMA DirectoryStart ==
  ASSUME DirectoryInit
  PROVE  DirectoryInv /\ Store!StoreInit
<1> USE DEF DirectoryInit, CacheInit
<1>1. DOMAIN entries = {} /\ now \in 0 .. MaxTime
  BY CacheAssumption DEF EmptyMap
<1>2. \A f : ~Readable(f)
  BY DEF Readable, EmptyDisk
<1>3. PayloadsOK /\ WritingInv /\ SavedInv /\ disk.index \subseteq EntryKey
  BY <1>1, <1>2 DEF PayloadsOK, WritingInv, SavedInv, NothingSaved, EmptyDisk
<1>4. InMemory = {} /\ OnDisk = {}
  BY <1>1, <1>2 DEF InMemory, OnDisk
<1> QED BY <1>1, <1>3, <1>4 DEF DirectoryInv, MapOK, Store!StoreInit, Store!NoAnswer

(***************************************************************************)
(* The cache with its directory is a LossyStore: through puts, evictions,  *)
(* expiry, half-written files, crashes and loads, get answers nothing or   *)
(* what was put under the key (analysis_cache.rs get, put, persist_to_disk *)
(* and load_from_disk).                                                    *)
(***************************************************************************)
THEOREM CacheIsLossyStore == DirectorySpec => ImplementsLossyStore
<1>1. DirectoryInit => DirectoryInv /\ Store!StoreInit
  BY DirectoryStart
<1>2. DirectoryInv /\ [DirectoryNext]_<<cacheVars, diskVars>> =>
        DirectoryInv' /\ [Store!StoreNext]_<<InMemory \cup OnDisk, served>>
  BY DirectoryStep, DirectoryStutter
<1> QED BY <1>1, <1>2, PTL DEF DirectorySpec, ImplementsLossyStore, Store!StoreSpec

-----------------------------------------------------------------------------
LEMMA InvImpliesSavedIsLoadable ==
  ASSUME DirectoryInv
  PROVE  SavedIsLoadable
<1> SUFFICES ASSUME NEW map \in saved
             PROVE  /\ DOMAIN Loadable = {k \in DOMAIN map : Ttl = 0 \/ Age(map[k]) <= Ttl}
                    /\ \A k \in DOMAIN Loadable : Loadable[k] = map[k]
  BY DEF SavedIsLoadable
<1>1. /\ MapOK(map) /\ Readable(GraphFile) /\ Readable(IndexFile) /\ disk.index = DOMAIN map
      /\ \A k \in DOMAIN map : Holds(k, map[k])
  BY DEF DirectoryInv, SavedInv
<1>2. Loadable = [k \in LoadableKeys |-> disk.payload[FileOf(k)]]
  BY <1>1 DEF Loadable, Readable
<1>3. \A k \in DOMAIN map : Readable(FileOf(k)) /\ disk.payload[FileOf(k)] = map[k]
  BY <1>1 DEF Holds
<1>4. \A k \in DOMAIN map : Age(map[k]) \in Int
  BY <1>1 DEF Age, MapOK, Entry, DirectoryInv
<1>5. Ttl \in Nat
  BY CacheAssumption
<1>6. LoadableKeys = {k \in DOMAIN map : ~(Ttl > 0 /\ Age(map[k]) > Ttl)}
  BY <1>1, <1>3 DEF LoadableKeys
<1>7. \A k \in DOMAIN map : ~(Ttl > 0 /\ Age(map[k]) > Ttl) <=> (Ttl = 0 \/ Age(map[k]) <= Ttl)
  BY <1>4, <1>5
<1> QED BY <1>2, <1>3, <1>6, <1>7

(***************************************************************************)
(* What a finished persist_to_disk wrote is what a later process loads,    *)
(* less what has expired, as long as nothing touched the directory since:  *)
(* neither a crash between the writes nor a failed one leaves a directory  *)
(* that is taken for a whole one.                                          *)
(***************************************************************************)
THEOREM SavedStaysLoadable == DirectorySpec => []SavedIsLoadable
<1>1. DirectoryInit => DirectoryInv
  BY DirectoryStart
<1>2. DirectoryInv /\ [DirectoryNext]_<<cacheVars, diskVars>> => DirectoryInv'
  BY DirectoryStep, DirectoryStutter
<1>3. DirectoryInv => SavedIsLoadable
  BY InvImpliesSavedIsLoadable
<1> QED BY <1>1, <1>2, <1>3, PTL DEF DirectorySpec

(***************************************************************************)
(* get never answers with an entry as old as the time to live, not even    *)
(* one that a load has just brought in: a load accepts an entry for one    *)
(* second longer than get serves it.                                       *)
(***************************************************************************)
THEOREM OnlyFreshIsServed == DirectorySpec => ServedIsFresh
<1>1. ASSUME DirectoryInv, DirectoryNext, served' # {}, Ttl > 0
      PROVE  \A pair \in served' : now - entries[pair[1]].created < Ttl
  <2>1. PICK k \in EntryKey : writing = "idle" /\ Get(k)
    BY <1>1, OtherEntries, PutEntries, TickInv, PersistInv, WriteGraphInv, WriteIndexInv,
       WriteFailsInv, CrashInv, WritePayloadInv, LoadInv, ClearInv
    DEF DirectoryNext, InMemoryStep, CacheNext, Shrinks
  <2>2. k \in DOMAIN entries /\ ~Expired(entries[k]) /\ served' = {<<k, entries[k].data>>}
    BY <1>1, <2>1 DEF Get
  <2>3. entries[k] \in Entry
    BY <1>1, <2>2 DEF DirectoryInv, MapOK
  <2>4. now - entries[k].created \in Int /\ Ttl \in Nat
    BY <1>1, <2>3, CacheAssumption DEF Entry, DirectoryInv
  <2>5. now - entries[k].created < Ttl
    BY <1>1, <2>2, <2>4 DEF Expired, Age
  <2> QED BY <2>2, <2>5
<1>2. DirectoryInit => DirectoryInv
  BY DirectoryStart
<1>3. DirectoryInv /\ [DirectoryNext]_<<cacheVars, diskVars>> => DirectoryInv'
  BY DirectoryStep, DirectoryStutter
<1>4. DirectoryInv /\ [DirectoryNext]_<<cacheVars, diskVars>> =>
        [served' # {} /\ Ttl > 0 =>
           \A pair \in served' : now - entries[pair[1]].created < Ttl]_cacheVars
  BY <1>1 DEF cacheVars
<1> QED BY <1>2, <1>3, <1>4, PTL DEF DirectorySpec, ServedIsFresh

-----------------------------------------------------------------------------
(* The bytes counted.  What is counted is never less than there is: a put  *)
(* and a load add at least what they bring, and what goes uncounted only   *)
(* goes away.                                                              *)

SizeInv ==
  /\ IsFiniteSet(DOMAIN entries) /\ IsFiniteSet(disk.index)
  /\ totalSize \in Nat /\ SizeOf(entries) <= totalSize

LEMMA BytesFinite ==
  ASSUME NEW map, MapOK(map), IsFiniteSet(DOMAIN map)
  PROVE  IsFiniteSet(BytesOf(map))
<1> DEFINE B(k) == {k} \X (1 .. map[k].data.len)
           Sets == {B(k) : k \in DOMAIN map}
           f == [k \in DOMAIN map |-> B(k)]
<1>1. ASSUME NEW k \in DOMAIN map PROVE IsFiniteSet(B(k))
  <2>1. map[k].data.len \in Nat
    BY CacheAssumption DEF MapOK, Entry
  <2> DEFINE n == map[k].data.len
  <2>2. IsFiniteSet({k})
    BY FS_Singleton
  <2>3. IsFiniteSet(1 .. n)
    <3>1. 1 \in Int /\ n \in Int
      BY <2>1
    <3> HIDE DEF n
    <3> QED BY <3>1, FS_Interval
  <2> HIDE DEF n
  <2>4. IsFiniteSet({k} \X (1 .. n))
    BY <2>2, <2>3, FS_Product
  <2> QED BY <2>4 DEF n
<1>2. f \in Surjection(DOMAIN map, Sets)
  BY DEF Surjection
<1>3. IsFiniteSet(Sets)
  <2> HIDE DEF f, Sets
  <2> QED BY <1>2, FS_Surjection
<1>4. \A T \in Sets : IsFiniteSet(T)
  BY <1>1
<1>5. IsFiniteSet(UNION Sets)
  <2> HIDE DEF Sets
  <2> QED BY <1>3, <1>4, FS_UNION
<1> QED BY <1>5 DEF BytesOf

(* Entries that were there, with the data they had, hold no more bytes.    *)
LEMMA FewerBytes ==
  ASSUME NEW a, NEW b, IsFiniteSet(BytesOf(a)),
         \A k \in DOMAIN b : k \in DOMAIN a /\ b[k].data = a[k].data
  PROVE  SizeOf(b) \in Nat /\ SizeOf(a) \in Nat /\ SizeOf(b) <= SizeOf(a)
<1>1. BytesOf(b) \subseteq BytesOf(a)
  BY DEF BytesOf
<1>2. IsFiniteSet(BytesOf(b)) /\ Cardinality(BytesOf(b)) <= Cardinality(BytesOf(a))
  BY <1>1, FS_Subset
<1> QED BY <1>2, FS_CardinalityType DEF SizeOf

LEMMA JoinedBytes ==
  ASSUME NEW a, NEW b, NEW c, IsFiniteSet(BytesOf(a)), IsFiniteSet(BytesOf(b)),
         \A k \in DOMAIN c : \/ k \in DOMAIN a /\ c[k].data = a[k].data
                             \/ k \in DOMAIN b /\ c[k].data = b[k].data
  PROVE  /\ SizeOf(a) \in Nat /\ SizeOf(b) \in Nat /\ SizeOf(c) \in Nat
         /\ SizeOf(c) <= SizeOf(a) + SizeOf(b)
<1> DEFINE A == BytesOf(a)
           B == BytesOf(b)
           C == BytesOf(c)
<1>1. C \subseteq A \cup B
  BY DEF BytesOf
<1> HIDE DEF A, B, C
<1>2. IsFiniteSet(A) /\ IsFiniteSet(B)
  BY DEF A, B
<1>3. IsFiniteSet(A \cup B) /\ Cardinality(A \cup B) = Cardinality(A) + Cardinality(B) - Cardinality(A \cap B)
  BY <1>2, FS_Union
<1>4. IsFiniteSet(A \cap B)
  BY <1>2, FS_Intersection
<1>5. IsFiniteSet(C) /\ Cardinality(C) <= Cardinality(A \cup B)
  BY <1>1, <1>3, FS_Subset
<1>6. Cardinality(A) \in Nat /\ Cardinality(B) \in Nat /\ Cardinality(C) \in Nat /\ Cardinality(A \cap B) \in Nat
  BY <1>2, <1>4, <1>5, FS_CardinalityType
<1>7. Cardinality(C) <= Cardinality(A) + Cardinality(B)
  BY <1>3, <1>5, <1>6
<1> QED BY <1>6, <1>7 DEF SizeOf, A, B, C

LEMMA EntryBytes ==
  ASSUME NEW k, NEW e, e.data.len \in Nat
  PROVE  LET one == [x \in {k} |-> e]
         IN  IsFiniteSet(BytesOf(one)) /\ SizeOf(one) = e.data.len
<1> DEFINE one == [x \in {k} |-> e]
           n == e.data.len
<1>1. BytesOf(one) = {k} \X (1 .. n)
  BY DEF BytesOf
<1>2. IsFiniteSet({k}) /\ Cardinality({k}) = 1
  BY FS_Singleton
<1>3. 1 \in Int /\ n \in Int /\ n \in Nat
  OBVIOUS
<1>4. n = e.data.len
  OBVIOUS
<1> HIDE DEF n
<1>5. IsFiniteSet(1 .. n) /\ Cardinality(1 .. n) = IF 1 > n THEN 0 ELSE n - 1 + 1
  BY <1>3, FS_Interval
<1>6. Cardinality(1 .. n) = n
  BY <1>3, <1>5
<1>7. IsFiniteSet({k} \X (1 .. n)) /\ Cardinality({k} \X (1 .. n)) = Cardinality({k}) * Cardinality(1 .. n)
  BY <1>2, <1>5, FS_Product
<1>8. 1 * n = n
  BY <1>3
<1>9. Cardinality({k} \X (1 .. n)) = n
  BY <1>2, <1>6, <1>7, <1>8
<1> HIDE DEF one
<1>10. IsFiniteSet(BytesOf(one)) /\ SizeOf(one) = e.data.len
  BY <1>1, <1>4, <1>7, <1>9 DEF SizeOf
<1> QED BY <1>10 DEF one

LEMMA EmptyHasNoBytes == SizeOf(EmptyMap) = 0 /\ IsFiniteSet(DOMAIN EmptyMap)
<1>1. DOMAIN EmptyMap = {} /\ BytesOf(EmptyMap) = {}
  BY DEF EmptyMap, BytesOf
<1> QED BY <1>1, FS_EmptySet DEF SizeOf

LEMMA PutSize ==
  ASSUME DirectoryInv, SizeInv, NEW k \in EntryKey, NEW n \in Length, Put(k, n)
  PROVE  /\ IsFiniteSet(DOMAIN entries') /\ totalSize' \in Nat /\ SizeOf(entries') <= totalSize'
         /\ MaxCacheSize > 0 => SizeOf(entries') <= MaxCacheSize
<1> DEFINE with == With(entries, k, NewEntry(k, n))
           one == [x \in {k} |-> NewEntry(k, n)]
           total == totalSize + n
<1>1. /\ n \in Nat /\ MaxCacheSize \in Nat /\ totalSize \in Nat
      /\ IsFiniteSet(DOMAIN entries) /\ SizeOf(entries) <= totalSize
      /\ MapOK(entries) /\ NewEntry(k, n) \in Entry /\ NewEntry(k, n).data.len = n
  BY CacheAssumption DEF SizeInv, DirectoryInv, NewEntry, Entry
<1>2. IsFiniteSet(BytesOf(entries)) /\ IsFiniteSet(BytesOf(one)) /\ SizeOf(one) = n
  BY <1>1, BytesFinite, EntryBytes
<1>3. MapOK(with) /\ IsFiniteSet(DOMAIN with)
  <2>1. DOMAIN with = DOMAIN entries \cup {k}
    BY DEF With
  <2>2. IsFiniteSet(DOMAIN entries \cup {k})
    BY <1>1, FS_AddElement
  <2>3. MapOK(with)
    BY <1>1 DEF MapOK, With
  <2> QED BY <2>1, <2>2, <2>3
<1>4. /\ SizeOf(entries) \in Nat /\ SizeOf(with) \in Nat /\ SizeOf(with) <= SizeOf(entries) + n
  <2>1. \A j \in DOMAIN with : \/ j \in DOMAIN entries /\ with[j].data = entries[j].data
                               \/ j \in DOMAIN one /\ with[j].data = one[j].data
    BY DEF With
  <2> HIDE DEF with, one
  <2> QED BY <1>2, <2>1, JoinedBytes
<1>5. SizeOf(with) <= total /\ total \in Nat
  <2> HIDE DEF with
  <2> QED BY <1>1, <1>4
<1>6. IsFiniteSet(BytesOf(with))
  BY <1>3, BytesFinite
<1>7. CASE MaxCacheSize > 0 /\ total > MaxCacheSize
  <2>1. entries' \in Evict(with, total - MaxCacheSize) /\ totalSize' = SizeOf(entries')
    BY <1>7 DEF Put
  <2>2. PICK gone \in SUBSET DOMAIN with : entries' = Without(with, gone)
    BY <2>1 DEF Evict
  <2>3. SizeOf(entries') + (total - MaxCacheSize) <= SizeOf(with) \/ entries' = EmptyMap
    BY <2>1 DEF Evict
  <2> HIDE DEF with
  <2>4. DOMAIN entries' \subseteq DOMAIN with /\ \A j \in DOMAIN entries' : entries'[j] = with[j]
    BY <2>2 DEF Without
  <2>5. IsFiniteSet(DOMAIN entries')
    BY <1>3, <2>4, FS_Subset
  <2>6. SizeOf(entries') \in Nat
    BY <1>6, <2>4, FewerBytes
  <2>7. SizeOf(entries') <= MaxCacheSize
    <3>1. CASE entries' = EmptyMap
      <4>1. SizeOf(entries') = 0
        BY <3>1, EmptyHasNoBytes
      <4> QED BY <1>1, <4>1
    <3>2. CASE SizeOf(entries') + (total - MaxCacheSize) <= SizeOf(with)
      <4> DEFINE a == SizeOf(entries')
                 b == SizeOf(with)
                 t == total
      <4>1. a \in Nat /\ b \in Nat /\ t \in Nat /\ a + (t - MaxCacheSize) <= b /\ b <= t
        BY <1>4, <1>5, <2>6, <3>2
      <4> HIDE DEF a, b, t
      <4>2. a <= MaxCacheSize
        BY <1>1, <4>1
      <4> QED BY <4>2 DEF a
    <3> QED BY <2>3, <3>1, <3>2
  <2> QED BY <2>1, <2>5, <2>6, <2>7
<1>8. CASE ~(MaxCacheSize > 0 /\ total > MaxCacheSize)
  <2>1. entries' = with /\ totalSize' = total
    BY <1>8 DEF Put
  <2>2. IsFiniteSet(DOMAIN entries') /\ SizeOf(entries') \in Nat /\ SizeOf(entries') <= total
    BY <1>3, <1>4, <1>5, <2>1
  <2>3. MaxCacheSize > 0 => total <= MaxCacheSize
    BY <1>1, <1>5, <1>8
  <2>4. MaxCacheSize > 0 => SizeOf(entries') <= MaxCacheSize
    <3> DEFINE a == SizeOf(entries')
               t == total
    <3>1. a \in Nat /\ t \in Nat /\ a <= t /\ (MaxCacheSize > 0 => t <= MaxCacheSize)
      BY <1>5, <2>2, <2>3
    <3> HIDE DEF a, t
    <3>2. MaxCacheSize > 0 => a <= MaxCacheSize
      BY <1>1, <3>1
    <3> QED BY <3>2 DEF a
  <2> QED BY <1>5, <2>1, <2>2, <2>4
<1> QED BY <1>7, <1>8

(* What is left of the entries is counted as before, or anew.              *)
LEMMA LessCounted ==
  ASSUME DirectoryInv, SizeInv, \A j \in DOMAIN entries' : Kept(j),
         totalSize' = totalSize \/ totalSize' = SizeOf(entries')
  PROVE  IsFiniteSet(DOMAIN entries') /\ totalSize' \in Nat /\ SizeOf(entries') <= totalSize'
<1>1. IsFiniteSet(BytesOf(entries))
  BY BytesFinite DEF DirectoryInv, SizeInv
<1>2. \A j \in DOMAIN entries' : j \in DOMAIN entries /\ entries'[j].data = entries[j].data
  BY DEF Kept
<1>3. SizeOf(entries') \in Nat /\ SizeOf(entries) \in Nat /\ SizeOf(entries') <= SizeOf(entries)
  BY <1>1, <1>2, FewerBytes
<1>4. DOMAIN entries' \subseteq DOMAIN entries
  BY <1>2
<1>5. IsFiniteSet(DOMAIN entries')
  BY <1>4, FS_Subset DEF SizeInv
<1>6. totalSize' \in Nat /\ SizeOf(entries') <= totalSize'
  BY <1>3 DEF SizeInv
<1> QED BY <1>5, <1>6

LEMMA LoadSize ==
  ASSUME DirectoryInv, SizeInv, Load
  PROVE  IsFiniteSet(DOMAIN entries') /\ totalSize' \in Nat /\ SizeOf(entries') <= totalSize'
<1>1. DOMAIN Loadable \subseteq disk.index
  BY DEF Loadable, LoadableKeys, EmptyMap
<1>2. MapOK(Loadable) /\ IsFiniteSet(DOMAIN Loadable)
  <2>1. IsFiniteSet(DOMAIN Loadable)
    BY <1>1, FS_Subset DEF SizeInv
  <2>2. MapOK(Loadable)
    BY LoadableHeld DEF MapOK
  <2> QED BY <2>1, <2>2
<1>3. IsFiniteSet(BytesOf(entries)) /\ IsFiniteSet(BytesOf(Loadable))
  BY <1>2, BytesFinite DEF DirectoryInv, SizeInv
<1>4. DOMAIN entries' = DOMAIN Loadable \cup DOMAIN entries
  BY DEF Load
<1>5. \A k \in DOMAIN entries' :
        \/ k \in DOMAIN entries /\ entries'[k].data = entries[k].data
        \/ k \in DOMAIN Loadable /\ entries'[k].data = Loadable[k].data
  BY DEF Load
<1>6. /\ SizeOf(entries) \in Nat /\ SizeOf(Loadable) \in Nat /\ SizeOf(entries') \in Nat
      /\ SizeOf(entries') <= SizeOf(entries) + SizeOf(Loadable)
  BY <1>3, <1>5, JoinedBytes
<1>7. totalSize' = totalSize + SizeOf(Loadable) /\ totalSize \in Nat /\ SizeOf(entries) <= totalSize
  BY DEF Load, SizeInv
<1>8. totalSize' \in Nat /\ SizeOf(entries') <= totalSize'
  BY <1>6, <1>7
<1>9. IsFiniteSet(DOMAIN Loadable \cup DOMAIN entries)
  BY <1>2, FS_Union DEF SizeInv
<1> QED BY <1>4, <1>8, <1>9

LEMMA IndexFinite ==
  ASSUME SizeInv, DirectoryNext
  PROVE  IsFiniteSet(disk'.index)
<1>1. IsFiniteSet(disk.index) /\ IsFiniteSet(DOMAIN entries) /\ IsFiniteSet({})
  BY FS_EmptySet DEF SizeInv
<1>2. CASE InMemoryStep \/ TickWhileWriting \/ Persist \/ Load
  BY <1>1, <1>2 DEF InMemoryStep, TickWhileWriting, Persist, Load, diskVars
<1>3. CASE WriteGraph \/ WriteIndex \/ \E k \in EntryKey : WritePayload(k)
  BY <1>1, <1>3 DEF WriteGraph, WriteIndex, WritePayload, Written
<1>4. CASE WriteFails \/ Crash
  <2>1. disk' = disk \/ \E f : disk' = StumpOf(f)
    BY <1>4 DEF WriteFails, Crash
  <2>2. \A f : StumpOf(f).index \in {disk.index, {}}
    BY DEF StumpOf
  <2>3. disk'.index \in {disk.index, {}}
    BY <2>1, <2>2
  <2> QED BY <1>1, <2>3
<1>5. CASE Clear
  BY <1>1, <1>5 DEF Clear
<1> QED BY <1>2, <1>3, <1>4, <1>5 DEF DirectoryNext

LEMMA SizeKept ==
  ASSUME DirectoryInv, SizeInv, DirectoryNext
  PROVE  SizeInv'
<1> DEFINE Sized == IsFiniteSet(DOMAIN entries') /\ totalSize' \in Nat /\ SizeOf(entries') <= totalSize'
<1>1. ASSUME NEW k \in EntryKey, NEW n \in Length, Put(k, n) PROVE Sized
  BY <1>1, PutSize
<1>2. ASSUME NEW k \in EntryKey, Get(k) PROVE Sized
  <2>1. \A j \in DOMAIN entries' : Kept(j)
    BY <1>2, GetEntries
  <2>2. totalSize' = totalSize
    BY <1>2 DEF Get
  <2> QED BY <2>1, <2>2, LessCounted
<1>3. ASSUME \/ \E age \in 1 .. MaxTime : ClearOldEntries(age)
             \/ \E target \in Length : EvictLru(target)
             \/ ResetStats
             \/ Tick
      PROVE  Sized
  <2>1. \A j \in DOMAIN entries' : Kept(j)
    BY <1>3, OtherEntries
  <2>2. totalSize' = totalSize \/ totalSize' = SizeOf(entries')
    BY <1>3 DEF ClearOldEntries, EvictLru, ResetStats, Tick
  <2> QED BY <2>1, <2>2, LessCounted
<1>4. CASE InMemoryStep
  <2>1. CacheNext
    BY <1>4 DEF InMemoryStep
  <2> HIDE DEF Sized
  <2>2. Sized
    BY <1>1, <1>2, <1>3, <2>1 DEF CacheNext
  <2> QED BY <2>2, IndexFinite DEF SizeInv, Sized
<1>5. CASE Crash
  <2>1. entries' = EmptyMap /\ totalSize' = 0
    BY <1>5 DEF Crash
  <2>2. Sized
    BY <2>1, EmptyHasNoBytes
  <2> QED BY <2>2, IndexFinite DEF SizeInv
<1>6. CASE Load
  BY <1>6, LoadSize, IndexFinite DEF SizeInv
<1>7. CASE TickWhileWriting \/ Persist \/ WriteGraph \/ WriteIndex \/ WriteFails \/ Clear
           \/ \E k \in EntryKey : WritePayload(k)
  <2>1. entries' = entries /\ totalSize' = totalSize
    BY <1>7 DEF TickWhileWriting, Tick, Persist, WriteGraph, WriteIndex, WriteFails, Clear, WritePayload, memory
  <2> QED BY <2>1, IndexFinite DEF SizeInv
<1> QED BY <1>4, <1>5, <1>6, <1>7 DEF DirectoryNext

(***************************************************************************)
(* After a put the entries fit the limit, whatever was loaded, dropped or  *)
(* miscounted before: the count errs upwards only.  And get answers with   *)
(* nothing as old as the time to live.                                     *)
(***************************************************************************)
THEOREM EntriesAreBounded == DirectorySpec => EntriesBounded
<1>1. DirectoryInit => DirectoryInv /\ SizeInv
  <2>1. ASSUME DirectoryInit PROVE SizeInv
    <3>1. entries = EmptyMap /\ totalSize = 0 /\ disk.index = {}
      BY <2>1 DEF DirectoryInit, CacheInit, EmptyDisk
    <3> QED BY <3>1, EmptyHasNoBytes, FS_EmptySet DEF SizeInv
  <2> QED BY <2>1, DirectoryStart
<1>2. DirectoryInv /\ SizeInv /\ [DirectoryNext]_<<cacheVars, diskVars>> => DirectoryInv' /\ SizeInv'
  <2>1. ASSUME SizeInv, UNCHANGED <<cacheVars, diskVars>> PROVE SizeInv'
    BY <2>1 DEF cacheVars, diskVars, SizeInv
  <2> QED BY <2>1, SizeKept, DirectoryStep, DirectoryStutter
<1>3. DirectoryInv /\ SizeInv /\ [DirectoryNext]_<<cacheVars, diskVars>> =>
        [\A k \in EntryKey, n \in Length :
           Put(k, n) /\ MaxCacheSize > 0 => SizeOf(entries') <= MaxCacheSize]_cacheVars
  BY PutSize
<1>4. DirectorySpec => PutKeepsLimit
  BY <1>1, <1>2, <1>3, PTL DEF DirectorySpec, PutKeepsLimit
<1> QED BY <1>4, OnlyFreshIsServed DEF EntriesBounded

-----------------------------------------------------------------------------
(* The dependency graph. *)

Queued == {queue[i] : i \in DOMAIN queue}

(* A breadth-first search: an edge that leaves what was found, and does not *)
(* lead back, starts at a pass still in the queue.                          *)
SearchInv ==
  /\ edges \subseteq Edge /\ IsFiniteSet(edges)
  /\ queue \in Seq(affected) /\ searching = (queue # <<>>)
  /\ Seeds(changed) \subseteq affected
  /\ \A e \in edges : e.from \in affected => e.to \in affected \/ e.from \in Queued
  /\ \A S : Closed(S) => affected \subseteq S

LEMMA SeedsFinite ==
  ASSUME IsFiniteSet(edges), NEW F
  PROVE  IsFiniteSet(Seeds(F))
<1> DEFINE E == {x \in edges : x.function \in F}
           Ends == {{e.from, e.to} : e \in E}
           f == [e \in E |-> {e.from, e.to}]
<1>1. IsFiniteSet(E)
  BY FS_Subset
<1>2. f \in Surjection(E, Ends)
  BY DEF Surjection
<1>3. IsFiniteSet(Ends)
  BY <1>1, <1>2, FS_Surjection
<1>4. ASSUME NEW T \in Ends
      PROVE  IsFiniteSet(T)
  <2>1. PICK e \in E : T = {e.from, e.to}
    OBVIOUS
  <2>2. IsFiniteSet({e.from}) /\ T = {e.from} \cup {e.to}
    BY <2>1, FS_Singleton
  <2> QED BY <2>2, FS_AddElement
<1>5. IsFiniteSet(UNION Ends)
  BY <1>3, <1>4, FS_UNION
<1> QED BY <1>5 DEF Seeds

LEMMA DownstreamFinite ==
  ASSUME IsFiniteSet(edges), NEW p
  PROVE  IsFiniteSet(Downstream(p))
<1> DEFINE E == {x \in edges : x.from = p}
           f == [e \in E |-> e.to]
<1>1. IsFiniteSet(E)
  BY FS_Subset
<1>2. f \in Surjection(E, Downstream(p))
  BY DEF Surjection, Downstream
<1> QED BY <1>1, <1>2, FS_Surjection

(* A sequence that lists a finite set without repetition lists all of it.  *)
LEMMA ListsAll ==
  ASSUME NEW S, IsFiniteSet(S), NEW s \in SetToSeqs(S)
  PROVE  s \in Seq(S) /\ \A x \in S : \E i \in DOMAIN s : s[i] = x
<1> DEFINE D == 1 .. Cardinality(S)
<1>1. Cardinality(S) \in Nat
  BY FS_CardinalityType
<1>2. s \in [D -> S] /\ \A i, j \in D : i # j => s[i] # s[j]
  BY DEF SetToSeqs
<1>3. Cardinality(D) = Cardinality(S)
  BY <1>1, FS_Interval
<1>4. s \in Injection(D, S)
  BY <1>2 DEF Injection, IsInjective
<1>5. s \in Surjection(D, S)
  BY <1>3, <1>4, FS_Injection
<1>6. s \in Seq(S)
  BY <1>1, <1>2
<1> QED BY <1>2, <1>5, <1>6 DEF Surjection

LEMMA QueryInv ==
  ASSUME SearchInv, NEW F, GetAffectedPasses(F)
  PROVE  SearchInv'
<1> USE DEF GetAffectedPasses
<1>1. IsFiniteSet(Seeds(F)) /\ affected' = Seeds(F) /\ queue' \in SetToSeqs(Seeds(F))
  BY SeedsFinite DEF SearchInv
<1>2. queue' \in Seq(Seeds(F)) /\ \A x \in Seeds(F) : \E i \in DOMAIN queue' : queue'[i] = x
  BY <1>1, ListsAll
<1>3. searching' = (queue' # <<>>)
  <2>1. CASE Seeds(F) = {}
    <3>1. queue' = <<>>
      BY <1>2, <2>1
    <3> QED BY <1>1, <2>1, <3>1
  <2>2. CASE Seeds(F) # {}
    <3>1. queue' # <<>>
      BY <1>2, <2>2
    <3> QED BY <1>1, <2>2, <3>1
  <2> QED BY <2>1, <2>2
<1>4. Seeds(changed)' = Seeds(F)
  BY DEF Seeds
<1>5. \A S : Closed(S)' => affected' \subseteq S
  BY <1>1, <1>4 DEF Closed
<1>6. \A e \in edges : e.from \in affected' => e.from \in Queued'
  BY <1>1, <1>2 DEF Queued
<1> QED BY <1>1, <1>2, <1>3, <1>4, <1>5, <1>6 DEF SearchInv

LEMMA DequeueInv ==
  ASSUME SearchInv, Dequeue
  PROVE  SearchInv'
<1> USE DEF Dequeue
<1> DEFINE p == Head(queue)
           found == Downstream(p) \ affected
<1>1. queue \in Seq(affected) /\ queue # <<>> /\ edges' = edges /\ changed' = changed
  BY DEF SearchInv
<1>2. IsFiniteSet(found)
  BY DownstreamFinite, FS_Difference DEF SearchInv
<1>3. PICK s \in SetToSeqs(found) : queue' = Tail(queue) \o s
  OBVIOUS
<1>4. s \in Seq(found) /\ \A x \in found : \E i \in DOMAIN s : s[i] = x
  BY <1>2, ListsAll
<1>5. affected' = affected \cup found
  OBVIOUS
<1> HIDE DEF Dequeue
<1>6. p \in affected /\ Tail(queue) \in Seq(affected)
  BY <1>1
<1>7. queue' \in Seq(affected')
  BY <1>3, <1>4, <1>5, <1>6
<1>8. \A x \in Queued : x = p \/ x \in Queued'
  <2> SUFFICES ASSUME NEW i \in DOMAIN queue
               PROVE  queue[i] = p \/ \E j \in DOMAIN queue' : queue'[j] = queue[i]
    BY DEF Queued
  <2>1. CASE i = 1
    BY <2>1, <1>1
  <2>2. CASE i # 1
    <3>1. i - 1 \in 1 .. Len(Tail(queue)) /\ Tail(queue)[i - 1] = queue[i]
      BY <1>1, <2>2
    <3>2. i - 1 \in DOMAIN queue' /\ queue'[i - 1] = queue[i]
      BY <1>3, <1>4, <1>6, <3>1
    <3> QED BY <3>2
  <2> QED BY <2>1, <2>2
<1>9. found \subseteq Queued'
  <2> SUFFICES ASSUME NEW x \in found
               PROVE  \E j \in DOMAIN queue' : queue'[j] = x
    BY DEF Queued
  <2>1. PICK i \in DOMAIN s : s[i] = x
    BY <1>4
  <2>2. i + Len(Tail(queue)) \in DOMAIN queue' /\ queue'[i + Len(Tail(queue))] = x
    BY <1>3, <1>4, <1>6, <2>1
  <2> QED BY <2>2
<1>10. Seeds(changed)' = Seeds(changed) /\ \A S : Closed(S)' <=> Closed(S)
  BY <1>1 DEF Seeds, Closed
<1>11. ASSUME NEW e \in edges, e.from \in affected'
       PROVE  e.to \in affected' \/ e.from \in Queued'
  <2>1. CASE e.from \in found
    BY <2>1, <1>9
  <2>2. CASE e.from = p
    BY <2>2, <1>5 DEF Downstream
  <2>3. CASE e.from \in affected /\ e.from # p
    BY <2>3, <1>5, <1>8 DEF SearchInv
  <2> QED BY <1>5, <1>11, <2>1, <2>2, <2>3
<1>12. ASSUME NEW S, Closed(S)
       PROVE  affected' \subseteq S
  <2>1. affected \subseteq S
    BY <1>12 DEF SearchInv
  <2>2. Downstream(p) \subseteq S
    BY <1>6, <1>12, <2>1 DEF Closed, Downstream
  <2> QED BY <1>5, <2>1, <2>2
<1>13. searching' = (queue' # <<>>)
  BY DEF Dequeue
<1>14. Seeds(changed) \subseteq affected /\ edges \subseteq Edge /\ IsFiniteSet(edges)
  BY DEF SearchInv
<1> HIDE DEF p, found
<1> QED BY <1>1, <1>5, <1>7, <1>10, <1>11, <1>12, <1>13, <1>14 DEF SearchInv

(* A changed graph forgets the last answer. *)
LEMMA ForgottenInv ==
  ASSUME SearchInv, ~searching, edges' \subseteq Edge, IsFiniteSet(edges'),
         changed' = {}, affected' = {}, UNCHANGED <<queue, searching>>
  PROVE  SearchInv'
<1>1. queue' = <<>> /\ searching' = FALSE
  BY DEF SearchInv
<1>2. Seeds(changed)' = {}
  BY DEF Seeds
<1> QED BY <1>1, <1>2 DEF SearchInv

LEMMA GraphStep ==
  ASSUME SearchInv, [GraphNext]_graphVars
  PROVE  SearchInv'
<1>1. CASE \E e \in Edge : RegisterEdge(e)
  <2>1. PICK e \in Edge : RegisterEdge(e)
    BY <1>1
  <2>2. IsFiniteSet(edges') /\ edges' \subseteq Edge
    BY <2>1, FS_AddElement DEF RegisterEdge, SearchInv
  <2> QED BY <2>1, <2>2, ForgottenInv DEF RegisterEdge
<1>2. CASE \E p \in PassName : RemovePass(p)
  <2>1. IsFiniteSet(edges') /\ edges' \subseteq Edge
    BY <1>2, FS_Subset DEF RemovePass, SearchInv
  <2> QED BY <1>2, <2>1, ForgottenInv DEF RemovePass
<1>3. CASE \E F \in SUBSET FunctionName : GetAffectedPasses(F)
  BY <1>3, QueryInv
<1>4. CASE Dequeue
  BY <1>4, DequeueInv
<1>5. CASE UNCHANGED graphVars
  BY <1>5 DEF graphVars, SearchInv, Seeds, Queued, Closed
<1> QED BY <1>1, <1>2, <1>3, <1>4, <1>5 DEF GraphNext

LEMMA InvImpliesExactlyAffected ==
  ASSUME SearchInv
  PROVE  ExactlyAffected
<1> SUFFICES ASSUME ~searching
             PROVE  Closed(affected) /\ \A S \in SUBSET affected : Closed(S) => S = affected
  BY DEF ExactlyAffected
<1>1. queue = <<>>
  BY DEF SearchInv
<1>2. Queued = {}
  BY <1>1 DEF Queued
<1>3. Closed(affected)
  BY <1>2 DEF SearchInv, Closed
<1>4. \A S : Closed(S) => affected \subseteq S
  BY DEF SearchInv
<1> QED BY <1>3, <1>4

(***************************************************************************)
(* The passes get_affected_passes names are those of the changed functions *)
(* and all that the edges lead to from them, and no others: its search of  *)
(* the graph, whatever order the hash sets give it, leaves none out that   *)
(* must run again and adds none that need not.                             *)
(***************************************************************************)
THEOREM AffectedAreExact == GraphSpec => []ExactlyAffected
<1>1. GraphInit => SearchInv
  <2> SUFFICES ASSUME GraphInit
               PROVE  SearchInv
    OBVIOUS
  <2>1. Seeds(changed) = {}
    BY DEF GraphInit, Seeds
  <2>2. IsFiniteSet(edges) /\ edges \subseteq Edge
    BY FS_EmptySet DEF GraphInit
  <2>3. queue = <<>> /\ affected = {} /\ <<>> \in Seq({})
    BY DEF GraphInit
  <2>4. queue \in Seq(affected)
    BY <2>3
  <2>5. searching = (queue # <<>>)
    BY <2>3 DEF GraphInit
  <2> QED BY <2>1, <2>2, <2>3, <2>4, <2>5 DEF SearchInv
<1>2. SearchInv /\ [GraphNext]_graphVars => SearchInv'
  BY GraphStep
<1>3. SearchInv => ExactlyAffected
  BY InvImpliesExactlyAffected
<1> QED BY <1>1, <1>2, <1>3, PTL DEF GraphSpec
=============================================================================
