---------------------------- MODULE AnalysisCache ----------------------------
(***************************************************************************)
(* AnalysisCache: the in-memory cache of pass results, its byte count and  *)
(* eviction, and its directory: persist_to_disk and load_from_disk, clear, *)
(* and the crashes and failed writes that may leave a file half written.   *)
(* Time is in seconds, as in the code, and does not go back.  What the     *)
(* dependency graph's file holds is left out.                              *)
(***************************************************************************)
EXTENDS Naturals, FiniteSets

CONSTANTS EntryKey,       \* the cache keys: [pass, config]
          Length,         \* lengths of serialized results
          MaxCacheSize,   \* max_cache_size, 0 for no limit
          Ttl,            \* default_ttl_seconds, 0 for none
          MaxTime,        \* bound: seconds
          MaxTotal        \* bound: total_size_bytes, where a step starts

ASSUME CacheAssumption ==
  /\ Length \subseteq Nat \ {0}
  /\ MaxCacheSize \in Nat /\ Ttl \in Nat /\ MaxTime \in Nat /\ MaxTotal \in Nat
ASSUME EntryKeyAssumption == \A k \in EntryKey : k = [pass |-> k.pass, config |-> k.config]

VARIABLES entries,       \* key -> [data, created, accessed]
          totalEntries,  \* stats.total_entries
          totalSize,     \* stats.total_size_bytes
          now,
          served         \* what get has just returned: {} or {<<key, data>>}

cacheVars == <<entries, totalEntries, totalSize, now, served>>

EmptyMap == [k \in {} |-> 0]

CacheInit ==
  /\ entries = EmptyMap /\ totalEntries = 0 /\ totalSize = 0 /\ now = 0
  /\ served = {}

BytesOf(map) == UNION {{k} \X (1 .. map[k].data.len) : k \in DOMAIN map}

SizeOf(map) == Cardinality(BytesOf(map))

Without(map, ks) == [k \in DOMAIN map \ ks |-> map[k]]

With(map, k, e) == [x \in DOMAIN map \cup {k} |-> IF x = k THEN e ELSE map[x]]

Age(e) == now - e.created

Expired(e) == Ttl > 0 /\ Age(e) >= Ttl

-----------------------------------------------------------------------------
(***************************************************************************)
(* evict_lru_inner: from the oldest access on until enough is freed.  The  *)
(* sort is stable over a HashMap's order, so within a second any order.    *)
(***************************************************************************)
Evict(map, target) ==
  {rest \in {Without(map, gone) : gone \in SUBSET DOMAIN map} :
     LET gone == DOMAIN map \ DOMAIN rest IN
     /\ \A g \in gone, k \in DOMAIN rest : map[g].accessed <= map[k].accessed
     /\ SizeOf(rest) + target <= SizeOf(map) \/ rest = EmptyMap
     /\ gone # {} => \E last \in gone :
          /\ \A g \in gone : map[g].accessed <= map[last].accessed
          /\ SizeOf(map) < SizeOf(rest) + map[last].data.len + target}

NewEntry(k, n) == [data |-> [owner |-> k, len |-> n], created |-> now, accessed |-> now]

(* Fewer bytes than the limit are counted, or the excess is evicted. *)
Put(k, n) ==
  /\ totalSize <= MaxTotal
  /\ LET with == With(entries, k, NewEntry(k, n))
         total == totalSize + n
     IN  IF MaxCacheSize > 0 /\ total > MaxCacheSize
           THEN /\ entries' \in Evict(with, total - MaxCacheSize)
                /\ totalSize' = SizeOf(entries')
           ELSE /\ entries' = with
                /\ totalSize' = total
  /\ totalEntries' = Cardinality(DOMAIN entries')
  /\ served' = {}
  /\ UNCHANGED now

(* An expired entry is dropped on the way; the size and entry counts are   *)
(* not told.                                                               *)
GetAtTtl(k) ==                  \* mutant: an entry lives one second longer
  /\ k \in DOMAIN entries /\ ~(Ttl > 0 /\ Age(entries[k]) > Ttl)
  /\ entries' = [entries EXCEPT ![k].accessed = now] /\ served' = {<<k, entries[k].data>>}
  /\ UNCHANGED <<totalEntries, totalSize, now>>

Get(k) ==
  /\ \/ /\ k \notin DOMAIN entries
        /\ served' = {} /\ UNCHANGED entries
     \/ /\ k \in DOMAIN entries /\ Expired(entries[k])
        /\ entries' = Without(entries, {k}) /\ served' = {}
     \/ /\ k \in DOMAIN entries /\ ~Expired(entries[k])
        /\ entries' = [entries EXCEPT ![k].accessed = now]
        /\ served' = {<<k, entries[k].data>>}
  /\ UNCHANGED <<totalEntries, totalSize, now>>

ClearOldEntries(age) ==
  /\ age > 0
  /\ entries' = Without(entries, {k \in DOMAIN entries : Age(entries[k]) > age})
  /\ totalEntries' = Cardinality(DOMAIN entries')
  /\ served' = {}
  /\ UNCHANGED <<totalSize, now>>

EvictLru(target) ==
  /\ target > 0 /\ entries # EmptyMap
  /\ entries' \in Evict(entries, target)
  /\ totalEntries' = Cardinality(DOMAIN entries') /\ totalSize' = SizeOf(entries')
  /\ served' = {}
  /\ UNCHANGED now

ResetStats ==
  /\ totalEntries' = Cardinality(DOMAIN entries)
  /\ served' = {}
  /\ UNCHANGED <<entries, totalSize, now>>

Tick ==
  /\ now < MaxTime
  /\ now' = now + 1 /\ served' = {}
  /\ UNCHANGED <<entries, totalEntries, totalSize>>

CacheNext ==
  \/ \E k \in EntryKey, n \in Length : Put(k, n)
  \/ \E k \in EntryKey : Get(k)
  \/ \E age \in 1 .. MaxTime : ClearOldEntries(age)
  \/ \E target \in Length : EvictLru(target)
  \/ ResetStats
  \/ Tick

-----------------------------------------------------------------------------
Entry == [data : [owner : EntryKey, len : Length], created : 0 .. MaxTime, accessed : 0 .. MaxTime]

CacheTypeOK ==
  /\ DOMAIN entries \subseteq EntryKey /\ \A k \in DOMAIN entries : entries[k] \in Entry
  /\ \A k \in DOMAIN entries : entries[k].created <= entries[k].accessed
  /\ totalEntries \in 0 .. Cardinality(EntryKey) /\ totalSize \in Nat /\ now \in 0 .. MaxTime

(* After a put the entries fit the limit, however the count has drifted and *)
(* whatever a load has brought in before.                                   *)
PutKeepsLimit ==
  [][\A k \in EntryKey, n \in Length :
       Put(k, n) /\ MaxCacheSize > 0 => SizeOf(entries') <= MaxCacheSize]_cacheVars

(* What get answers is younger than the TTL, even when it was loaded from  *)
(* disk at the very second the load still accepts it.                      *)
ServedIsFresh ==
  [][served' # {} /\ Ttl > 0 =>
       \A pair \in served' : now - entries[pair[1]].created < Ttl]_cacheVars

(* The entries in memory are bounded in size and, as get serves them, in age. *)
EntriesBounded == PutKeepsLimit /\ ServedIsFresh

-----------------------------------------------------------------------------
(* The directory. *)

VARIABLES disk,     \* the cache directory
          writing,  \* the write persist_to_disk is at, or "idle"
          todo,     \* keys whose payload it has still to write
          saved     \* what the last persist_to_disk wrote, if all is still there

diskVars == <<disk, writing, todo, saved>>

(***************************************************************************)
(* The directory: the files there are, which of them do not parse, the     *)
(* keys the index lists and the results in the payload files.  The file    *)
(* name of a payload is a hash of its key, taken to be free of collisions. *)
(***************************************************************************)
FileOfPass(k) == <<k.pass>>          \* mutant: the configuration is not hashed

FileOf(k) == <<k.pass, k.config>>

GraphFile == <<"dependency_graph.json">>
IndexFile == <<"cache_index.json">>

EmptyDisk == [files |-> {}, torn |-> {}, index |-> {}, payload |-> EmptyMap]

Readable(f) == f \in disk.files \ disk.torn

NothingSaved == {}

DirectoryInit ==
  /\ CacheInit
  /\ disk = EmptyDisk /\ writing = "idle" /\ todo = {} /\ saved = NothingSaved

InMemoryStep == writing = "idle" /\ CacheNext /\ UNCHANGED diskVars

TickWhileWriting == writing # "idle" /\ Tick /\ UNCHANGED diskVars

-----------------------------------------------------------------------------
(* persist_to_disk: the dependency graph, the payloads in any order, and   *)
(* the index.  It borrows the cache: no other call overlaps it.            *)

memory == <<entries, totalEntries, totalSize, now>>

Persist ==
  /\ writing = "idle"
  /\ writing' = "graph" /\ todo' = DOMAIN entries /\ served' = {}
  /\ UNCHANGED <<memory, disk, saved>>

Written(f, index, payload) ==
  [files |-> disk.files \cup {f}, torn |-> disk.torn \ {f}, index |-> index, payload |-> payload]

WriteGraph ==
  /\ writing = "graph"
  /\ disk' = Written(GraphFile, disk.index, disk.payload) /\ writing' = "payloads" /\ saved' = NothingSaved
  /\ UNCHANGED <<memory, todo, served>>

WritePayload(k) ==
  /\ writing = "payloads" /\ k \in todo
  /\ disk' = Written(FileOf(k), disk.index, With(disk.payload, FileOf(k), entries[k]))
  /\ todo' = todo \ {k}
  /\ UNCHANGED <<memory, writing, served, saved>>

WriteIndex ==
  /\ writing = "payloads" /\ todo = {}
  /\ disk' = Written(IndexFile, DOMAIN entries, disk.payload)
  /\ writing' = "idle" /\ saved' = {entries}
  /\ UNCHANGED <<memory, todo, served>>

(* fs::write truncates first: a write that stops halfway leaves a stump.   *)
FileBeingWritten ==
  CASE writing = "graph" -> {GraphFile}
    [] writing = "payloads" /\ todo # {} -> {FileOf(k) : k \in todo}
    [] writing = "payloads" /\ todo = {} -> {IndexFile}
    [] OTHER -> {}

StumpOf(f) ==
  [files |-> disk.files \cup {f}, torn |-> disk.torn \cup {f},
   index |-> IF f = IndexFile THEN {} ELSE disk.index,
   payload |-> Without(disk.payload, {f})]

(* An error ends the call; what it wrote before stays. *)
WriteFails ==
  /\ \E f \in FileBeingWritten : disk' = StumpOf(f)
  /\ writing' = "idle" /\ todo' = {} /\ saved' = NothingSaved
  /\ UNCHANGED <<memory, served>>

(* The process ends, possibly in the middle of a write, and a new one runs. *)
Crash ==
  /\ disk' \in {disk} \cup {StumpOf(f) : f \in FileBeingWritten}
  /\ saved' = IF disk' = disk THEN saved ELSE NothingSaved
  /\ entries' = EmptyMap /\ totalEntries' = 0 /\ totalSize' = 0
  /\ writing' = "idle" /\ todo' = {} /\ served' = {}
  /\ UNCHANGED now

(* load_from_disk skips what is missing, does not parse or is too old.     *)
LoadableKeys ==
  {k \in disk.index : /\ Readable(FileOf(k))
                      /\ ~(Ttl > 0 /\ Age(disk.payload[FileOf(k)]) > Ttl)}

Loadable ==
  IF GraphFile \in disk.torn \/ ~Readable(IndexFile) THEN EmptyMap
  ELSE [k \in LoadableKeys |-> disk.payload[FileOf(k)]]

Load ==
  /\ writing = "idle" /\ totalSize <= MaxTotal
  /\ GraphFile \notin disk.torn /\ Readable(IndexFile)    \* else nothing is loaded
  /\ entries' = [k \in DOMAIN Loadable \cup DOMAIN entries |->
                   IF k \in DOMAIN Loadable THEN Loadable[k] ELSE entries[k]]
  /\ totalSize' = totalSize + SizeOf(Loadable)
  /\ totalEntries' = Cardinality(DOMAIN entries')
  /\ served' = {}
  /\ UNCHANGED <<now, disk, writing, todo, saved>>

(* clear() removes the files one by one and may fail in between.  It takes *)
(* &self: the entries in memory stay.                                      *)
Clear ==
  /\ writing = "idle" /\ disk.files # {}
  /\ \E gone \in SUBSET disk.files \ {{}} :
       disk' = [files |-> disk.files \ gone, torn |-> disk.torn \ gone,
                index |-> IF IndexFile \in gone THEN {} ELSE disk.index,
                payload |-> Without(disk.payload, gone)]
  /\ served' = {} /\ saved' = NothingSaved
  /\ UNCHANGED <<memory, writing, todo>>

-----------------------------------------------------------------------------
DirectoryNext ==
  \/ InMemoryStep \/ TickWhileWriting
  \/ Persist \/ WriteGraph \/ WriteIndex \/ WriteFails \/ Crash
  \/ \E k \in EntryKey : WritePayload(k)
  \/ Load \/ Clear

DirectorySpec == DirectoryInit /\ [][DirectoryNext]_<<cacheVars, diskVars>>

-----------------------------------------------------------------------------
DirectoryTypeOK ==
  /\ CacheTypeOK
  /\ disk.torn \subseteq disk.files /\ disk.index \subseteq EntryKey
  /\ writing \in {"idle", "graph", "payloads"} /\ todo \subseteq DOMAIN entries

(***************************************************************************)
(* AnalysisCache is a LossyStore: whatever was evicted, overwritten,       *)
(* persisted, half written and loaded back, get answers with a value that  *)
(* was put under the key it was asked for.                                 *)
(***************************************************************************)
InMemory == {<<k, entries[k].data>> : k \in DOMAIN entries}

OnDisk ==
  {<<k, disk.payload[FileOf(k)].data>> :
     k \in {i \in EntryKey : Readable(FileOf(i))}}

Store == INSTANCE LossyStore
  WITH StoreKey <- EntryKey, Payload <- Length, known <- InMemory \cup OnDisk, answer <- served

ImplementsLossyStore == Store!StoreSpec

(* A process that starts after a persist_to_disk has finished, and before  *)
(* anything touched the directory, loads exactly what was saved, less what *)
(* has expired since.                                                      *)
SavedIsLoadable ==
  \A map \in saved :
    /\ DOMAIN Loadable = {k \in DOMAIN map : Ttl = 0 \/ Age(map[k]) <= Ttl}
    /\ \A k \in DOMAIN Loadable : Loadable[k] = map[k]

=============================================================================
