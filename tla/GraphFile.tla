----------------------------- MODULE GraphFile -----------------------------
(***************************************************************************)
(* save and MmapFrozenGraph::load of ci-graph/src/persistence.rs over a    *)
(* file system with a page cache.  save writes header and payload to a     *)
(* temporary name derived from the destination, syncs the file and renames *)
(* it; the directory is never synced.  load maps the file and checks the   *)
(* header, the length and the checksum before it deserializes.             *)
(*                                                                         *)
(* A file is a sequence of blocks: the header, then the payload of the     *)
(* graph.  A block knows the graph it belongs to, the bytes of it that     *)
(* storage has damaged and, in a header, what payload_len reads as;        *)
(* checksums have no collisions.  The bounds are Inodes, MaxSaves,         *)
(* MaxCrashes, MaxRot and RotBytes.                                        *)
(***************************************************************************)
EXTENDS Naturals, Sequences, FiniteSetsExt

CONSTANTS
  Savers, Readers,  \* threads or processes that call save and load
  Paths, Temps,     \* destinations, and the names of temporary files
  TmpOf,            \* with_extension("bin.tmp") of each destination
  Graphs, Blocks,   \* the graphs saved, and the payload blocks of each
  Inodes,           \* the files the file system has room for
  MaxSaves, MaxCrashes, MaxRot,
  RotBytes,         \* the bytes of a header that storage may damage
  NoFile, Hole      \* no directory entry; a block that was never written

\* The bytes of the fields of a header, as to_bytes places them.
Layout == [magic |-> 0..3, version |-> 4..5, reserved1 |-> {6}, checksum_algo |-> {7},
           checksum |-> 8..15, payload_len |-> 16..23, reserved2 |-> 24..31]

\* Variant of ReadLayout: the two single bytes are read the wrong way round.
ReadSwapped == [Layout EXCEPT !.reserved1 = {7}, !.checksum_algo = {6}]

\* The bytes of the fields of a header, as from_bytes reads them.
ReadLayout == [magic |-> 0..3, version |-> 4..5, reserved1 |-> {6}, checksum_algo |-> {7},
               checksum |-> 8..15, payload_len |-> 16..23, reserved2 |-> 24..31]

\* The header says how long the payload is, or something else.
Claim == {"exact", "shorter", "longer", "huge"}
Block == [graph : Graphs, no : Nat, rot : SUBSET (0..31), claim : Claim]
Names == Paths \cup Temps

ASSUME NamesAssumption == Paths \cap Temps = {} /\ TmpOf \in [Paths -> Temps]
ASSUME BlocksAssumption == Blocks \in [Graphs -> Nat \ {0}]
ASSUME SentinelAssumption == NoFile \notin Inodes /\ NoFile \notin Graphs /\ Hole \notin Block
ASSUME BoundsAssumption ==
  MaxSaves \in Nat /\ MaxCrashes \in Nat /\ MaxRot \in Nat /\ RotBytes \subseteq 0..31

VARIABLES
  cache, disk,        \* contents of each inode: as read now, and as after a crash
  names, diskNames,   \* the directory: as seen now, and as after a crash
  save, load,         \* where each saver is in save, each reader in load
  saves, crashes, rots

fileVars == <<cache, disk, names, diskNames>>
counters == <<saves, crashes, rots>>
vars == <<fileVars, save, load, counters>>

\* The bytes save writes for a graph.
FileOf(g) ==
  [i \in 1..(Blocks[g] + 1) |-> [graph |-> g, no |-> i - 1, rot |-> {}, claim |-> "exact"]]

NotSaving == [at |-> "idle"]
NotLoading == [at |-> "idle"]
Saving(s) == save[s].at # "idle"

\* Which of the free inodes a new file gets makes no difference.
AnyOf(inodes) == IF inodes = {} THEN {} ELSE {CHOOSE i \in inodes : TRUE}

Init ==
  /\ \E old \in Graphs, p \in Paths, i \in AnyOf(Inodes) :
       /\ cache = [j \in Inodes |-> IF j = i THEN FileOf(old) ELSE <<>>]
       /\ names = [n \in Names |-> IF n = p THEN i ELSE NoFile]
  /\ disk = cache
  /\ diskNames = names
  /\ save = [s \in Savers |-> NotSaving]
  /\ load = [r \in Readers |-> NotLoading]
  /\ saves = 0 /\ crashes = 0 /\ rots = 0

-----------------------------------------------------------------------------
(* save *)

Begin(s, p, g) ==
  /\ ~Saving(s)
  /\ saves < MaxSaves
  /\ saves' = saves + 1
  /\ save' = [save EXCEPT ![s] = [at |-> "create", path |-> p, graph |-> g]]
  /\ UNCHANGED <<fileVars, load, crashes, rots>>

InUse ==
  {names[n] : n \in Names} \cup {diskNames[n] : n \in Names}
    \cup {save[s].inode : s \in {u \in Savers : save[u].at \in {"write", "sync", "rename"}}}
    \cup {load[r].inode : r \in {q \in Readers : load[q].at # "idle"}}

\* Variant of Create: the destination itself is cut and written.
CreateInPlace(s) ==
  /\ save[s].at = "create"
  /\ \E i \in IF names[save[s].path] # NoFile THEN {names[save[s].path]} ELSE AnyOf(Inodes \ InUse) :
       /\ names' = [names EXCEPT ![save[s].path] = i]
       /\ cache' = [cache EXCEPT ![i] = <<>>]
       /\ save' = [save EXCEPT ![s] = [at |-> "write", path |-> @.path, graph |-> @.graph,
                                       inode |-> i, written |-> 0]]
  /\ UNCHANGED <<disk, diskNames, load, counters>>

\* File::create: a new file, or the existing one of that name cut to nothing.
Create(s) ==
  /\ save[s].at = "create"
  /\ LET tmp == TmpOf[save[s].path] IN
     \E i \in IF names[tmp] # NoFile THEN {names[tmp]} ELSE AnyOf(Inodes \ InUse) :
       /\ names' = [names EXCEPT ![tmp] = i]
       /\ cache' = [cache EXCEPT ![i] = <<>>]
       /\ save' = [save EXCEPT ![s] = [at |-> "write", path |-> @.path, graph |-> @.graph,
                                       inode |-> i, written |-> 0]]
  /\ UNCHANGED <<disk, diskNames, load, counters>>

\* A write at the saver's own position; a gap before it reads as zeros.
Put(content, i, block) ==
  [j \in 1..(IF Len(content) < i THEN i ELSE Len(content)) |->
     IF j = i THEN block ELSE IF j <= Len(content) THEN content[j] ELSE Hole]

\* The two write_all calls, block by block.
Write(s) ==
  /\ save[s].at = "write"
  /\ LET i == save[s].written + 1
         whole == FileOf(save[s].graph)
     IN  /\ cache' = [cache EXCEPT ![save[s].inode] = Put(@, i, whole[i])]
         /\ save' = [save EXCEPT ![s].written = i,
                                 ![s].at = IF i = Len(whole) THEN "sync" ELSE "write"]
  /\ UNCHANGED <<disk, names, diskNames, load, counters>>

\* Variant of Sync: the file is flushed to the cache, not to the disk.
FlushOnly(s) ==
  /\ save[s].at = "sync"
  /\ save' = [save EXCEPT ![s].at = "rename"]
  /\ UNCHANGED <<fileVars, load, counters>>

Sync(s) ==
  /\ save[s].at = "sync"
  /\ disk' = [disk EXCEPT ![save[s].inode] = cache[save[s].inode]]
  /\ save' = [save EXCEPT ![s].at = "rename"]
  /\ UNCHANGED <<cache, names, diskNames, load, counters>>

Rename(s) ==
  /\ save[s].at = "rename"
  /\ names[TmpOf[save[s].path]] # NoFile
  /\ names' = [names EXCEPT ![save[s].path] = names[TmpOf[save[s].path]],
                            ![TmpOf[save[s].path]] = NoFile]
  /\ save' = [save EXCEPT ![s] = NotSaving]
  /\ UNCHANGED <<cache, disk, diskNames, load, counters>>

\* Variant of Fail: the request of the failed save stays behind.
FailDirty(s) ==
  /\ Saving(s)
  /\ save' = [save EXCEPT ![s].at = "idle"]
  /\ UNCHANGED <<fileVars, load, counters>>

\* Serialization or a system call fails, or the process is killed: whatever
\* was written stays where it is, the temporary file included.
Fail(s) ==
  /\ Saving(s)
  /\ save' = [save EXCEPT ![s] = NotSaving]
  /\ UNCHANGED <<fileVars, load, counters>>

-----------------------------------------------------------------------------
(* load, through a mapping that shows the file as it is at each read        *)

Content(contents, i) ==
  IF i = NoFile THEN NoFile
  ELSE IF \E g \in Graphs : contents[i] = FileOf(g)
       THEN CHOOSE g \in Graphs : contents[i] = FileOf(g)
       ELSE "torn"

Open(r, p) ==
  /\ load[r].at = "idle"
  /\ names[p] # NoFile
  /\ load' = [load EXCEPT ![r] = [at |-> "validate", inode |-> names[p], len |-> Len(cache[names[p]]),
                                  head |-> Hole, error |-> "none", graph |-> NoFile,
                                  opened |-> Content(cache, names[p])]]
  /\ UNCHANGED <<fileVars, save, counters>>

\* payload_len of a header
Claims(head) ==
  CASE head.claim = "shorter" -> Blocks[head.graph] - 1
    [] head.claim = "longer" -> Blocks[head.graph] + 1
    [] OTHER -> Blocks[head.graph]

Mapped(r) == cache[load[r].inode]

\* Touching a page the file has lost since it was mapped kills the process.
Lost(r, blocks) == Len(Mapped(r)) < blocks

Goto(r, place) == load' = [load EXCEPT ![r].at = place]

Refuse(r, error) == load' = [load EXCEPT ![r].at = "failed", ![r].error = error]

Damaged(head, field) == head.rot \cap ReadLayout[field] # {}

\* The fields that validate compares, in its order.
Checks == <<"magic", "version", "checksum_algo", "reserved1">>

\* A block that is no header does not start with the magic bytes.
Mismatches(head) ==
  IF head = Hole \/ head.no # 0 THEN {1}
  ELSE {i \in DOMAIN Checks : Damaged(head, Checks[i])}

\* The size of the mapping, validate, then payload_end against that size; a
\* payload_len near 2^64 overflows payload_end.
Validate(r) ==
  /\ load[r].at = "validate"
  /\ LET head == Mapped(r)[1] IN
       CASE load[r].len = 0 -> Refuse(r, "too_small")
         [] load[r].len > 0 /\ Lost(r, 1) -> Goto(r, "killed")
         [] OTHER ->
              IF Mismatches(head) # {} THEN Refuse(r, Checks[Min(Mismatches(head))])
              ELSE IF head.claim = "huge" THEN Goto(r, "panicked")
              ELSE IF load[r].len < Claims(head) + 1 THEN Refuse(r, "payload_truncated")
              ELSE load' = [load EXCEPT ![r].at = "checksum", ![r].head = head]
  /\ UNCHANGED <<fileVars, save, counters>>

PayloadLost(r) == Lost(r, Claims(load[r].head) + 1)
Payload(r) == SubSeq(Mapped(r), 2, Claims(load[r].head) + 1)
Whole(r) == Payload(r) = Tail(FileOf(load[r].head.graph))

\* Variant of ChecksumHolds: the payload is not compared with the header.
Unchecked(r) == TRUE

ChecksumHolds(r) == Whole(r) /\ ~Damaged(load[r].head, "checksum")

Checksum(r) ==
  /\ load[r].at = "checksum"
  /\ CASE PayloadLost(r) -> Goto(r, "killed")
       [] ~PayloadLost(r) /\ ChecksumHolds(r) -> Goto(r, "deserialize")
       [] OTHER -> Refuse(r, "checksum_mismatch")
  /\ UNCHANGED <<fileVars, save, counters>>

Load(r, g) == load' = [load EXCEPT ![r].at = "loaded", ![r].graph = g]

\* CheckBytes proves that damaged bytes are some graph, not which.
Deserialize(r) ==
  /\ load[r].at = "deserialize"
  /\ CASE PayloadLost(r) -> Goto(r, "killed")
       [] ~PayloadLost(r) /\ Whole(r) -> Load(r, load[r].head.graph)
       [] OTHER -> Refuse(r, "rkyv") \/ Load(r, "wrong")
  /\ UNCHANGED <<fileVars, save, counters>>

\* Every accessor of MmapFrozenGraph reads the owned copy, never the mapping.
Answer(r) == load[r].graph

Ended == {"loaded", "failed", "panicked", "killed"}

\* The loaded graph is dropped, or given up for its mapping; a failed load returns.
Close(r) ==
  /\ load[r].at \in Ended
  /\ load' = [load EXCEPT ![r] = NotLoading]
  /\ UNCHANGED <<fileVars, save, counters>>

-----------------------------------------------------------------------------
(* The file system *)

\* Some blocks reach the disk on their own; the others read as they were.
WriteBack(i) ==
  /\ i \in InUse
  /\ disk[i] # cache[i]
  /\ \E blocks \in SUBSET (1..Len(cache[i])) :
       disk' = [disk EXCEPT ![i] =
         [j \in 1..Len(cache[i]) |->
            IF j \in blocks THEN cache[i][j] ELSE IF j <= Len(@) THEN @[j] ELSE Hole]]
  /\ UNCHANGED <<cache, names, diskNames, save, load, counters>>

WriteBackNames ==
  /\ diskNames # names
  /\ diskNames' = names
  /\ UNCHANGED <<cache, disk, names, save, load, counters>>

\* The machine stops and starts again: memory is gone with all its processes.
Crash ==
  /\ crashes < MaxCrashes
  /\ crashes' = crashes + 1
  /\ cache' = disk
  /\ names' = diskNames
  /\ save' = [s \in Savers |-> NotSaving]
  /\ load' = [r \in Readers |-> NotLoading]
  /\ UNCHANGED <<disk, diskNames, saves, rots>>

\* Storage damages one block of a file; a reader that has the file mapped
\* goes on with the pages in memory, so the next one to open it sees it.
Rot(i) ==
  /\ rots < MaxRot
  /\ rots' = rots + 1
  /\ disk[i] = cache[i]
  /\ \A r \in Readers : load[r].at # "idle" => load[r].inode # i
  /\ \E j \in DOMAIN cache[i] :
       /\ cache[i][j] # Hole /\ cache[i][j].rot = {}
       /\ \E byte \in IF j = 1 THEN RotBytes ELSE {0} :
          \E claim \in IF j = 1 /\ byte \in Layout.payload_len THEN Claim \ {"exact"} ELSE {"exact"} :
            /\ cache' = [cache EXCEPT ![i][j].rot = {byte}, ![i][j].claim = claim]
            /\ disk' = [disk EXCEPT ![i] = cache'[i]]
  /\ UNCHANGED <<names, diskNames, save, load, saves, crashes>>

-----------------------------------------------------------------------------
SaveStep(s) == Create(s) \/ Write(s) \/ Sync(s) \/ Rename(s) \/ Fail(s)

LoadStep(r) == Validate(r) \/ Checksum(r) \/ Deserialize(r) \/ Close(r)

Storage == WriteBackNames \/ Crash \/ \E i \in Inodes : WriteBack(i) \/ Rot(i)

Steps ==
  \/ \E s \in Savers : SaveStep(s)
  \/ \E r \in Readers : LoadStep(r) \/ \E p \in Paths : Open(r, p)
  \/ Storage

Next == Steps \/ \E s \in Savers, p \in Paths, g \in Graphs : Begin(s, p, g)

Spec == Init /\ [][Next]_vars

\* save called by one saver at a time for each temporary name.
SerialBegin(s, p, g) ==
  /\ \A u \in Savers : Saving(u) => TmpOf[save[u].path] # TmpOf[p]
  /\ Begin(s, p, g)

SerialNext == Steps \/ \E s \in Savers, p \in Paths, g \in Graphs : SerialBegin(s, p, g)

SerialSpec == Init /\ [][SerialNext]_vars

-----------------------------------------------------------------------------
SaveState ==
  {NotSaving} \cup [at : {"create"}, path : Paths, graph : Graphs]
    \cup [at : {"write", "sync", "rename"}, path : Paths, graph : Graphs, inode : Inodes, written : Nat]
Errors == {"too_small", "magic", "version", "checksum_algo", "reserved1", "payload_truncated",
           "checksum_mismatch", "rkyv"}
LoadState ==
  {NotLoading} \cup [at : {"validate", "checksum", "deserialize"} \cup Ended, inode : Inodes,
                     len : Nat, head : Block \cup {Hole}, error : Errors \cup {"none"},
                     graph : Graphs \cup {NoFile, "wrong"}, opened : Graphs \cup {"torn"}]

TypeOK ==
  /\ cache \in [Inodes -> Seq(Block \cup {Hole})]
  /\ disk \in [Inodes -> Seq(Block \cup {Hole})]
  /\ names \in [Names -> Inodes \cup {NoFile}]
  /\ diskNames \in [Names -> Inodes \cup {NoFile}]
  /\ save \in [Savers -> SaveState]
  /\ \A s \in Savers : save[s].at = "write" => save[s].written <= Blocks[save[s].graph]
  /\ load \in [Readers -> LoadState]
  /\ saves \in 0..MaxSaves /\ crashes \in 0..MaxCrashes /\ rots \in 0..MaxRot

(* "Readers never see a partially-written file" (persistence.rs:350): a     *)
(* load started at any moment, with saves, failures and restarts going on   *)
(* around it, ends with the whole graph the path had when it was opened.    *)
ReadersSeeWholeFiles ==
  \A r \in Readers :
    /\ load[r].at \notin Ended \ {"loaded"}
    /\ load[r].at = "loaded" => Answer(r) = load[r].opened

(* Damage to a file that the checks of load let pass never changes what is  *)
(* loaded: a loaded graph is the one that was saved, and what damage there  *)
(* is lies in the reserved bytes that nothing reads.                        *)
WrongGraphNeverLoaded ==
  \A r \in Readers : load[r].at = "loaded" =>
    Answer(r) = load[r].head.graph /\ load[r].head.rot \subseteq Layout.reserved2

(* The error a load ends with names damage that is there: a field by its    *)
(* bytes in the documented layout (persistence.rs:31), a checksum mismatch  *)
(* only when the checksum, the length or the payload is damaged; and a load *)
(* that panics, where payload_end overflows, met a damaged length.          *)
ErrorsNameDamage ==
  \A r \in Readers :
    LET header == Mapped(r)[1].rot
        payload == \E j \in 2..Len(Mapped(r)) : Mapped(r)[j].rot # {}
    IN  /\ load[r].at = "panicked" => header \cap Layout.payload_len # {}
        /\ load[r].at = "failed" =>
             CASE load[r].error \in DOMAIN Layout -> header \cap Layout[load[r].error] # {}
               [] load[r].error = "payload_truncated" -> header \cap Layout.payload_len # {}
               [] load[r].error = "checksum_mismatch" ->
                    payload \/ header \cap (Layout.checksum \cup Layout.payload_len) # {}
               [] OTHER -> FALSE

-----------------------------------------------------------------------------
File == INSTANCE AtomicFile WITH
  Absent <- NoFile, NoRequest <- NotSaving,
  current <- [p \in Paths |-> Content(cache, names[p])],
  persisted <- [p \in Paths |-> Content(disk, diskNames[p])],
  request <- [s \in Savers |-> IF Saving(s) THEN [path |-> save[s].path, graph |-> save[s].graph]
                               ELSE NotSaving]

(* "The graph file is always either the old valid graph or the new valid    *)
(* graph" (DESIGN.md:315): through failures of save at any step, leftover   *)
(* temporary files and crashes that lose unsynced writes and renames, each  *)
(* destination holds one whole graph that some save put there at once.      *)
ImplementsAtomicFile == File!Spec
=============================================================================
