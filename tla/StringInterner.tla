--------------------------- MODULE StringInterner ---------------------------
(***************************************************************************)
(* The sharded interner of ci-core/src/interner.rs: threads intern strings *)
(* into lock-striped shards, then compact consumes the interner, lays the  *)
(* shard buffers end to end and yields the frozen table with the closure   *)
(* that remaps the handles given out before.                               *)
(*                                                                         *)
(* A byte buffer is abstracted to its length and to the records it holds,  *)
(* each a string with the offset of its length header: resolving an offset *)
(* at which no record starts would decode unrelated bytes.  The bounds are *)
(* ShardCount (16 in the code) and OffsetSpace (2^28); handles are the     *)
(* integers below their product (2^32).                                    *)
(***************************************************************************)
EXTENDS Integers, FiniteSets

CONSTANTS
  Threads,         \* threads that intern
  Strings,         \* the strings they intern
  Size,            \* bytes of each string
  ShardOf,         \* shard_index of each string, a fixed hash
  ShardCount, OffsetSpace, HeaderBytes,
  NoOne, NoString

Shards == 0..(ShardCount - 1)
HandleSpace == ShardCount * OffsetSpace
Bytes(s) == HeaderBytes + Size[s]

ASSUME ShardAssumption == ShardCount \in Nat \ {0} /\ OffsetSpace \in Nat \ {0}
ASSUME StringAssumption ==
  /\ HeaderBytes \in Nat \ {0}
  /\ Size \in [Strings -> Nat]
  /\ ShardOf \in [Strings -> Shards]
ASSUME SentinelAssumption == NoOne \notin Threads /\ NoString \notin Strings

VARIABLES
  buf,       \* per shard: length and records of the byte buffer
  dedup,     \* per shard: the map from interned strings to offsets
  holder,    \* per shard: the thread that holds the lock
  poisoned,  \* per shard: a thread panicked while it held the lock
  pc,        \* where each thread is in intern
  arg,       \* the string each thread interns
  offset,    \* the local offset each thread has found or taken
  answers,   \* history: every string with the handle intern returned for it
  phase,     \* "building", the loops of compact, then "frozen" or "aborted"
  index,     \* the shard the loops of compact have reached
  start,     \* shard_start
  merged     \* the single buffer of the frozen table

internVars == <<buf, dedup, holder, poisoned, pc, arg, offset, answers>>
compactVars == <<phase, index, start, merged>>
vars == <<internVars, compactVars>>

EmptyBuffer == [len |-> 0, records |-> {}]

Init ==
  /\ buf = [i \in Shards |-> EmptyBuffer]
  /\ dedup = [i \in Shards |-> {}]
  /\ holder = [i \in Shards |-> NoOne]
  /\ poisoned = [i \in Shards |-> FALSE]
  /\ pc = [t \in Threads |-> "idle"]
  /\ arg = [t \in Threads |-> NoString]
  /\ offset = [t \in Threads |-> 0]
  /\ answers = {}
  /\ phase = "building"
  /\ index = 0
  /\ start = [i \in 0..ShardCount |-> 0]
  /\ merged = EmptyBuffer

-----------------------------------------------------------------------------
(* intern *)

MyShard(t) == ShardOf[arg[t]]

\* Variant of Intern: the thread goes for the lock without its argument.
InternWithoutArgument(t, s) ==
  /\ phase = "building"
  /\ pc[t] = "idle"
  /\ pc' = [pc EXCEPT ![t] = "locking"]
  /\ UNCHANGED <<buf, dedup, holder, poisoned, arg, offset, answers, compactVars>>

Intern(t, s) ==
  /\ phase = "building"
  /\ pc[t] = "idle"
  /\ arg' = [arg EXCEPT ![t] = s]
  /\ pc' = [pc EXCEPT ![t] = "locking"]
  /\ UNCHANGED <<buf, dedup, holder, poisoned, offset, answers, compactVars>>

\* Variant of Lock: the shard is not locked exclusively.
LockShared(t) ==
  /\ pc[t] = "locking"
  /\ ~poisoned[MyShard(t)]
  /\ holder' = [holder EXCEPT ![MyShard(t)] = t]
  /\ pc' = [pc EXCEPT ![t] = "lookup"]
  /\ UNCHANGED <<buf, dedup, poisoned, arg, offset, answers, compactVars>>

\* lock() succeeds on a shard nobody has panicked in ...
Lock(t) ==
  /\ pc[t] = "locking"
  /\ holder[MyShard(t)] = NoOne
  /\ ~poisoned[MyShard(t)]
  /\ holder' = [holder EXCEPT ![MyShard(t)] = t]
  /\ pc' = [pc EXCEPT ![t] = "lookup"]
  /\ UNCHANGED <<buf, dedup, poisoned, arg, offset, answers, compactVars>>

\* ... and is an error on a poisoned one, on which intern panics.
LockPoisoned(t) ==
  /\ pc[t] = "locking"
  /\ holder[MyShard(t)] = NoOne
  /\ poisoned[MyShard(t)]
  /\ pc' = [pc EXCEPT ![t] = "panicked"]
  /\ UNCHANGED <<buf, dedup, holder, poisoned, arg, offset, answers, compactVars>>

Known(s) == \E p \in dedup[ShardOf[s]] : p[1] = s

Hit(t) ==
  /\ pc[t] = "lookup"
  /\ \E p \in dedup[MyShard(t)] : p[1] = arg[t] /\ offset' = [offset EXCEPT ![t] = p[2]]
  /\ pc' = [pc EXCEPT ![t] = "unlock"]
  /\ UNCHANGED <<buf, dedup, holder, poisoned, arg, answers, compactVars>>

Fits(s) == buf[ShardOf[s]].len + Bytes(s) <= OffsetSpace

Miss(t) ==
  /\ pc[t] = "lookup"
  /\ ~Known(arg[t])
  /\ Fits(arg[t])
  /\ offset' = [offset EXCEPT ![t] = buf[MyShard(t)].len]
  /\ pc' = [pc EXCEPT ![t] = "append"]
  /\ UNCHANGED <<buf, dedup, holder, poisoned, arg, answers, compactVars>>

\* Variant of Full: the capacity is asserted before the string is looked up.
FullBeforeLookup(t) ==
  /\ pc[t] = "lookup"
  /\ ~Fits(arg[t])
  /\ poisoned' = [poisoned EXCEPT ![MyShard(t)] = TRUE]
  /\ holder' = [holder EXCEPT ![MyShard(t)] = NoOne]
  /\ pc' = [pc EXCEPT ![t] = "panicked"]
  /\ UNCHANGED <<buf, dedup, arg, offset, answers, compactVars>>

\* The assertion on MAX_SHARD_BYTES fails under the lock and poisons it.
Full(t) ==
  /\ pc[t] = "lookup"
  /\ ~Known(arg[t])
  /\ ~Fits(arg[t])
  /\ poisoned' = [poisoned EXCEPT ![MyShard(t)] = TRUE]
  /\ holder' = [holder EXCEPT ![MyShard(t)] = NoOne]
  /\ pc' = [pc EXCEPT ![t] = "panicked"]
  /\ UNCHANGED <<buf, dedup, arg, offset, answers, compactVars>>

\* Variant of AppendRecord: the length header is not counted.
AppendWithoutHeader(t) ==
  /\ pc[t] = "append"
  /\ buf' = [buf EXCEPT ![MyShard(t)] =
              [len |-> @.len + Size[arg[t]],
               records |-> @.records \cup {<<arg[t], @.len>>}]]
  /\ pc' = [pc EXCEPT ![t] = "insert"]
  /\ UNCHANGED <<dedup, holder, poisoned, arg, offset, answers, compactVars>>

\* extend_from_slice of the length header and of the bytes
AppendRecord(t) ==
  /\ pc[t] = "append"
  /\ buf' = [buf EXCEPT ![MyShard(t)] =
              [len |-> @.len + Bytes(arg[t]),
               records |-> @.records \cup {<<arg[t], @.len>>}]]
  /\ pc' = [pc EXCEPT ![t] = "insert"]
  /\ UNCHANGED <<dedup, holder, poisoned, arg, offset, answers, compactVars>>

\* Variant of InsertDedup: the map takes the lock that the thread holds.
InsertRelocking(t) ==
  /\ pc[t] = "insert"
  /\ holder[MyShard(t)] = NoOne
  /\ dedup' = [dedup EXCEPT ![MyShard(t)] = @ \cup {<<arg[t], offset[t]>>}]
  /\ pc' = [pc EXCEPT ![t] = "unlock"]
  /\ UNCHANGED <<buf, holder, poisoned, arg, offset, answers, compactVars>>

InsertDedup(t) ==
  /\ pc[t] = "insert"
  /\ dedup' = [dedup EXCEPT ![MyShard(t)] = @ \cup {<<arg[t], offset[t]>>}]
  /\ pc' = [pc EXCEPT ![t] = "unlock"]
  /\ UNCHANGED <<buf, holder, poisoned, arg, offset, answers, compactVars>>

\* Variant of EncodeHandle: the shard is left out.
EncodeOffsetOnly(i, o) == o

EncodeHandle(i, o) == i * OffsetSpace + o

\* The guard is dropped and the encoded handle returned.
Unlock(t) ==
  /\ pc[t] = "unlock"
  /\ holder' = [holder EXCEPT ![MyShard(t)] = NoOne]
  /\ answers' = answers \cup {<<arg[t], EncodeHandle(MyShard(t), offset[t])>>}
  /\ pc' = [pc EXCEPT ![t] = "idle"]
  /\ UNCHANGED <<buf, dedup, poisoned, arg, offset, compactVars>>

-----------------------------------------------------------------------------
(* compact, which owns the interner: no thread is inside intern.            *)

Compact ==
  /\ phase = "building"
  /\ \A t \in Threads : pc[t] \in {"idle", "panicked"}
  /\ phase' = IF \E i \in Shards : poisoned[i] THEN "aborted" ELSE "offsets"
  /\ UNCHANGED <<internVars, index, start, merged>>

Sum == start[index] + buf[index].len

AddOffset ==
  /\ phase = "offsets"
  /\ index < ShardCount
  /\ start' = [start EXCEPT ![index + 1] = Sum % HandleSpace]
  /\ index' = index + 1
  /\ UNCHANGED <<internVars, phase, merged>>

\* Variant of OffsetOverflows: the sum is checked against one shard.
OffsetOverflowsShard ==
  /\ phase = "offsets"
  /\ index < ShardCount
  /\ Sum >= OffsetSpace
  /\ phase' = "aborted"
  /\ UNCHANGED <<internVars, index, start, merged>>

\* A build with overflow checks panics where the sum does not fit 32 bits.
OffsetOverflows ==
  /\ phase = "offsets"
  /\ index < ShardCount
  /\ Sum >= HandleSpace
  /\ phase' = "aborted"
  /\ UNCHANGED <<internVars, index, start, merged>>

OffsetsDone ==
  /\ phase = "offsets"
  /\ index = ShardCount
  /\ phase' = "merging"
  /\ index' = 0
  /\ UNCHANGED <<internVars, start, merged>>

Merge ==
  /\ phase = "merging"
  /\ index < ShardCount
  /\ merged' = [len |-> merged.len + buf[index].len,
                records |-> merged.records
                              \cup {<<r[1], merged.len + r[2]>> : r \in buf[index].records}]
  /\ index' = index + 1
  /\ UNCHANGED <<internVars, phase, start>>

MergeDone ==
  /\ phase = "merging"
  /\ index = ShardCount
  /\ phase' = "frozen"
  /\ UNCHANGED <<internVars, index, start, merged>>

\* Variant of Remap: the handle is used as it is.
RemapNothing(h) == h

\* The remap closure, on any handle.
Remap(h) == start[h \div OffsetSpace] + (h % OffsetSpace)

\* The string resolve reads at a global offset.
Resolve(g) ==
  IF \E r \in merged.records : r[2] = g
  THEN (CHOOSE r \in merged.records : r[2] = g)[1]
  ELSE NoString

-----------------------------------------------------------------------------
Holding(t) == Hit(t) \/ Miss(t) \/ Full(t) \/ AppendRecord(t) \/ InsertDedup(t) \/ Unlock(t)

InternStep(t) == Lock(t) \/ LockPoisoned(t) \/ Holding(t)

CompactStep == AddOffset \/ OffsetOverflows \/ OffsetsDone \/ Merge \/ MergeDone

Next ==
  \/ \E t \in Threads : InternStep(t) \/ \E s \in Strings : Intern(t, s)
  \/ Compact
  \/ CompactStep

Spec == Init /\ [][Next]_vars

\* A thread in a call runs on; the mutex promises no order among its waiters.
FairSpec == Spec /\ \A t \in Threads : WF_vars(InternStep(t))

-----------------------------------------------------------------------------
Buffer == [len : Nat, records : SUBSET (Strings \X Nat)]

TypeOK ==
  /\ buf \in [Shards -> Buffer]
  /\ dedup \in [Shards -> SUBSET (Strings \X Nat)]
  /\ holder \in [Shards -> Threads \cup {NoOne}]
  /\ poisoned \in [Shards -> BOOLEAN]
  /\ pc \in [Threads -> {"idle", "locking", "lookup", "append", "insert", "unlock", "panicked"}]
  /\ arg \in [Threads -> Strings \cup {NoString}]
  /\ \A t \in Threads : pc[t] # "idle" => arg[t] \in Strings
  /\ offset \in [Threads -> Nat]
  /\ answers \subseteq Strings \X Nat
  /\ phase \in {"building", "offsets", "merging", "frozen", "aborted"}
  /\ index \in 0..ShardCount
  /\ start \in [0..ShardCount -> Nat]
  /\ merged \in Buffer

-----------------------------------------------------------------------------
(* Comparing handles is comparing strings (lib.rs:257): intern never gives  *)
(* one string two handles, whichever threads race for it, and never gives   *)
(* two strings one handle, in one shard or across shards.                   *)
HandlesIdentifyStrings ==
  \A p, q \in answers : p[1] = q[1] <=> p[2] = q[2]

(* Once compact has succeeded, every handle that intern ever returned is    *)
(* remapped to the offset at which resolve reads that very string, also     *)
(* when the shards are full and the last prefix sum has wrapped.            *)
RemappedHandlesResolve ==
  phase = "frozen" => \A p \in answers : Resolve(Remap(p[2])) = p[1]

(* The records of the frozen table lie end to end: none reaches beyond the  *)
(* buffer or into the next, so resolve never slices out of range.           *)
FrozenRecordsDisjoint ==
  phase = "frozen" =>
    \A r \in merged.records :
      /\ r[2] + Bytes(r[1]) <= merged.len
      /\ \A q \in merged.records : q # r => r[2] + Bytes(r[1]) <= q[2] \/ q[2] + Bytes(q[1]) <= r[2]

(* A panic is confined to a shard that has no room for some string: every   *)
(* other shard goes on answering.                                           *)
PanicsOnlyWhenFull ==
  /\ \A t \in Threads : pc[t] = "panicked" => poisoned[MyShard(t)]
  /\ \A i \in Shards : poisoned[i] =>
       \E s \in Strings : ShardOf[s] = i /\ ~Known(s) /\ ~Fits(s)

(* A thread that holds the lock of a shard lets go of it, by returning or   *)
(* by panicking, whatever the other threads do.                             *)
LocksReleased == \A t \in Threads : pc[t] = "lookup" ~> pc[t] \in {"idle", "panicked"}

(* compact panics only over a poisoned shard or, where overflow is checked, *)
(* over a prefix sum of 2^32, which takes every shard full to the last byte.*)
AbortsOnlyWhenExhausted ==
  phase = "aborted" =>
    (\E i \in Shards : poisoned[i]) \/ (\A i \in Shards : buf[i].len = OffsetSpace)

-----------------------------------------------------------------------------
\* The interner as a table of handles, resolved through remap once frozen.
Table == INSTANCE StringTable WITH
  Handles <- 0..(HandleSpace - 1),
  table <- UNION {{<<p[1], EncodeHandle(i, p[2])>> : p \in dedup[i]} : i \in Shards},
  resolution <- IF phase = "frozen"
                THEN {<<Resolve(Remap(p[2])), p[2]>> : p \in answers} ELSE {}

(* However its threads interleave, the sharded interner with its remap is   *)
(* one table that assigns each string a handle once, answers everybody from *)
(* it, and when frozen resolves what was answered.                          *)
ImplementsStringTable == Table!Spec
=============================================================================
