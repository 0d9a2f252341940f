------------------------ MODULE StringInternerProofs ------------------------
(***************************************************************************)
(* The interner for any number of threads, strings and shards: what intern *)
(* returns, and what becomes of it once compact has merged the shards.     *)
(***************************************************************************)
EXTENDS StringInterner, TLAPS

\* Rows of N numbers do not overlap.
LEMMA Row ==
  ASSUME NEW N \in Nat \ {0}, NEW i \in Int, NEW j \in Int, i < j
  PROVE  i * N + N <= j * N
<1>1. PICK k \in Nat : j = (i + 1) + k
  <2>1. j - (i + 1) \in Nat /\ j = (i + 1) + (j - (i + 1))
    OBVIOUS
  <2> QED  BY <2>1
<1>2. j * N = i * N + N + k * N  BY <1>1
<1>3. k * N \in Nat /\ i * N \in Int BY <1>1
<1> QED  BY <1>2, <1>3

\* Row and place are determined by the number.
LEMMA Unique ==
  ASSUME NEW N \in Nat \ {0}, NEW i \in Int, NEW j \in Int, NEW o \in 0..(N - 1), NEW p \in 0..(N - 1),
         i * N + o = j * N + p
  PROVE  i = j /\ o = p
<1>1. i * N \in Int /\ j * N \in Int
  OBVIOUS
<1>2. ~(i < j)  BY <1>1, Row
<1>3. ~(j < i)  BY <1>1, Row
<1>4. i = j  BY <1>2, <1>3
<1> QED  BY <1>1, <1>4

LEMMA Quotient ==
  ASSUME NEW N \in Nat \ {0}, NEW h \in Nat
  PROVE  h \div N \in Int /\ h % N \in 0..(N - 1) /\ h = N * (h \div N) + (h % N)
<1>1. h \div N \in Int /\ h % N \in 0..(N - 1)
  OBVIOUS
<1>2. h = N * (h \div N) + (h % N)
  OBVIOUS
<1> QED  BY <1>1, <1>2

LEMMA DivMod ==
  ASSUME NEW N \in Nat \ {0}, NEW i \in Nat, NEW o \in 0..(N - 1)
  PROVE  (i * N + o) \div N = i /\ (i * N + o) % N = o
<1>1. i * N + o \in Nat
  <2>1. i * N \in Nat  OBVIOUS
  <2> QED  BY <2>1
<1>2. PICK h \in Nat : h = i * N + o  BY <1>1
<1>3. PICK q \in Int, r \in 0..(N - 1) : q = h \div N /\ r = h % N /\ h = N * q + r
  BY Quotient
<1>4. q * N + r = i * N + o  BY <1>2, <1>3
<1>5. q = i /\ r = o  BY <1>4, Unique
<1> QED  BY <1>2, <1>3, <1>5
-----------------------------------------------------------------------------
LEMMA Sizes ==
  /\ HandleSpace \in Nat \ {0}
  /\ \A s \in Strings : Bytes(s) \in Nat \ {0} /\ ShardOf[s] \in Shards
<1>1. HandleSpace \in Nat \ {0}
  BY ShardAssumption DEF HandleSpace
<1>2. \A s \in Strings : Bytes(s) \in Nat \ {0} /\ ShardOf[s] \in Shards
  BY StringAssumption DEF Bytes
<1> QED  BY <1>1, <1>2

LEMMA InitType == Init => TypeOK
<1> SUFFICES ASSUME Init PROVE TypeOK
  OBVIOUS
<1>1. EmptyBuffer \in Buffer  BY DEF EmptyBuffer, Buffer
<1>2. 0 \in 0..ShardCount  BY ShardAssumption
<1> QED  BY <1>1, <1>2, SentinelAssumption DEF Init, TypeOK

-----------------------------------------------------------------------------
(* The steps of intern. *)

\* The fields of a buffer.
LEMMA BufferFields ==
  ASSUME NEW b \in Buffer
  PROVE  b.len \in Nat /\ b.records \in SUBSET (Strings \X Nat) /\ b = [len |-> b.len, records |-> b.records]
  BY DEF Buffer

LEMMA HeldType ==
  ASSUME TypeOK, NEW t \in Threads, pc[t] # "idle"
  PROVE  /\ arg[t] \in Strings /\ MyShard(t) = ShardOf[arg[t]] /\ MyShard(t) \in Shards
         /\ buf[MyShard(t)] \in Buffer
  BY Sizes DEF TypeOK, MyShard

LEMMA InternType ==
  ASSUME TypeOK, NEW t \in Threads, InternStep(t) \/ \E s \in Strings : Intern(t, s)
  PROVE  TypeOK'
<1> USE DEF TypeOK, compactVars
<1>1. CASE \E s \in Strings : Intern(t, s)  BY <1>1 DEF Intern
<1>2. CASE Lock(t)
  BY <1>2, HeldType DEF Lock
<1>3. CASE LockPoisoned(t)  BY <1>3 DEF LockPoisoned
<1>4. CASE Hit(t)
  <2>1. pc[t] = "lookup"  BY <1>4 DEF Hit
  <2>2. dedup[MyShard(t)] \in SUBSET (Strings \X Nat)  BY <2>1, HeldType
  <2> QED  BY <1>4, <2>2 DEF Hit
<1>5. CASE Miss(t)
  <2>1. pc[t] = "lookup"  BY <1>5 DEF Miss
  <2>2. buf[MyShard(t)].len \in Nat  BY <2>1, HeldType, BufferFields
  <2> QED  BY <1>5, <2>2 DEF Miss
<1>6. CASE Full(t)
  BY <1>6, HeldType DEF Full
<1>7. CASE AppendRecord(t)
  <2>1. pc[t] = "append"  BY <1>7 DEF AppendRecord
  <2>2. arg[t] \in Strings /\ MyShard(t) \in Shards /\ buf[MyShard(t)] \in Buffer
    BY <2>1, HeldType
  <2>3. /\ buf[MyShard(t)].len \in Nat /\ buf[MyShard(t)].records \in SUBSET (Strings \X Nat)
        /\ Bytes(arg[t]) \in Nat
    BY <2>2, BufferFields, Sizes
  <2>4. [len |-> buf[MyShard(t)].len + Bytes(arg[t]),
         records |-> buf[MyShard(t)].records \cup {<<arg[t], buf[MyShard(t)].len>>}] \in Buffer
    BY <2>2, <2>3 DEF Buffer
  <2>5. buf' \in [Shards -> Buffer]
    BY <1>7, <2>4 DEF AppendRecord
  <2> QED  BY <1>7, <2>5 DEF AppendRecord
<1>8. CASE InsertDedup(t)
  <2>1. pc[t] = "insert"  BY <1>8 DEF InsertDedup
  <2>2. arg[t] \in Strings /\ MyShard(t) \in Shards
    BY <2>1, HeldType
  <2>3. dedup[MyShard(t)] \cup {<<arg[t], offset[t]>>} \in SUBSET (Strings \X Nat)
    BY <2>2
  <2> QED  BY <1>8, <2>3 DEF InsertDedup
<1>9. CASE Unlock(t)
  <2>1. pc[t] = "unlock"  BY <1>9 DEF Unlock
  <2>2. arg[t] \in Strings /\ MyShard(t) \in Shards
    BY <2>1, HeldType
  <2>3. EncodeHandle(MyShard(t), offset[t]) \in Nat
    <3>1. MyShard(t) * OffsetSpace \in Nat
      BY <2>2, ShardAssumption DEF Shards
    <3> QED  BY <3>1 DEF EncodeHandle
  <2>4. answers' \subseteq Strings \X Nat  BY <1>9, <2>2, <2>3 DEF Unlock
  <2> QED  BY <1>9, <2>4 DEF Unlock
<1> QED
  BY <1>1, <1>2, <1>3, <1>4, <1>5, <1>6, <1>7, <1>8, <1>9 DEF InternStep, Holding

LEMMA CompactType == ASSUME TypeOK, Compact \/ CompactStep PROVE TypeOK'
<1> USE DEF TypeOK, internVars
<1>1. CASE Compact  BY <1>1 DEF Compact
<1>2. CASE AddOffset
  <2>1. index \in Nat /\ index < ShardCount /\ ShardCount \in Nat
    BY <1>2, ShardAssumption DEF AddOffset
  <2>2. index \in 0..ShardCount /\ index + 1 \in 0..ShardCount /\ index \in Shards
    BY <2>1 DEF Shards
  <2>3. Sum \in Nat
    <3>1. start[index] \in Nat /\ buf[index].len \in Nat  BY <2>2, BufferFields
    <3> QED  BY <3>1 DEF Sum
  <2>4. Sum % HandleSpace \in Nat  BY <2>3, Sizes
  <2> QED  BY <1>2, <2>2, <2>4 DEF AddOffset
<1>3. CASE OffsetOverflows  BY <1>3 DEF OffsetOverflows
<1>4. CASE OffsetsDone  BY <1>4, ShardAssumption DEF OffsetsDone
<1>5. CASE Merge
  <2>1. index \in Nat /\ index < ShardCount /\ ShardCount \in Nat
    BY <1>5, ShardAssumption DEF Merge
  <2>2. index + 1 \in 0..ShardCount /\ index \in Shards
    BY <2>1 DEF Shards
  <2>3. /\ merged.len \in Nat /\ merged.records \in SUBSET (Strings \X Nat)
        /\ buf[index].len \in Nat /\ buf[index].records \in SUBSET (Strings \X Nat)
    BY <2>2, BufferFields
  <2>4. {<<r[1], merged.len + r[2]>> : r \in buf[index].records} \in SUBSET (Strings \X Nat)
    BY <2>3
  <2>5. merged' \in Buffer
    BY <1>5, <2>3, <2>4 DEF Merge, Buffer
  <2> QED  BY <1>5, <2>2, <2>5 DEF Merge
<1>6. CASE MergeDone  BY <1>6 DEF MergeDone
<1> QED  BY <1>1, <1>2, <1>3, <1>4, <1>5, <1>6 DEF CompactStep

(* StringInterner!TypeOK, for any threads, strings and shards.                *)
THEOREM TypeCorrect == Spec => []TypeOK
<1>1. TypeOK /\ [Next]_vars => TypeOK'
  <2> SUFFICES ASSUME TypeOK, [Next]_vars PROVE TypeOK'
    OBVIOUS
  <2>1. CASE UNCHANGED vars
    BY <2>1 DEF TypeOK, vars, internVars, compactVars
  <2> QED  BY <2>1, InternType, CompactType DEF Next
<1> QED  BY InitType, <1>1, PTL DEF Spec

-----------------------------------------------------------------------------
(* The inductive invariant of intern: a shard holds one record per string,    *)
(* end to end, and the thread between its append and its insertion is the     *)
(* only one to know a record that the map does not.                           *)

Inside == {"lookup", "append", "insert", "unlock"}

Inserting(r) == \E t \in Threads : pc[t] = "insert" /\ r = <<arg[t], offset[t]>>

Apart(r, q) ==
  /\ q[1] # r[1]
  /\ r[2] + Bytes(r[1]) <= q[2] \/ q[2] + Bytes(q[1]) <= r[2]

ShardInv(i) ==
  /\ buf[i].len <= OffsetSpace
  /\ dedup[i] \subseteq buf[i].records
  /\ \A r \in buf[i].records :
       /\ ShardOf[r[1]] = i /\ r[2] + Bytes(r[1]) <= buf[i].len
       /\ r \in dedup[i] \/ Inserting(r)
       /\ \A q \in buf[i].records : q # r => Apart(r, q)

ThreadInv(t) ==
  /\ pc[t] \in Inside => holder[MyShard(t)] = t
  /\ pc[t] = "append" => ~Known(arg[t]) /\ Fits(arg[t]) /\ offset[t] = buf[MyShard(t)].len
  /\ pc[t] = "insert" => ~Known(arg[t]) /\ <<arg[t], offset[t]>> \in buf[MyShard(t)].records
  /\ pc[t] = "unlock" => <<arg[t], offset[t]>> \in dedup[MyShard(t)]

Given(p) ==
  \E o \in Nat : <<p[1], o>> \in dedup[ShardOf[p[1]]] /\ p[2] = EncodeHandle(ShardOf[p[1]], o)

InternInv ==
  /\ TypeOK
  /\ \A i \in Shards : ShardInv(i)
  /\ \A t \in Threads : ThreadInv(t)
  /\ \A p \in answers : Given(p)
  /\ phase # "building" => \A t \in Threads : pc[t] \in {"idle", "panicked"}

LEMMA InitIntern == Init => InternInv
<1> SUFFICES ASSUME Init PROVE InternInv
  OBVIOUS
<1>1. TypeOK  BY InitType
<1>2. \A i \in Shards : ShardInv(i)
  BY ShardAssumption DEF Init, ShardInv, EmptyBuffer
<1>3. \A t \in Threads : ThreadInv(t)  BY DEF Init, ThreadInv, Inside
<1> QED  BY <1>1, <1>2, <1>3 DEF Init, InternInv

\* Two threads inside intern are in different shards.
LEMMA Exclusive ==
  ASSUME InternInv, NEW t \in Threads, NEW u \in Threads, t # u,
         pc[t] \in Inside, pc[u] \in Inside
  PROVE  MyShard(t) # MyShard(u)
  BY DEF InternInv, ThreadInv

\* A step that writes neither buffers nor maps nor answers.
LEMMA QuietStep ==
  ASSUME InternInv, TypeOK', NEW t \in Threads, pc[t] # "insert", pc'[t] # "insert",
         UNCHANGED <<buf, dedup, answers, phase>>, phase = "building",
         \A u \in Threads \ {t} : pc'[u] = pc[u] /\ arg'[u] = arg[u] /\ offset'[u] = offset[u],
         \A u \in Threads \ {t} : pc[u] \in Inside => holder'[MyShard(u)] = holder[MyShard(u)],
         ThreadInv(t)'
  PROVE  InternInv'
<1>1. \A r : Inserting(r) => Inserting(r)'  BY DEF Inserting
<1>2. \A i \in Shards : ShardInv(i)'
  BY <1>1 DEF InternInv, ShardInv, Apart
<1>3. ASSUME NEW u \in Threads \ {t} PROVE ThreadInv(u)'
  BY <1>3 DEF InternInv, ThreadInv, MyShard, Known, Fits, Inside
<1>4. \A p \in answers' : Given(p)'  BY DEF InternInv, Given, EncodeHandle
<1> QED  BY <1>2, <1>3, <1>4 DEF InternInv

LEMMA Building ==
  ASSUME InternInv, NEW t \in Threads, pc[t] \in Inside \cup {"locking"}
  PROVE  phase = "building"
  BY DEF InternInv, Inside

LEMMA EnterIntern ==
  ASSUME InternInv, NEW t \in Threads, NEW s \in Strings, Intern(t, s)
  PROVE  InternInv'
<1>1. TypeOK'  BY InternType DEF InternInv
<1>2. ThreadInv(t)'
  <2>1. pc'[t] = "locking"  BY DEF Intern, InternInv, TypeOK
  <2> QED  BY <2>1 DEF ThreadInv, Inside
<1>3. pc[t] = "idle" /\ pc'[t] = "locking"  BY DEF Intern, InternInv, TypeOK
<1> QED
  BY <1>1, <1>2, <1>3, QuietStep DEF Intern, InternInv, TypeOK, compactVars

LEMMA LockIntern == ASSUME InternInv, NEW t \in Threads, Lock(t) \/ LockPoisoned(t) PROVE InternInv'
<1>1. TypeOK /\ TypeOK'  BY InternType DEF InternInv, InternStep
<1>2. pc[t] = "locking" /\ phase = "building" /\ MyShard(t) \in Shards
  <2>1. pc[t] = "locking"  BY DEF Lock, LockPoisoned
  <2> QED  BY <1>1, <2>1, Building, HeldType DEF Inside
<1>3. CASE Lock(t)
  <2>1. /\ pc'[t] = "lookup" /\ holder'[MyShard(t)] = t /\ MyShard(t)' = MyShard(t)
    BY <1>1, <1>2, <1>3 DEF Lock, TypeOK, MyShard
  <2>2. ThreadInv(t)'
    BY <1>2, <1>3, <2>1 DEF ThreadInv
  <2>3. \A u \in Threads \ {t} : pc[u] \in Inside => MyShard(u) # MyShard(t)
    BY <1>3, SentinelAssumption DEF Lock, InternInv, ThreadInv
  <2>4. \A u \in Threads \ {t} : pc[u] \in Inside => holder'[MyShard(u)] = holder[MyShard(u)]
    BY <1>1, <1>2, <1>3, <2>3 DEF Lock, TypeOK
  <2>5. \A u \in Threads \ {t} : pc'[u] = pc[u] /\ arg'[u] = arg[u] /\ offset'[u] = offset[u]
    BY <1>1, <1>3 DEF Lock, TypeOK
  <2>6. UNCHANGED <<buf, dedup, answers, phase>>  BY <1>3 DEF Lock, compactVars
  <2> QED  BY <1>1, <1>2, <2>1, <2>2, <2>4, <2>5, <2>6, QuietStep
<1>4. CASE LockPoisoned(t)
  <2>1. pc'[t] = "panicked"  BY <1>1, <1>4 DEF LockPoisoned, TypeOK
  <2>2. ThreadInv(t)'  BY <2>1 DEF ThreadInv, Inside
  <2> QED
    BY <1>1, <1>2, <1>4, <2>1, <2>2, QuietStep DEF LockPoisoned, TypeOK, compactVars
<1> QED  BY <1>3, <1>4

LEMMA LookupIntern == ASSUME InternInv, NEW t \in Threads, Hit(t) \/ Miss(t) \/ Full(t) PROVE InternInv'
<1>1. TypeOK /\ TypeOK'  BY InternType DEF InternInv, InternStep, Holding
<1>2. pc[t] = "lookup" /\ phase = "building" /\ MyShard(t) \in Shards /\ holder[MyShard(t)] = t
  <2>1. pc[t] = "lookup"  BY DEF Hit, Miss, Full
  <2> QED  BY <1>1, <2>1, Building, HeldType DEF Inside, InternInv, ThreadInv
<1>3. CASE Hit(t)
  <2>1. PICK p \in dedup[MyShard(t)] : p[1] = arg[t] /\ offset' = [offset EXCEPT ![t] = p[2]]
    BY <1>3 DEF Hit
  <2>2. p = <<arg[t], p[2]>>
    <3>1. p \in Strings \X Nat  BY <1>1, <1>2, <2>1 DEF TypeOK
    <3> QED  BY <2>1, <3>1
  <2>3. pc'[t] = "unlock" /\ offset'[t] = p[2] /\ UNCHANGED <<arg, dedup, holder>>
    BY <1>1, <1>3, <2>1 DEF Hit, TypeOK
  <2>4. ThreadInv(t)'
    BY <1>2, <2>1, <2>2, <2>3 DEF ThreadInv, MyShard
  <2> QED
    BY <1>1, <1>2, <1>3, <2>3, <2>4, QuietStep DEF Hit, TypeOK, compactVars
<1>4. CASE Miss(t)
  <2>1. /\ pc'[t] = "append" /\ offset'[t] = buf[MyShard(t)].len
        /\ UNCHANGED <<arg, buf, dedup, holder>> /\ ~Known(arg[t]) /\ Fits(arg[t])
    BY <1>1, <1>4 DEF Miss, TypeOK
  <2>2. ThreadInv(t)'
    BY <1>2, <2>1 DEF ThreadInv, MyShard, Known, Fits
  <2> QED
    BY <1>1, <1>2, <1>4, <2>1, <2>2, QuietStep DEF Miss, TypeOK, compactVars
<1>5. CASE Full(t)
  <2>1. pc'[t] = "panicked"  BY <1>1, <1>5 DEF Full, TypeOK
  <2>2. ThreadInv(t)'  BY <2>1 DEF ThreadInv, Inside
  <2>3. \A u \in Threads \ {t} : pc[u] \in Inside => MyShard(u) # MyShard(t)
    BY <1>2, Exclusive DEF Inside
  <2> QED
    BY <1>1, <1>2, <1>5, <2>1, <2>2, <2>3, QuietStep DEF Full, TypeOK, compactVars
<1> QED  BY <1>3, <1>4, <1>5

LEMMA AppendIntern == ASSUME InternInv, NEW t \in Threads, AppendRecord(t) PROVE InternInv'
<1>. PICK m : m = MyShard(t)
  OBVIOUS
<1>. PICK r0 : r0 = <<arg[t], buf[m].len>>
  OBVIOUS
<1>1. TypeOK /\ TypeOK'  BY InternType DEF InternInv, InternStep, Holding
<1>2. /\ pc[t] = "append" /\ phase = "building" /\ m \in Shards /\ holder[m] = t
      /\ arg[t] \in Strings /\ m = ShardOf[arg[t]] /\ buf[m] \in Buffer
      /\ ~Known(arg[t]) /\ Fits(arg[t]) /\ offset[t] = buf[m].len
  <2>1. pc[t] = "append"  BY DEF AppendRecord
  <2> QED  BY <1>1, <2>1, Building, HeldType DEF Inside, InternInv, ThreadInv
<1>3. /\ buf' = [buf EXCEPT ![m] = [len |-> buf[m].len + Bytes(arg[t]), records |-> buf[m].records \cup {r0}]]
      /\ pc' = [pc EXCEPT ![t] = "insert"]
      /\ UNCHANGED <<dedup, holder, arg, offset, answers, phase>>
  BY <1>1, <1>2 DEF AppendRecord, compactVars, TypeOK
<1>4. /\ buf'[m].len = buf[m].len + Bytes(arg[t]) /\ buf'[m].records = buf[m].records \cup {r0}
      /\ \A i \in Shards \ {m} : buf'[i] = buf[i]
  BY <1>1, <1>2, <1>3 DEF TypeOK
<1>5. pc'[t] = "insert" /\ \A u \in Threads \ {t} : pc'[u] = pc[u]
  BY <1>1, <1>3 DEF TypeOK
<1>6. Bytes(arg[t]) \in Nat \ {0} /\ buf[m].len \in Nat /\ buf[m].records \in SUBSET (Strings \X Nat)
  BY <1>2, Sizes, BufferFields
<1>7. \A u \in Threads \ {t} : pc[u] \in Inside => MyShard(u) # m
  BY <1>2, Exclusive DEF Inside
<1>8. \A q \in buf[m].records : q[1] # arg[t]
  <2> SUFFICES ASSUME NEW q \in buf[m].records, q[1] = arg[t] PROVE FALSE
    OBVIOUS
  <2>1. q \in dedup[m] \/ Inserting(q)  BY <1>2 DEF InternInv, ShardInv
  <2>2. CASE q \in dedup[m]  BY <1>2, <2>2 DEF Known
  <2>3. CASE Inserting(q)
    <3>1. PICK u \in Threads : pc[u] = "insert" /\ q = <<arg[u], offset[u]>>
      BY <2>3 DEF Inserting
    <3>2. MyShard(u) = m /\ u # t  BY <1>2, <3>1 DEF MyShard
    <3> QED  BY <1>7, <3>1, <3>2 DEF Inside
  <2> QED  BY <2>1, <2>2, <2>3
<1>9. \A r : Inserting(r) => Inserting(r)'
  BY <1>2, <1>3, <1>5 DEF Inserting
<1>10. \A i \in Shards \ {m} : ShardInv(i)'
  BY <1>3, <1>4, <1>9 DEF InternInv, ShardInv, Apart
<1>11. ShardInv(m)'
  <2>0. ShardInv(m)  BY <1>2 DEF InternInv
  <2>1. buf'[m].len <= OffsetSpace /\ dedup'[m] \subseteq buf'[m].records
    BY <1>2, <1>3, <1>4, <2>0 DEF ShardInv, Fits
  <2>2. \A r \in buf[m].records : r[1] \in Strings /\ r[2] \in Nat /\ Bytes(r[1]) \in Nat
    BY <1>6, Sizes
  <2>3. \A r \in buf[m].records :
          /\ ShardOf[r[1]] = m /\ r[2] + Bytes(r[1]) <= buf[m].len
          /\ r \in dedup[m] \/ Inserting(r)
          /\ \A q \in buf[m].records : q # r => Apart(r, q)
    BY <2>0 DEF ShardInv
  <2>4. \A r \in buf[m].records : Apart(r, r0) /\ Apart(r0, r)
    BY <1>6, <1>8, <2>2, <2>3 DEF Apart
  <2>5. Inserting(r0)'  BY <1>2, <1>3, <1>5 DEF Inserting
  <2>6. ShardOf[r0[1]] = m /\ r0[2] + Bytes(r0[1]) <= buf'[m].len
    BY <1>2, <1>4, <1>6
  <2>7. \A r \in buf'[m].records : ShardOf[r[1]] = m /\ r[2] + Bytes(r[1]) <= buf'[m].len
    BY <1>4, <1>6, <2>2, <2>3, <2>6
  <2>8. \A r \in buf'[m].records : r \in dedup'[m] \/ Inserting(r)'
    BY <1>3, <1>4, <1>9, <2>3, <2>5
  <2>9. \A r \in buf'[m].records : \A q \in buf'[m].records : q # r => Apart(r, q)
    BY <1>4, <2>3, <2>4
  <2> QED  BY <2>1, <2>7, <2>8, <2>9 DEF ShardInv, Apart
<1>12. ThreadInv(t)'
  <2>1. MyShard(t)' = m /\ Known(arg[t])' = Known(arg[t])  BY <1>3 DEF MyShard, Known
  <2>2. <<arg[t], offset[t]>> \in buf'[m].records  BY <1>2, <1>4
  <2> QED  BY <1>2, <1>3, <1>5, <2>1, <2>2 DEF ThreadInv
<1>13. ASSUME NEW u \in Threads \ {t} PROVE ThreadInv(u)'
  <2>1. pc'[u] = pc[u] /\ MyShard(u)' = MyShard(u)  BY <1>3, <1>5 DEF MyShard
  <2>2. Known(arg[u])' = Known(arg[u])  BY <1>3 DEF Known
  <2>3. pc[u] \in Inside => buf'[MyShard(u)] = buf[MyShard(u)]
    <3>1. pc[u] \in Inside => MyShard(u) \in Shards \ {m}
      BY <1>1, <1>7, HeldType DEF Inside
    <3> QED  BY <1>4, <3>1
  <2> QED
    BY <1>3, <2>1, <2>2, <2>3 DEF InternInv, ThreadInv, Inside, Fits, MyShard
<1>14. \A p \in answers' : Given(p)'  BY <1>3 DEF InternInv, Given, EncodeHandle
<1> QED  BY <1>1, <1>2, <1>3, <1>10, <1>11, <1>12, <1>13, <1>14 DEF InternInv

LEMMA InsertIntern == ASSUME InternInv, NEW t \in Threads, InsertDedup(t) PROVE InternInv'
<1> DEFINE m == MyShard(t)
           r0 == <<arg[t], offset[t]>>
<1>1. TypeOK /\ TypeOK'  BY InternType DEF InternInv, InternStep, Holding
<1>2. /\ pc[t] = "insert" /\ phase = "building" /\ m \in Shards /\ holder[m] = t
      /\ r0 \in buf[m].records
  <2>1. pc[t] = "insert"  BY DEF InsertDedup
  <2> QED  BY <1>1, <2>1, Building, HeldType DEF Inside, InternInv, ThreadInv
<1>3. /\ dedup' = [dedup EXCEPT ![m] = @ \cup {r0}]
      /\ pc' = [pc EXCEPT ![t] = "unlock"]
      /\ UNCHANGED <<buf, holder, arg, offset, answers, phase>>
  BY DEF InsertDedup, compactVars
<1>4. /\ dedup'[m] = dedup[m] \cup {r0} /\ \A i \in Shards \ {m} : dedup'[i] = dedup[i]
      /\ \A i \in Shards : dedup[i] \subseteq dedup'[i]
  BY <1>1, <1>2, <1>3 DEF TypeOK
<1>5. pc'[t] = "unlock" /\ \A u \in Threads \ {t} : pc'[u] = pc[u]
  BY <1>1, <1>3 DEF TypeOK
<1>6. \A u \in Threads \ {t} : pc[u] \in Inside => MyShard(u) # m
  BY <1>2, Exclusive DEF Inside
<1>7. ASSUME NEW i \in Shards PROVE ShardInv(i)'
  <2>1. dedup'[i] \subseteq buf[i].records
    BY <1>2, <1>4 DEF InternInv, ShardInv
  <2>2. ASSUME NEW r \in buf[i].records PROVE r \in dedup'[i] \/ Inserting(r)'
    <3>1. r \in dedup[i] \/ Inserting(r)  BY DEF InternInv, ShardInv
    <3>2. CASE r \in dedup[i]  BY <1>4, <3>2
    <3>3. CASE Inserting(r)
      <4>1. PICK u \in Threads : pc[u] = "insert" /\ r = <<arg[u], offset[u]>>
        BY <3>3 DEF Inserting
      <4>2. CASE u = t
        <5>1. ShardOf[arg[t]] = i /\ i = m
          BY <4>1, <4>2 DEF InternInv, ShardInv, MyShard
        <5> QED  BY <1>4, <4>1, <4>2, <5>1
      <4>3. CASE u # t  BY <1>3, <1>5, <4>1, <4>3 DEF Inserting
      <4> QED  BY <4>2, <4>3
    <3> QED  BY <3>1, <3>2, <3>3
  <2> QED  BY <1>3, <2>1, <2>2 DEF InternInv, ShardInv, Apart
<1>8. ThreadInv(t)'
  <2>1. MyShard(t)' = m  BY <1>3 DEF MyShard
  <2> QED  BY <1>2, <1>3, <1>4, <1>5, <2>1 DEF ThreadInv
<1>9. ASSUME NEW u \in Threads \ {t} PROVE ThreadInv(u)'
  <2>1. pc'[u] = pc[u] /\ MyShard(u)' = MyShard(u)  BY <1>3, <1>5 DEF MyShard
  <2>2. pc[u] \in Inside => dedup'[MyShard(u)] = dedup[MyShard(u)]
    <3>1. pc[u] \in Inside => MyShard(u) \in Shards \ {m}
      BY <1>1, <1>6, HeldType DEF Inside
    <3> QED  BY <1>4, <3>1
  <2> QED
    BY <1>3, <2>1, <2>2 DEF InternInv, ThreadInv, Inside, Fits, Known, MyShard
<1>10. ASSUME NEW p \in answers' PROVE Given(p)'
  <2>1. p \in answers /\ p[1] \in Strings /\ ShardOf[p[1]] \in Shards
    BY <1>1, <1>3, Sizes DEF TypeOK
  <2> QED  BY <1>4, <2>1 DEF InternInv, Given, EncodeHandle
<1> QED  BY <1>1, <1>2, <1>3, <1>7, <1>8, <1>9, <1>10 DEF InternInv

LEMMA UnlockIntern == ASSUME InternInv, NEW t \in Threads, Unlock(t) PROVE InternInv'
<1>1. TypeOK /\ TypeOK'  BY InternType DEF InternInv, InternStep, Holding
<1>2. /\ pc[t] = "unlock" /\ phase = "building" /\ MyShard(t) \in Shards
      /\ MyShard(t) = ShardOf[arg[t]] /\ <<arg[t], offset[t]>> \in dedup[MyShard(t)]
  <2>1. pc[t] = "unlock"  BY DEF Unlock
  <2> QED  BY <1>1, <2>1, Building, HeldType DEF Inside, InternInv, ThreadInv
<1>3. /\ holder' = [holder EXCEPT ![MyShard(t)] = NoOne]
      /\ answers' = answers \cup {<<arg[t], EncodeHandle(MyShard(t), offset[t])>>}
      /\ UNCHANGED <<buf, dedup, arg, offset, phase>>
  BY DEF Unlock, compactVars
<1>4. pc'[t] = "idle" /\ \A u \in Threads \ {t} : pc'[u] = pc[u]
  BY <1>1 DEF Unlock, TypeOK
<1>5. \A r : Inserting(r) => Inserting(r)'  BY <1>2, <1>3, <1>4 DEF Inserting
<1>6. \A i \in Shards : ShardInv(i)'  BY <1>3, <1>5 DEF InternInv, ShardInv, Apart
<1>7. ThreadInv(t)'  BY <1>4 DEF ThreadInv, Inside
<1>8. ASSUME NEW u \in Threads \ {t} PROVE ThreadInv(u)'
  <2>1. pc'[u] = pc[u] /\ MyShard(u)' = MyShard(u)  BY <1>3, <1>4 DEF MyShard
  <2>2. pc[u] \in Inside => holder'[MyShard(u)] = holder[MyShard(u)]
    <3>1. pc[u] \in Inside => MyShard(u) # MyShard(t)
      BY <1>2, Exclusive DEF Inside
    <3> QED  BY <1>1, <1>3, <3>1 DEF TypeOK
  <2> QED
    BY <1>3, <2>1, <2>2 DEF InternInv, ThreadInv, Inside, Fits, Known, MyShard
<1>9. ASSUME NEW p \in answers' PROVE Given(p)'
  <2>1. CASE p \in answers  BY <1>3, <2>1 DEF InternInv, Given, EncodeHandle
  <2>2. CASE p = <<arg[t], EncodeHandle(MyShard(t), offset[t])>>
    <3>1. offset[t] \in Nat  BY <1>1 DEF TypeOK
    <3> QED  BY <1>2, <1>3, <2>2, <3>1 DEF Given, EncodeHandle
  <2> QED  BY <1>3, <2>1, <2>2
<1> QED  BY <1>1, <1>2, <1>3, <1>6, <1>7, <1>8, <1>9 DEF InternInv

LEMMA CompactIntern == ASSUME InternInv, Compact \/ CompactStep PROVE InternInv'
<1>1. TypeOK'  BY CompactType DEF InternInv
<1>2. UNCHANGED internVars
  BY DEF Compact, CompactStep, AddOffset, OffsetOverflows, OffsetsDone, Merge, MergeDone
<1>3. phase' # "building" => \A t \in Threads : pc[t] \in {"idle", "panicked"}
  BY DEF InternInv, Compact, CompactStep, AddOffset, OffsetOverflows, OffsetsDone, Merge, MergeDone
<1>4. UNCHANGED <<buf, dedup, holder, pc, arg, offset, answers>>
  BY <1>2 DEF internVars
<1> QED
  BY <1>1, <1>3, <1>4
  DEF InternInv, ShardInv, ThreadInv, Given, Inserting, Apart, MyShard, Known, Fits, EncodeHandle

LEMMA NextIntern == ASSUME InternInv, [Next]_vars PROVE InternInv'
<1>1. CASE UNCHANGED vars
  <2>1. TypeOK'
    BY <1>1 DEF vars, internVars, compactVars, InternInv, TypeOK
  <2>2. UNCHANGED <<buf, dedup, holder, pc, arg, offset, answers, phase>>
    BY <1>1 DEF vars, internVars, compactVars
  <2> QED
    BY <2>1, <2>2
    DEF InternInv, ShardInv, ThreadInv, Given, Inserting, Apart, MyShard, Known, Fits, EncodeHandle
<1> QED
  BY <1>1, EnterIntern, LockIntern, LookupIntern, AppendIntern, InsertIntern, UnlockIntern, CompactIntern
  DEF Next, InternStep, Holding

LEMMA AlwaysIntern == Spec => []InternInv
<1>1. InternInv /\ [Next]_vars => InternInv'  BY NextIntern
<1> QED  BY InitIntern, <1>1, PTL DEF Spec

-----------------------------------------------------------------------------
\* Where the record of an answer is.
LEMMA RecordOf ==
  ASSUME InternInv, NEW p \in answers
  PROVE  \E o \in 0..(OffsetSpace - 1) :
           /\ ShardOf[p[1]] \in Shards /\ <<p[1], o>> \in buf[ShardOf[p[1]]].records
           /\ p[2] = ShardOf[p[1]] * OffsetSpace + o
<1>1. p[1] \in Strings /\ ShardOf[p[1]] \in Shards
  BY Sizes DEF InternInv, TypeOK
<1>2. PICK o \in Nat : <<p[1], o>> \in dedup[ShardOf[p[1]]] /\ p[2] = ShardOf[p[1]] * OffsetSpace + o
  BY DEF InternInv, Given, EncodeHandle
<1>3. ShardInv(ShardOf[p[1]])  BY <1>1 DEF InternInv
<1>4. <<p[1], o>> \in buf[ShardOf[p[1]]].records  BY <1>2, <1>3 DEF ShardInv
<1>5. o + Bytes(p[1]) <= OffsetSpace
  <2>1. buf[ShardOf[p[1]]].len \in Nat  BY <1>1, BufferFields DEF InternInv, TypeOK
  <2>2. o + Bytes(p[1]) <= buf[ShardOf[p[1]]].len /\ buf[ShardOf[p[1]]].len <= OffsetSpace
    BY <1>3, <1>4 DEF ShardInv
  <2> QED  BY <1>1, <2>1, <2>2, Sizes, ShardAssumption
<1>6. o \in 0..(OffsetSpace - 1)  BY <1>1, <1>2, <1>5, Sizes, ShardAssumption
<1> QED  BY <1>1, <1>2, <1>4, <1>6

\* Two records of a shard have different strings and different offsets.
LEMMA RecordsDiffer ==
  ASSUME InternInv, NEW i \in Shards, NEW r \in buf[i].records, NEW q \in buf[i].records,
         r[1] = q[1] \/ r[2] = q[2]
  PROVE  r = q
<1> SUFFICES ASSUME r # q PROVE FALSE
  OBVIOUS
<1>1. buf[i].records \in SUBSET (Strings \X Nat)  BY BufferFields DEF InternInv, TypeOK
<1>2. r[2] \in Nat /\ q[2] \in Nat /\ Bytes(r[1]) \in Nat \ {0} /\ Bytes(q[1]) \in Nat \ {0}
  BY <1>1, Sizes
<1>3. Apart(r, q)  BY DEF InternInv, ShardInv
<1> QED  BY <1>2, <1>3 DEF Apart

(* StringInterner!HandlesIdentifyStrings, for any threads, strings and shards:*)
(* two answers are for one string if and only if they are one handle.         *)
THEOREM HandlesIdentifyStringsHolds == Spec => []HandlesIdentifyStrings
<1>1. InternInv => HandlesIdentifyStrings
  <2> SUFFICES ASSUME InternInv, NEW p \in answers, NEW q \in answers
               PROVE  p[1] = q[1] <=> p[2] = q[2]
    BY DEF HandlesIdentifyStrings
  <2>1. PICK o \in 0..(OffsetSpace - 1) :
          /\ ShardOf[p[1]] \in Shards /\ <<p[1], o>> \in buf[ShardOf[p[1]]].records
          /\ p[2] = ShardOf[p[1]] * OffsetSpace + o
    BY RecordOf
  <2>2. PICK u \in 0..(OffsetSpace - 1) :
          /\ ShardOf[q[1]] \in Shards /\ <<q[1], u>> \in buf[ShardOf[q[1]]].records
          /\ q[2] = ShardOf[q[1]] * OffsetSpace + u
    BY RecordOf
  <2>3. CASE p[1] = q[1]
    <3>1. <<p[1], o>> = <<q[1], u>>
      BY <2>1, <2>2, <2>3, RecordsDiffer
    <3>2. o = u  BY <3>1
    <3> QED  BY <2>1, <2>2, <2>3, <3>2
  <2>4. CASE p[2] = q[2]
    <3>1. ShardOf[p[1]] = ShardOf[q[1]] /\ o = u
      <4>1. PICK i \in Int, j \in Int : i = ShardOf[p[1]] /\ j = ShardOf[q[1]]
        BY <2>1, <2>2 DEF Shards
      <4>2. i * OffsetSpace + o = j * OffsetSpace + u
        BY <2>1, <2>2, <2>4, <4>1
      <4>3. i = j /\ o = u  BY <4>2, Unique, ShardAssumption
      <4> QED  BY <4>1, <4>3
    <3>2. <<p[1], o>> = <<q[1], u>>
      BY <2>1, <2>2, <3>1, RecordsDiffer
    <3>3. p[1] = q[1]  BY <3>2
    <3> QED  BY <2>4, <3>3
  <2> QED  BY <2>3, <2>4
<1> QED  BY <1>1, AlwaysIntern, PTL

-----------------------------------------------------------------------------
(* The loops of compact: the starts are the prefix sums, none of a shard      *)
(* wraps, and each shard is merged behind the ones before it.                 *)

Laid(k) ==
  \A i \in 0..k : i < ShardCount =>
    /\ start[i] <= i * OffsetSpace
    /\ i > 0 => start[i] = start[i - 1] + buf[i - 1].len
    /\ \A j \in 0..(i - 1) : start[j] + buf[j].len <= start[i]
    /\ start[i] = i * OffsetSpace => \A j \in 0..(i - 1) : buf[j].len = OffsetSpace

Moved(i, r) == \E q \in buf[i].records : r = <<q[1], start[i] + q[2]>>

MergedUpTo(k) ==
  /\ merged.len = IF k = 0 THEN 0 ELSE start[k - 1] + buf[k - 1].len
  /\ \A r : r \in merged.records <=> \E i \in 0..(k - 1) : Moved(i, r)

LayoutInv ==
  /\ start[0] = 0
  /\ phase = "building" => index = 0 /\ merged = EmptyBuffer
  /\ phase = "offsets" => merged = EmptyBuffer /\ Laid(index)
  /\ phase \in {"merging", "frozen"} => Laid(ShardCount) /\ MergedUpTo(index)
  /\ phase = "frozen" => index = ShardCount
  /\ AbortsOnlyWhenExhausted

LEMMA InitLayout == Init => LayoutInv
  BY ShardAssumption DEF Init, LayoutInv, AbortsOnlyWhenExhausted

LEMMA InternLayout ==
  ASSUME InternInv, LayoutInv, NEW t \in Threads, InternStep(t) \/ \E s \in Strings : Intern(t, s)
  PROVE  LayoutInv'
<1>1. UNCHANGED <<phase, index, start, merged>>
  BY DEF InternStep, Holding, Intern, Lock, LockPoisoned, Hit, Miss, Full, AppendRecord, InsertDedup,
         Unlock, compactVars
<1>2. phase # "building" => UNCHANGED <<buf, poisoned>>
  <2> SUFFICES ASSUME phase # "building" PROVE UNCHANGED <<buf, poisoned>>
    OBVIOUS
  <2>1. pc[t] \in {"idle", "panicked"}  BY DEF InternInv
  <2> QED
    BY <2>1
    DEF InternStep, Holding, Intern, Lock, LockPoisoned, Hit, Miss, Full, AppendRecord, InsertDedup, Unlock
<1> QED
  BY <1>1, <1>2 DEF LayoutInv, Laid, MergedUpTo, Moved, AbortsOnlyWhenExhausted

LEMMA StartLayout == ASSUME InternInv, LayoutInv, Compact PROVE LayoutInv'
<1>1. /\ phase = "building" /\ UNCHANGED <<buf, poisoned, index, start, merged>>
      /\ phase' = IF \E i \in Shards : poisoned[i] THEN "aborted" ELSE "offsets"
  BY DEF Compact, internVars
<1>2. Laid(0)
  <2>1. 0 * OffsetSpace = 0  BY ShardAssumption
  <2> QED  BY <2>1 DEF LayoutInv, Laid
<1>3. index = 0 /\ merged = EmptyBuffer  BY <1>1 DEF LayoutInv
<1>4. Laid(index)'  BY <1>1, <1>2, <1>3 DEF Laid
<1> QED  BY <1>1, <1>3, <1>4 DEF LayoutInv, AbortsOnlyWhenExhausted

\* What the sum at a shard can be.
LEMMA SumBound ==
  ASSUME InternInv, LayoutInv, phase = "offsets", index < ShardCount
  PROVE  /\ index \in Shards /\ index \in Nat
         /\ start[index] \in Nat /\ buf[index].len \in 0..OffsetSpace /\ Sum = start[index] + buf[index].len
         /\ start[index] <= index * OffsetSpace /\ index * OffsetSpace \in Nat
         /\ (index + 1) * OffsetSpace = index * OffsetSpace + OffsetSpace
<1>1. index \in Shards /\ index \in 0..ShardCount /\ index \in Nat
  BY ShardAssumption DEF InternInv, TypeOK, Shards
<1>2. start[index] \in Nat /\ buf[index].len \in Nat
  BY <1>1, BufferFields DEF InternInv, TypeOK
<1>3. buf[index].len <= OffsetSpace  BY <1>1 DEF InternInv, ShardInv
<1>4. start[index] <= index * OffsetSpace
  BY <1>1 DEF LayoutInv, Laid
<1>5. index * OffsetSpace \in Nat /\ (index + 1) * OffsetSpace = index * OffsetSpace + OffsetSpace
  BY <1>1, ShardAssumption
<1> QED  BY <1>1, <1>2, <1>3, <1>4, <1>5, ShardAssumption DEF Sum

LEMMA AddOffsetLayout == ASSUME InternInv, LayoutInv, AddOffset PROVE LayoutInv'
<1>1. /\ phase = "offsets" /\ index < ShardCount
      /\ start' = [start EXCEPT ![index + 1] = Sum % HandleSpace] /\ index' = index + 1
      /\ UNCHANGED <<buf, poisoned, phase, merged>>
  BY DEF AddOffset, internVars
<1>2. /\ index \in Shards /\ index \in Nat
      /\ start[index] \in Nat /\ buf[index].len \in 0..OffsetSpace /\ Sum = start[index] + buf[index].len
      /\ start[index] <= index * OffsetSpace /\ index * OffsetSpace \in Nat
      /\ (index + 1) * OffsetSpace = index * OffsetSpace + OffsetSpace
  BY <1>1, SumBound
<1>3. DOMAIN start = 0..ShardCount /\ \A i \in 0..ShardCount : start[i] \in Nat
  BY DEF InternInv, TypeOK
<1>4. start'[index + 1] = Sum % HandleSpace /\ \A i \in 0..index : start'[i] = start[i]
  BY <1>1, <1>2, <1>3, ShardAssumption
<1>5. Laid(index) /\ merged = EmptyBuffer /\ start[0] = 0  BY <1>1 DEF LayoutInv
<1>6. ASSUME index + 1 < ShardCount PROVE start'[index + 1] = start[index] + buf[index].len
  <2>1. (index + 1) * OffsetSpace + OffsetSpace <= HandleSpace
    BY <1>2, <1>6, ShardAssumption, Row DEF HandleSpace
  <2>2. Sum \in 0..(HandleSpace - 1)
    BY <1>2, <2>1, ShardAssumption, Sizes
  <2>3. 0 * HandleSpace + Sum = Sum  BY <2>2, Sizes
  <2>4. Sum % HandleSpace = Sum  BY <2>2, <2>3, DivMod, Sizes
  <2> QED  BY <1>2, <1>4, <2>4
<1>7. Laid(index)'
  <2> SUFFICES ASSUME NEW i \in 0..(index + 1), i < ShardCount
               PROVE  /\ start'[i] <= i * OffsetSpace
                      /\ i > 0 => start'[i] = start'[i - 1] + buf[i - 1].len
                      /\ \A j \in 0..(i - 1) : start'[j] + buf[j].len <= start'[i]
                      /\ start'[i] = i * OffsetSpace => \A j \in 0..(i - 1) : buf[j].len = OffsetSpace
    BY <1>1 DEF Laid
  <2>1. CASE i \in 0..index
    <3>1. \A j \in 0..i : start'[j] = start[j]  BY <1>2, <1>4, <2>1
    <3>2. i > 0 => i - 1 \in 0..i  BY <2>1
    <3>3. start'[i] = start[i] /\ \A j \in 0..(i - 1) : start'[j] = start[j]
      BY <2>1, <3>1
    <3> QED  BY <1>5, <2>1, <3>1, <3>2, <3>3 DEF Laid
  <2>2. CASE i = index + 1
    <3>1. start'[i] = start[index] + buf[index].len  BY <1>6, <2>2
    <3>2. start'[i] <= i * OffsetSpace  BY <1>2, <2>2, <3>1, ShardAssumption
    <3>3. start'[i] = start'[i - 1] + buf[i - 1].len
      <4>1. i - 1 = index /\ index \in 0..index  BY <1>2, <2>2
      <4> QED  BY <1>4, <3>1, <4>1
    <3>4. ASSUME NEW j \in 0..(i - 1) PROVE start'[j] + buf[j].len <= start'[i]
      <4>1. j \in 0..index /\ start'[j] = start[j]  BY <1>2, <1>4, <2>2
      <4>2. CASE j = index  BY <1>2, <3>1, <4>1, <4>2
      <4>3. CASE j # index
        <5>1. j \in 0..(index - 1) /\ j \in Shards /\ j \in 0..ShardCount
          BY <1>1, <1>2, <4>1, <4>3, ShardAssumption DEF Shards
        <5>2. start[j] + buf[j].len <= start[index]
          BY <1>1, <1>2, <1>5, <5>1 DEF Laid
        <5>3. buf[j].len \in Nat /\ start[j] \in Nat
          BY <1>3, <5>1, BufferFields DEF InternInv, TypeOK
        <5> QED  BY <1>2, <3>1, <4>1, <5>2, <5>3
      <4> QED  BY <4>2, <4>3
    <3>5. ASSUME start'[i] = i * OffsetSpace, NEW j \in 0..(i - 1) PROVE buf[j].len = OffsetSpace
      <4>1. start[index] = index * OffsetSpace /\ buf[index].len = OffsetSpace
        <5>1. i * OffsetSpace = index * OffsetSpace + OffsetSpace  BY <1>2, <2>2
        <5>2. start[index] + buf[index].len = index * OffsetSpace + OffsetSpace
          BY <3>1, <3>5, <5>1
        <5>3. PICK x \in Nat : x = index * OffsetSpace  BY <1>2
        <5>4. start[index] \in Nat /\ start[index] <= x /\ buf[index].len \in 0..OffsetSpace
          BY <1>2, <5>3
        <5>5. start[index] + buf[index].len = x + OffsetSpace  BY <5>2, <5>3
        <5>6. start[index] = x /\ buf[index].len = OffsetSpace  BY <5>4, <5>5, ShardAssumption
        <5> QED  BY <5>3, <5>6
      <4>2. j = index \/ j \in 0..(index - 1)  BY <1>2, <2>2
      <4> QED  BY <1>1, <1>2, <1>5, <4>1, <4>2 DEF Laid
    <3> QED  BY <3>2, <3>3, <3>4, <3>5
  <2> QED  BY <1>2, <2>1, <2>2
<1>8. start'[0] = 0  BY <1>2, <1>4, <1>5
<1> QED  BY <1>1, <1>5, <1>7, <1>8 DEF LayoutInv, AbortsOnlyWhenExhausted

LEMMA OverflowLayout == ASSUME InternInv, LayoutInv, OffsetOverflows PROVE LayoutInv'
<1>1. /\ phase = "offsets" /\ phase' = "aborted" /\ index < ShardCount /\ Sum >= HandleSpace
      /\ UNCHANGED <<buf, poisoned, index, start, merged>>
  BY DEF OffsetOverflows, internVars
<1>2. /\ index \in Shards /\ index \in Nat
      /\ start[index] \in Nat /\ buf[index].len \in 0..OffsetSpace /\ Sum = start[index] + buf[index].len
      /\ start[index] <= index * OffsetSpace /\ index * OffsetSpace \in Nat
      /\ (index + 1) * OffsetSpace = index * OffsetSpace + OffsetSpace
  BY <1>1, SumBound
<1>3. index + 1 = ShardCount
  <2> SUFFICES ASSUME index + 1 < ShardCount PROVE FALSE
    BY <1>1, <1>2, ShardAssumption
  <2>1. (index + 1) * OffsetSpace + OffsetSpace <= HandleSpace
    BY <1>2, ShardAssumption, Row DEF HandleSpace
  <2> QED  BY <1>1, <1>2, <2>1, ShardAssumption, Sizes
<1>4. HandleSpace = index * OffsetSpace + OffsetSpace
  BY <1>2, <1>3 DEF HandleSpace
<1>5. start[index] = index * OffsetSpace /\ buf[index].len = OffsetSpace
  BY <1>1, <1>2, <1>4, ShardAssumption
<1>6. \A j \in 0..(index - 1) : buf[j].len = OffsetSpace
  BY <1>1, <1>2, <1>5 DEF LayoutInv, Laid
<1>7. \A i \in Shards : buf[i].len = OffsetSpace
  <2> SUFFICES ASSUME NEW i \in Shards PROVE buf[i].len = OffsetSpace
    OBVIOUS
  <2>1. i = index \/ i \in 0..(index - 1)  BY <1>2, <1>3, ShardAssumption DEF Shards
  <2> QED  BY <1>5, <1>6, <2>1
<1> QED  BY <1>1, <1>7 DEF LayoutInv, AbortsOnlyWhenExhausted

LEMMA DoneLayout == ASSUME InternInv, LayoutInv, OffsetsDone \/ MergeDone PROVE LayoutInv'
<1>1. CASE OffsetsDone
  <2>1. /\ phase = "offsets" /\ phase' = "merging" /\ index = ShardCount /\ index' = 0
        /\ UNCHANGED <<buf, poisoned, start, merged>>
    BY <1>1 DEF OffsetsDone, internVars
  <2>2. Laid(ShardCount) /\ merged = EmptyBuffer  BY <2>1 DEF LayoutInv
  <2>3. MergedUpTo(index)'  BY <2>1, <2>2 DEF MergedUpTo, EmptyBuffer
  <2>4. Laid(ShardCount)'  BY <2>1, <2>2 DEF Laid
  <2> QED  BY <2>1, <2>3, <2>4 DEF LayoutInv, AbortsOnlyWhenExhausted
<1>2. CASE MergeDone
  <2>1. /\ phase = "merging" /\ phase' = "frozen" /\ index = ShardCount
        /\ UNCHANGED <<buf, poisoned, index, start, merged>>
    BY <1>2 DEF MergeDone, internVars
  <2> QED
    BY <2>1 DEF LayoutInv, AbortsOnlyWhenExhausted, Laid, MergedUpTo, Moved
<1> QED  BY <1>1, <1>2

\* The buffer merged so far is as long as the start of the next shard says.
LEMMA MergedLength ==
  ASSUME InternInv, LayoutInv, phase = "merging", index < ShardCount
  PROVE  merged.len = start[index]
<1>1. index \in Nat /\ index \in 0..ShardCount  BY ShardAssumption DEF InternInv, TypeOK
<1>2. Laid(ShardCount) /\ MergedUpTo(index) /\ start[0] = 0  BY DEF LayoutInv
<1>3. CASE index = 0  BY <1>2, <1>3 DEF MergedUpTo
<1>4. CASE index > 0
  <2>1. start[index] = start[index - 1] + buf[index - 1].len
    BY <1>1, <1>2, <1>4 DEF Laid
  <2> QED  BY <1>2, <1>4, <2>1 DEF MergedUpTo
<1> QED  BY <1>1, <1>3, <1>4

LEMMA MergeLayout == ASSUME InternInv, LayoutInv, Merge PROVE LayoutInv'
<1>1. PICK k : k = index
  OBVIOUS
<1>2. /\ phase = "merging" /\ k < ShardCount /\ index' = k + 1
      /\ merged' = [len |-> merged.len + buf[k].len,
                    records |-> merged.records \cup {<<r[1], merged.len + r[2]>> : r \in buf[k].records}]
      /\ UNCHANGED <<buf, poisoned, phase, start>>
  BY <1>1 DEF Merge, internVars
<1>3. k \in Nat  BY <1>1, ShardAssumption DEF InternInv, TypeOK
<1>4. Laid(ShardCount) /\ MergedUpTo(k)  BY <1>1, <1>2 DEF LayoutInv
<1>5. merged.len = start[k]  BY <1>1, <1>2, MergedLength
<1>6. merged'.len = start[k] + buf[k].len  BY <1>2, <1>5
<1>7. merged'.records = merged.records \cup {<<q[1], start[k] + q[2]>> : q \in buf[k].records}
  BY <1>2, <1>5
<1>8. ASSUME NEW r PROVE r \in merged'.records <=> \E i \in 0..k : Moved(i, r)
  <2>1. r \in merged'.records <=> r \in merged.records \/ Moved(k, r)
    BY <1>7 DEF Moved
  <2>2. \A i : i \in 0..k <=> i \in 0..(k - 1) \/ i = k
    BY <1>3
  <2>3. r \in merged.records <=> \E i \in 0..(k - 1) : Moved(i, r)
    BY <1>4 DEF MergedUpTo
  <2> QED  BY <2>1, <2>2, <2>3
<1>9. MergedUpTo(index)'
  <2>1. index' # 0 /\ index' - 1 = k  BY <1>2, <1>3
  <2>2. \A i, r : Moved(i, r)' <=> Moved(i, r)  BY <1>2 DEF Moved
  <2>3. \A r : r \in merged'.records <=> \E i \in 0..(index' - 1) : Moved(i, r)'
    BY <1>8, <2>1, <2>2
  <2>4. merged'.len = IF index' = 0 THEN 0 ELSE start'[index' - 1] + buf'[index' - 1].len
    BY <1>2, <1>6, <2>1
  <2> QED  BY <2>3, <2>4 DEF MergedUpTo
<1>10. Laid(ShardCount)'  BY <1>2, <1>4 DEF Laid
<1> QED  BY <1>2, <1>9, <1>10 DEF LayoutInv, AbortsOnlyWhenExhausted

LEMMA AlwaysLayout == Spec => [](InternInv /\ LayoutInv)
<1>1. InternInv /\ LayoutInv /\ [Next]_vars => LayoutInv'
  <2> SUFFICES ASSUME InternInv, LayoutInv, [Next]_vars PROVE LayoutInv'
    OBVIOUS
  <2>1. CASE UNCHANGED vars
    BY <2>1 DEF vars, internVars, compactVars, LayoutInv, AbortsOnlyWhenExhausted, Laid, MergedUpTo, Moved
  <2> QED
    BY <2>1, InternLayout, StartLayout, AddOffsetLayout, OverflowLayout, DoneLayout, MergeLayout
    DEF Next, CompactStep
<1> QED  BY InitLayout, <1>1, AlwaysIntern, PTL DEF Spec

-----------------------------------------------------------------------------
(* What compact yields. *)

\* A frozen record is the record of one shard, moved by that shard's start.
LEMMA FrozenRecord ==
  ASSUME InternInv, LayoutInv, phase = "frozen"
  PROVE  \A r : r \in merged.records <=> \E i \in Shards : Moved(i, r)
<1>1. index = ShardCount /\ MergedUpTo(index)  BY DEF LayoutInv
<1> QED  BY <1>1 DEF MergedUpTo, Shards

\* Where the shards lie in the frozen buffer.
LEMMA ShardsApart ==
  ASSUME InternInv, LayoutInv, phase = "frozen", NEW i \in Shards
  PROVE  /\ start[i] \in Nat /\ buf[i].len \in Nat /\ merged.len \in Nat
         /\ start[i] + buf[i].len <= merged.len
         /\ \A j \in Shards : j < i => start[j] + buf[j].len <= start[i]
<1>1. index = ShardCount /\ MergedUpTo(index) /\ Laid(ShardCount)  BY DEF LayoutInv
<1>2. \A j \in Shards : j \in Nat /\ j \in 0..ShardCount /\ j < ShardCount
  BY ShardAssumption DEF Shards
<1>3. \A j \in Shards : start[j] \in Nat /\ buf[j].len \in Nat
  BY <1>2, BufferFields DEF InternInv, TypeOK
<1>4. \A j \in Shards : j < i => start[j] + buf[j].len <= start[i]
  BY <1>1, <1>2 DEF Laid
<1>5. PICK n \in Shards : n = ShardCount - 1  BY ShardAssumption DEF Shards
<1>6. merged.len = start[n] + buf[n].len
  BY <1>1, <1>5, ShardAssumption DEF MergedUpTo
<1>7. start[i] + buf[i].len <= merged.len
  <2>1. CASE i = n  BY <1>3, <1>6, <2>1
  <2>2. CASE i # n
    <3>1. i < n  BY <1>2, <1>5, <2>2, ShardAssumption DEF Shards
    <3>2. start[i] + buf[i].len <= start[n]
      BY <1>1, <1>2, <3>1 DEF Laid
    <3> QED  BY <1>3, <1>6, <3>2
  <2> QED  BY <2>1, <2>2
<1> QED  BY <1>3, <1>4, <1>6, <1>7

\* A moved record, with the bounds that its shard puts on it.
LEMMA MovedBounds ==
  ASSUME InternInv, LayoutInv, phase = "frozen", NEW i \in Shards, NEW r, Moved(i, r)
  PROVE  \E q \in buf[i].records :
           /\ r[1] = q[1] /\ r[2] = start[i] + q[2] /\ r = <<r[1], r[2]>>
           /\ q = <<q[1], q[2]>> /\ q[2] \in Nat /\ Bytes(r[1]) \in Nat \ {0}
           /\ q[2] + Bytes(r[1]) <= buf[i].len
<1>1. PICK q \in buf[i].records : r = <<q[1], start[i] + q[2]>>
  BY DEF Moved
<1>2. q \in Strings \X Nat  BY BufferFields DEF InternInv, TypeOK
<1>3. Bytes(q[1]) \in Nat \ {0}  BY <1>2, Sizes
<1>4. q[2] + Bytes(q[1]) <= buf[i].len  BY DEF InternInv, ShardInv
<1> QED  BY <1>1, <1>2, <1>3, <1>4

\* The frozen records are apart.
LEMMA FrozenApart ==
  ASSUME InternInv, LayoutInv, phase = "frozen",
         NEW i \in Shards, NEW j \in Shards, NEW r, NEW q, Moved(i, r), Moved(j, q), r # q
  PROVE  r[2] + Bytes(r[1]) <= q[2] \/ q[2] + Bytes(q[1]) <= r[2]
<1>1. PICK u \in buf[i].records :
        /\ r[1] = u[1] /\ r[2] = start[i] + u[2] /\ r = <<r[1], r[2]>>
        /\ u = <<u[1], u[2]>> /\ u[2] \in Nat /\ Bytes(r[1]) \in Nat \ {0}
        /\ u[2] + Bytes(r[1]) <= buf[i].len
  BY MovedBounds
<1>2. PICK w \in buf[j].records :
        /\ q[1] = w[1] /\ q[2] = start[j] + w[2] /\ q = <<q[1], q[2]>>
        /\ w = <<w[1], w[2]>> /\ w[2] \in Nat /\ Bytes(q[1]) \in Nat \ {0}
        /\ w[2] + Bytes(q[1]) <= buf[j].len
  BY MovedBounds
<1>3. start[i] \in Nat /\ start[j] \in Nat /\ buf[i].len \in Nat /\ buf[j].len \in Nat
  BY ShardsApart
<1>4. CASE i = j
  <2>1. u # w  BY <1>1, <1>2, <1>4
  <2>2. Apart(u, w)  BY <1>4, <2>1 DEF InternInv, ShardInv
  <2>3. u[2] + Bytes(r[1]) <= w[2] \/ w[2] + Bytes(q[1]) <= u[2]
    BY <1>1, <1>2, <2>2 DEF Apart
  <2> QED  BY <1>1, <1>2, <1>3, <1>4, <2>3
<1>5. CASE i < j
  <2>1. start[i] + buf[i].len <= start[j]  BY <1>5, ShardsApart
  <2> QED  BY <1>1, <1>2, <1>3, <2>1
<1>6. CASE j < i
  <2>1. start[j] + buf[j].len <= start[i]  BY <1>6, ShardsApart
  <2> QED  BY <1>1, <1>2, <1>3, <2>1
<1>7. i < j \/ i = j \/ j < i  BY ShardAssumption DEF Shards
<1> QED  BY <1>4, <1>5, <1>6, <1>7

(* StringInterner!FrozenRecordsDisjoint, for any threads, strings and shards: *)
(* the records of the frozen buffer lie within it and none overlaps another.  *)
THEOREM FrozenRecordsDisjointHolds == Spec => []FrozenRecordsDisjoint
<1>1. InternInv /\ LayoutInv => FrozenRecordsDisjoint
  <2> SUFFICES ASSUME InternInv, LayoutInv, phase = "frozen", NEW r \in merged.records
               PROVE  /\ r[2] + Bytes(r[1]) <= merged.len
                      /\ \A q \in merged.records :
                           q # r => r[2] + Bytes(r[1]) <= q[2] \/ q[2] + Bytes(q[1]) <= r[2]
    BY DEF FrozenRecordsDisjoint
  <2>1. PICK i \in Shards : Moved(i, r)  BY FrozenRecord
  <2>2. r[2] + Bytes(r[1]) <= merged.len
    <3>1. PICK u \in buf[i].records :
            /\ r[2] = start[i] + u[2] /\ u[2] \in Nat /\ Bytes(r[1]) \in Nat \ {0}
            /\ u[2] + Bytes(r[1]) <= buf[i].len
      BY <2>1, MovedBounds
    <3>2. start[i] \in Nat /\ buf[i].len \in Nat /\ merged.len \in Nat
          /\ start[i] + buf[i].len <= merged.len
      BY ShardsApart
    <3> QED  BY <3>1, <3>2
  <2>3. ASSUME NEW q \in merged.records, q # r
        PROVE  r[2] + Bytes(r[1]) <= q[2] \/ q[2] + Bytes(q[1]) <= r[2]
    <3>1. PICK j \in Shards : Moved(j, q)  BY FrozenRecord
    <3> QED  BY <2>1, <2>3, <3>1, FrozenApart
  <2> QED  BY <2>2, <2>3
<1> QED  BY <1>1, AlwaysLayout, PTL

\* The record of an answer is where the remapped handle points.
LEMMA RemapFinds ==
  ASSUME InternInv, LayoutInv, phase = "frozen", NEW p \in answers
  PROVE  <<p[1], Remap(p[2])>> \in merged.records
<1>1. PICK o \in 0..(OffsetSpace - 1) :
        /\ ShardOf[p[1]] \in Shards /\ <<p[1], o>> \in buf[ShardOf[p[1]]].records
        /\ p[2] = ShardOf[p[1]] * OffsetSpace + o
  BY RecordOf
<1>2. PICK i \in Nat : i = ShardOf[p[1]]  BY <1>1 DEF Shards
<1>3. (i * OffsetSpace + o) \div OffsetSpace = i /\ (i * OffsetSpace + o) % OffsetSpace = o
  BY DivMod, ShardAssumption
<1>4. Remap(p[2]) = start[i] + o  BY <1>1, <1>2, <1>3 DEF Remap
<1>5. Moved(i, <<p[1], start[i] + o>>)
  <2>1. <<p[1], o>>[1] = p[1] /\ <<p[1], o>>[2] = o  OBVIOUS
  <2> QED  BY <1>1, <1>2, <2>1 DEF Moved
<1> QED  BY <1>1, <1>2, <1>4, <1>5, FrozenRecord

(* StringInterner!RemappedHandlesResolve, for any threads, strings and        *)
(* shards: every handle ever returned resolves, once frozen, to its string.   *)
THEOREM RemappedHandlesResolveHolds == Spec => []RemappedHandlesResolve
<1>1. InternInv /\ LayoutInv => RemappedHandlesResolve
  <2> SUFFICES ASSUME InternInv, LayoutInv, phase = "frozen", NEW p \in answers
               PROVE  Resolve(Remap(p[2])) = p[1]
    BY DEF RemappedHandlesResolve
  <2>1. PICK g : g = Remap(p[2])
    OBVIOUS
  <2>2. PICK x : x = <<p[1], g>>
    OBVIOUS
  <2>3. x \in merged.records /\ x[1] = p[1] /\ x[2] = g
    BY <2>1, <2>2, RemapFinds
  <2>4. \A r \in merged.records : r[2] = g => r = x
    <3> SUFFICES ASSUME NEW r \in merged.records, r[2] = g, r # x PROVE FALSE
      OBVIOUS
    <3>1. PICK i \in Shards : Moved(i, r)  BY FrozenRecord
    <3>2. PICK j \in Shards : Moved(j, x)  BY <2>3, FrozenRecord
    <3>3. r[2] \in Nat /\ Bytes(r[1]) \in Nat \ {0}
      BY <3>1, MovedBounds, ShardsApart
    <3>4. x[2] \in Nat /\ Bytes(x[1]) \in Nat \ {0}
      BY <3>2, MovedBounds, ShardsApart
    <3>5. r[2] + Bytes(r[1]) <= x[2] \/ x[2] + Bytes(x[1]) <= r[2]
      BY <3>1, <3>2, FrozenApart
    <3> QED  BY <2>3, <3>3, <3>4, <3>5
  <2>5. (CHOOSE r \in merged.records : r[2] = g) = x
    BY <2>3, <2>4
  <2> QED  BY <2>1, <2>3, <2>5 DEF Resolve
<1> QED  BY <1>1, AlwaysLayout, PTL

(* StringInterner!AbortsOnlyWhenExhausted, for any threads, strings and       *)
(* shards: a prefix sum overflows only when every shard is full.              *)
THEOREM AbortsOnlyWhenExhaustedHolds == Spec => []AbortsOnlyWhenExhausted
<1>1. LayoutInv => AbortsOnlyWhenExhausted  BY DEF LayoutInv
<1> QED  BY <1>1, AlwaysLayout, PTL

-----------------------------------------------------------------------------
(* A shard is poisoned by the thread that holds it, and nobody enters it      *)
(* again, so it keeps having no room for the string that poisoned it.         *)

PanicInv ==
  /\ PanicsOnlyWhenFull
  /\ \A t \in Threads : pc[t] \in Inside => ~poisoned[MyShard(t)]

\* A step leaves a shard as it is when it is not taken inside it.
LEMMA QuietShard ==
  ASSUME InternInv, NEW i \in Shards, poisoned[i], UNCHANGED <<poisoned, compactVars>>,
         PanicInv, dedup'[i] = dedup[i], buf'[i] = buf[i]
  PROVE  \E s \in Strings : ShardOf[s] = i /\ ~Known(s)' /\ ~Fits(s)'
<1>1. PICK s \in Strings : ShardOf[s] = i /\ ~Known(s) /\ ~Fits(s)
  BY DEF PanicInv, PanicsOnlyWhenFull
<1> QED  BY <1>1 DEF Known, Fits

LEMMA PanicStep ==
  ASSUME InternInv, PanicInv, NEW t \in Threads, InternStep(t) \/ \E s \in Strings : Intern(t, s)
  PROVE  PanicInv'
<1>1. TypeOK /\ TypeOK'  BY InternType DEF InternInv
<1>2. ASSUME NEW u \in Threads \ {t} PROVE pc'[u] = pc[u] /\ arg'[u] = arg[u] /\ MyShard(u)' = MyShard(u)
  BY <1>1
  DEF InternStep, Holding, Intern, Lock, LockPoisoned, Hit, Miss, Full, AppendRecord, InsertDedup, Unlock,
      TypeOK, MyShard
<1>3. CASE Full(t)
  <2>1. PICK m \in Shards : m = MyShard(t) /\ m = ShardOf[arg[t]] /\ arg[t] \in Strings /\ pc[t] = "lookup"
    BY <1>1, <1>3, HeldType DEF Full
  <2>2. /\ UNCHANGED <<buf, dedup, arg>> /\ pc'[t] = "panicked" /\ MyShard(t)' = m
        /\ poisoned' = [poisoned EXCEPT ![m] = TRUE] /\ ~Known(arg[t]) /\ ~Fits(arg[t])
    BY <1>1, <1>3, <2>1 DEF Full, TypeOK, MyShard
  <2>3. poisoned'[m] /\ \A i \in Shards : i # m => poisoned'[i] = poisoned[i]
    BY <1>1, <2>1, <2>2 DEF TypeOK
  <2>4. \A s : Known(s)' = Known(s) /\ Fits(s)' = Fits(s)  BY <2>2 DEF Known, Fits
  <2>5. ASSUME NEW u \in Threads \ {t}, pc[u] # "idle" PROVE MyShard(u) \in Shards
    BY <1>1, <2>5, HeldType
  <2>6. ASSUME NEW u \in Threads, pc'[u] = "panicked" PROVE poisoned'[MyShard(u)']
    BY <1>2, <2>2, <2>3, <2>5, <2>6 DEF PanicInv, PanicsOnlyWhenFull
  <2>7. ASSUME NEW i \in Shards, poisoned'[i]
        PROVE  \E s \in Strings : ShardOf[s] = i /\ ~Known(s)' /\ ~Fits(s)'
    <3>1. CASE i = m  BY <2>1, <2>2, <2>4, <3>1
    <3>2. CASE i # m
      <4>1. PICK s \in Strings : ShardOf[s] = i /\ ~Known(s) /\ ~Fits(s)
        BY <2>3, <2>7, <3>2 DEF PanicInv, PanicsOnlyWhenFull
      <4> QED  BY <2>4, <4>1
    <3> QED  BY <3>1, <3>2
  <2>8. ASSUME NEW u \in Threads, pc'[u] \in Inside PROVE ~poisoned'[MyShard(u)']
    <3>1. u # t /\ pc[u] \in Inside  BY <1>2, <2>2, <2>8 DEF Inside
    <3>2. MyShard(u) # m /\ MyShard(u) \in Shards
      BY <2>1, <2>5, <3>1, Exclusive DEF Inside
    <3> QED  BY <1>2, <2>3, <3>1, <3>2 DEF PanicInv
  <2>9. PanicsOnlyWhenFull'  BY <2>6, <2>7 DEF PanicsOnlyWhenFull
  <2> QED  BY <2>8, <2>9 DEF PanicInv
<1>4. CASE ~Full(t)
  <2>1. UNCHANGED <<poisoned, compactVars>>
    BY <1>4
    DEF InternStep, Holding, Intern, Lock, LockPoisoned, Hit, Miss, AppendRecord, InsertDedup, Unlock
  <2>2. /\ pc'[t] = "panicked" => poisoned[MyShard(t)] /\ MyShard(t)' = MyShard(t)
        /\ pc'[t] \in Inside => ~poisoned[MyShard(t)] /\ MyShard(t)' = MyShard(t)
    BY <1>1, <1>4
    DEF InternStep, Holding, Intern, Lock, LockPoisoned, Hit, Miss, AppendRecord, InsertDedup, Unlock,
        TypeOK, MyShard, PanicInv, Inside
  <2>3. ASSUME NEW i \in Shards, poisoned[i] PROVE dedup'[i] = dedup[i] /\ buf'[i] = buf[i]
    <3>1. CASE AppendRecord(t) \/ InsertDedup(t)
      <4>1. pc[t] \in Inside  BY <3>1 DEF AppendRecord, InsertDedup, Inside
      <4>2. MyShard(t) # i  BY <2>3, <4>1 DEF PanicInv
      <4> QED  BY <1>1, <3>1, <4>2 DEF AppendRecord, InsertDedup, TypeOK
    <3>2. CASE ~(AppendRecord(t) \/ InsertDedup(t))
      BY <1>4, <3>2 DEF InternStep, Holding, Intern, Lock, LockPoisoned, Hit, Miss, Unlock
    <3> QED  BY <3>1, <3>2
  <2>4. ASSUME NEW i \in Shards, poisoned'[i]
        PROVE  \E s \in Strings : ShardOf[s] = i /\ ~Known(s)' /\ ~Fits(s)'
    BY <2>1, <2>3, <2>4, QuietShard
  <2>5. ASSUME NEW u \in Threads
        PROVE  /\ pc'[u] = "panicked" => poisoned'[MyShard(u)']
               /\ pc'[u] \in Inside => ~poisoned'[MyShard(u)']
    BY <1>2, <2>1, <2>2 DEF PanicInv, PanicsOnlyWhenFull
  <2>6. PanicsOnlyWhenFull'  BY <2>4, <2>5 DEF PanicsOnlyWhenFull
  <2> QED  BY <2>5, <2>6 DEF PanicInv
<1> QED  BY <1>3, <1>4

(* StringInterner!PanicsOnlyWhenFull, for any threads, strings and shards: a  *)
(* panic is confined to a shard with no room for some string.                 *)
THEOREM PanicsOnlyWhenFullHolds == Spec => []PanicsOnlyWhenFull
<1>1. Init => PanicInv  BY DEF Init, PanicInv, PanicsOnlyWhenFull, Inside
<1>2. ASSUME InternInv, PanicInv, [Next]_vars PROVE PanicInv'
  <2>1. CASE UNCHANGED internVars
    BY <1>2, <2>1 DEF internVars, PanicInv, PanicsOnlyWhenFull, MyShard, Known, Fits
  <2>2. CASE \E t \in Threads : InternStep(t) \/ \E s \in Strings : Intern(t, s)
    BY <1>2, <2>2, PanicStep
  <2>3. CASE Compact \/ CompactStep \/ UNCHANGED vars
    <3>1. UNCHANGED internVars
      BY <2>3 DEF vars, Compact, CompactStep, AddOffset, OffsetOverflows, OffsetsDone, Merge, MergeDone
    <3> QED  BY <2>1, <3>1
  <2> QED  BY <1>2, <2>2, <2>3 DEF Next
<1>3. InternInv /\ PanicInv /\ [Next]_vars => PanicInv'  BY <1>2
<1>4. PanicInv => PanicsOnlyWhenFull  BY DEF PanicInv
<1> QED  BY <1>1, <1>3, <1>4, AlwaysIntern, PTL DEF Spec

-----------------------------------------------------------------------------
(* The interner implements the table of handles.                              *)

TableOf == UNION {{<<p[1], EncodeHandle(i, p[2])>> : p \in dedup[i]} : i \in Shards}
ResolutionOf == IF phase = "frozen" THEN {<<Resolve(Remap(p[2])), p[2]>> : p \in answers} ELSE {}

\* The entries of the table, shard by shard.
LEMMA InTable ==
  \A x : x \in TableOf <=> \E i \in Shards : \E p \in dedup[i] : x = <<p[1], EncodeHandle(i, p[2])>>
  BY DEF TableOf

\* An entry of a map: where its record is, and what its handle is.
LEMMA EntryBounds ==
  ASSUME InternInv, NEW i \in Shards, NEW p \in buf[i].records
  PROVE  /\ p[1] \in Strings /\ p[2] \in 0..(OffsetSpace - 1) /\ ShardOf[p[1]] = i /\ p = <<p[1], p[2]>>
         /\ EncodeHandle(i, p[2]) \in 0..(HandleSpace - 1)
<1>1. p \in Strings \X Nat /\ buf[i].len \in Nat
  BY BufferFields DEF InternInv, TypeOK
<1>2. ShardOf[p[1]] = i /\ p[2] + Bytes(p[1]) <= buf[i].len /\ buf[i].len <= OffsetSpace
  BY DEF InternInv, ShardInv
<1>3. p[2] \in 0..(OffsetSpace - 1)
  BY <1>1, <1>2, Sizes, ShardAssumption
<1>4. i * OffsetSpace + OffsetSpace <= HandleSpace /\ i * OffsetSpace \in Nat
  BY ShardAssumption, Row DEF Shards, HandleSpace
<1>5. EncodeHandle(i, p[2]) \in 0..(HandleSpace - 1)
  <2>1. PICK x \in Nat : x = i * OffsetSpace  BY <1>4
  <2>2. x + OffsetSpace <= HandleSpace  BY <1>4, <2>1
  <2>3. x + p[2] \in 0..(HandleSpace - 1)  BY <1>3, <2>2, ShardAssumption, Sizes
  <2> QED  BY <2>1, <2>3 DEF EncodeHandle
<1> QED  BY <1>1, <1>2, <1>3, <1>5

\* A step outside the map insertions and the answers is no step of the table.
LEMMA TableStutters ==
  ASSUME UNCHANGED <<dedup, answers>>, phase # "frozen", phase' # "frozen"
  PROVE  UNCHANGED <<TableOf, answers, ResolutionOf>>
  BY DEF TableOf, ResolutionOf

LEMMA InsertAssigns ==
  ASSUME InternInv, NEW t \in Threads, InsertDedup(t)
  PROVE  \E s \in Strings, h \in 0..(HandleSpace - 1) :
           /\ \A p \in TableOf : p[1] # s /\ p[2] # h
           /\ TableOf' = TableOf \cup {<<s, h>>}
           /\ UNCHANGED answers
<1>1. TypeOK  BY DEF InternInv
<1>2. pc[t] = "insert"  BY DEF InsertDedup
<1>3. PICK m \in Shards, s \in Strings, o \in Nat :
        m = MyShard(t) /\ m = ShardOf[s] /\ s = arg[t] /\ o = offset[t]
  BY <1>1, <1>2, HeldType DEF TypeOK
<1>4. PICK r0 : r0 = <<s, o>>
  OBVIOUS
<1>5. r0 \in buf[m].records /\ ~Known(s) /\ r0[1] = s /\ r0[2] = o
  BY <1>2, <1>3, <1>4 DEF InternInv, ThreadInv
<1>6. dedup' = [dedup EXCEPT ![m] = @ \cup {r0}] /\ UNCHANGED answers
  BY <1>3, <1>4 DEF InsertDedup
<1>7. PICK h \in 0..(HandleSpace - 1) : h = EncodeHandle(m, o)
  BY <1>5, EntryBounds
<1>8. ASSUME NEW x \in TableOf PROVE x[1] # s /\ x[2] # h
  <2>0. PICK i \in Shards : \E p \in dedup[i] : x = <<p[1], EncodeHandle(i, p[2])>>
    BY InTable
  <2>1. PICK p \in dedup[i] : x = <<p[1], EncodeHandle(i, p[2])>>
    BY <2>0
  <2>2. p \in buf[i].records  BY <2>1 DEF InternInv, ShardInv
  <2>3. p[1] \in Strings /\ p[2] \in 0..(OffsetSpace - 1) /\ ShardOf[p[1]] = i
    BY <2>2, EntryBounds
  <2>4. x[1] = p[1] /\ x[2] = EncodeHandle(i, p[2])  BY <2>1
  <2>5. p[1] # s  BY <1>5, <2>1, <2>3 DEF Known
  <2>6. ASSUME x[2] = h PROVE FALSE
    <3>1. i \in Int /\ m \in Int  BY DEF Shards
    <3>2. o \in 0..(OffsetSpace - 1)  BY <1>5, EntryBounds
    <3>3. i * OffsetSpace + p[2] = m * OffsetSpace + o
      BY <1>7, <2>4, <2>6 DEF EncodeHandle
    <3>4. i = m /\ p[2] = o  BY <2>3, <3>1, <3>2, <3>3, Unique, ShardAssumption
    <3>5. p = r0  BY <1>5, <2>2, <3>4, RecordsDiffer
    <3> QED  BY <1>5, <2>5, <3>5
  <2> QED  BY <2>4, <2>5, <2>6
<1>9. TableOf' = TableOf \cup {<<s, h>>}
  <2>1. dedup'[m] = dedup[m] \cup {r0} /\ \A i \in Shards : i # m => dedup'[i] = dedup[i]
    BY <1>1, <1>6 DEF TypeOK
  <2>2. \A x : x \in TableOf' <=> \E i \in Shards : \E p \in dedup'[i] : x = <<p[1], EncodeHandle(i, p[2])>>
    BY DEF TableOf
  <2>3. <<r0[1], EncodeHandle(m, r0[2])>> = <<s, h>>  BY <1>5, <1>7
  <2>4. \A x : x \in TableOf' => x \in TableOf \/ x = <<s, h>>
    BY <2>1, <2>2, <2>3, InTable
  <2>5. \A x : x \in TableOf \/ x = <<s, h>> => x \in TableOf'
    BY <2>1, <2>2, <2>3, InTable
  <2> QED  BY <2>4, <2>5
<1> QED  BY <1>6, <1>8, <1>9

LEMMA UnlockAnswers ==
  ASSUME InternInv, NEW t \in Threads, Unlock(t)
  PROVE  \E p \in TableOf : answers' = answers \cup {p} /\ UNCHANGED TableOf
<1>1. pc[t] = "unlock" /\ TypeOK  BY DEF Unlock, InternInv
<1>2. <<arg[t], offset[t]>> \in dedup[MyShard(t)] /\ MyShard(t) \in Shards
  BY <1>1, HeldType DEF InternInv, ThreadInv
<1>3. PICK q : q = <<arg[t], offset[t]>>
  OBVIOUS
<1>4. q \in dedup[MyShard(t)] /\ q[1] = arg[t] /\ q[2] = offset[t]  BY <1>2, <1>3
<1>5. <<arg[t], EncodeHandle(MyShard(t), offset[t])>> \in TableOf
  BY <1>2, <1>4, InTable
<1>6. UNCHANGED dedup /\ answers' = answers \cup {<<arg[t], EncodeHandle(MyShard(t), offset[t])>>}
  BY DEF Unlock
<1>7. UNCHANGED TableOf  BY <1>6 DEF TableOf
<1> QED  BY <1>5, <1>6, <1>7

LEMMA MergeDoneFreezes ==
  ASSUME InternInv, RemappedHandlesResolve', MergeDone
  PROVE  ResolutionOf' = answers /\ UNCHANGED <<TableOf, answers>>
<1>1. UNCHANGED <<dedup, answers>> /\ phase' = "frozen"  BY DEF MergeDone, internVars
<1>2. \A p \in answers : p = <<p[1], p[2]>>  BY DEF InternInv, TypeOK
<1>3. \A p \in answers' : Resolve(Remap(p[2]))' = p[1]
  BY <1>1 DEF RemappedHandlesResolve
<1>4. ResolutionOf' = {<<Resolve(Remap(p[2]))', p[2]>> : p \in answers'}
  BY <1>1 DEF ResolutionOf
<1>5. ResolutionOf' = answers  BY <1>1, <1>2, <1>3, <1>4
<1> QED  BY <1>1, <1>5 DEF TableOf

LEMMA NextImplements ==
  ASSUME InternInv, RemappedHandlesResolve', phase # "frozen" \/ UNCHANGED vars, [Next]_vars
  PROVE  [Table!Next]_(Table!vars)
<1> USE DEF Table!Next, Table!vars, Table!Assign, Table!Answer, Table!Freeze, TableOf, ResolutionOf
<1>1. CASE UNCHANGED vars
  <2>1. UNCHANGED <<dedup, answers, phase, start, merged>>  BY <1>1 DEF vars, internVars, compactVars
  <2>2. UNCHANGED <<TableOf, answers, ResolutionOf>>  BY <2>1 DEF Resolve, Remap
  <2> QED  BY <2>2
<1>2. ASSUME NEW t \in Threads, InsertDedup(t), phase # "frozen" PROVE [Table!Next]_(Table!vars)
  <2>1. phase' # "frozen"  BY <1>2 DEF InsertDedup, compactVars
  <2>2. PICK s \in Strings, h \in 0..(HandleSpace - 1) :
           /\ \A p \in TableOf : p[1] # s /\ p[2] # h
           /\ TableOf' = TableOf \cup {<<s, h>>}
           /\ UNCHANGED answers
    BY <1>2, InsertAssigns
  <2>3. ResolutionOf = {} /\ ResolutionOf' = {}  BY <1>2, <2>1
  <2> QED  BY <2>2, <2>3
<1>3. ASSUME NEW t \in Threads, Unlock(t), phase # "frozen" PROVE [Table!Next]_(Table!vars)
  <2>1. phase' # "frozen"  BY <1>3 DEF Unlock, compactVars
  <2>2. PICK p \in TableOf : answers' = answers \cup {p} /\ UNCHANGED TableOf
    BY <1>3, UnlockAnswers
  <2>3. ResolutionOf = {} /\ ResolutionOf' = {}  BY <1>3, <2>1
  <2> QED  BY <2>2, <2>3
<1>4. CASE MergeDone
  <2>1. ResolutionOf' = answers /\ UNCHANGED <<TableOf, answers>>  BY <1>4, MergeDoneFreezes
  <2> QED  BY <2>1
<1>5. ASSUME phase # "frozen", NEW t \in Threads,
             Lock(t) \/ LockPoisoned(t) \/ Hit(t) \/ Miss(t) \/ Full(t) \/ AppendRecord(t)
               \/ \E s \in Strings : Intern(t, s)
      PROVE  [Table!Next]_(Table!vars)
  <2>1. UNCHANGED <<dedup, answers, phase>>
    BY <1>5 DEF Lock, LockPoisoned, Hit, Miss, Full, AppendRecord, Intern, compactVars
  <2>2. UNCHANGED <<TableOf, answers, ResolutionOf>>  BY <1>5, <2>1, TableStutters
  <2> QED  BY <2>2
<1>6. CASE phase # "frozen" /\ (Compact \/ AddOffset \/ OffsetOverflows \/ OffsetsDone \/ Merge)
  <2>1. UNCHANGED <<dedup, answers>> /\ phase' # "frozen"
    BY <1>6 DEF Compact, AddOffset, OffsetOverflows, OffsetsDone, Merge, internVars
  <2>2. UNCHANGED <<TableOf, answers, ResolutionOf>>  BY <1>6, <2>1, TableStutters
  <2> QED  BY <2>2
<1> QED
  BY <1>1, <1>2, <1>3, <1>4, <1>5, <1>6 DEF Next, InternStep, Holding, CompactStep

\* A frozen interner takes no step.
LEMMA FrozenStops ==
  ASSUME InternInv, phase = "frozen", [Next]_vars
  PROVE  UNCHANGED vars
<1>1. \A t \in Threads : pc[t] \in {"idle", "panicked"}  BY DEF InternInv
<1> QED
  BY <1>1
  DEF Next, InternStep, Holding, CompactStep, Lock, LockPoisoned, Hit, Miss, Full, AppendRecord, InsertDedup,
      Unlock, Intern, Compact, AddOffset, OffsetOverflows, OffsetsDone, Merge, MergeDone

(* StringInterner!ImplementsStringTable, for any threads, strings and shards: *)
(* every step is a step of the table that assigns, answers and resolves, or   *)
(* none.                                                                      *)
THEOREM ImplementsStringTableHolds == Spec => ImplementsStringTable
<1>1. Init => Table!Init
  <2> SUFFICES ASSUME Init PROVE Table!Init
    OBVIOUS
  <2>1. \A i \in Shards : dedup[i] = {}  BY DEF Init
  <2>2. UNION {{<<p[1], EncodeHandle(i, p[2])>> : p \in dedup[i]} : i \in Shards} = {}
    BY <2>1
  <2> QED  BY <2>2 DEF Init, Table!Init
<1>2. InternInv /\ RemappedHandlesResolve' /\ [Next]_vars => [Table!Next]_(Table!vars)
  BY NextImplements, FrozenStops
<1> QED
  BY <1>1, <1>2, AlwaysIntern, RemappedHandlesResolveHolds, PTL DEF Spec, ImplementsStringTable, Table!Spec
=============================================================================
