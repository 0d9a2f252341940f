-------------------------- MODULE SerialBuildProofs --------------------------
(***************************************************************************)
(* Proofs about SerialBuild: rows stay whole when calls do not overlap.    *)
(***************************************************************************)
EXTENDS SerialBuild, MutableGraphProofs, SequenceTheorems

(* The serial build stops before a counter wraps.                           *)
SerialNoWrap == MaxRows < IdSpace

Busy(t) == call[t] # Idle

FrozenQuiet == frozen => \A t \in Callers : ~Busy(t)

OneAtATime == \A t, u \in Callers : Busy(t) /\ Busy(u) => t = u

\* Outside a call of its kind, a column is as long as the counter.
IdleColumnsFull ==
  \A c \in Columns :
    (\A t \in Callers : Busy(t) => call[t].kind # KindOf(c))
      => Len(column[c]) = nextId[KindOf(c)]

\* A call has extended the columns before its step by its own row only.
CallExtends ==
  \A t \in Callers : Busy(t) =>
    /\ nextId[call[t].kind] = call[t].id + 1
    /\ \A c \in ColumnsOf(call[t].kind) :
         IF call[t].step > Rank[c]
         THEN Len(column[c]) = call[t].id + 1 /\ column[c][call[t].id + 1] = call[t].arg[c]
         ELSE Len(column[c]) = call[t].id

\* Every row was added by a call that has returned or is still running.
EveryRowOwned ==
  \A k \in Kinds : \A i \in 1..Len(column[LastColumn(k)]) :
    \/ \E r \in returned : r.kind = k /\ r.id = i - 1
    \/ \E t \in Callers : Busy(t) /\ call[t].kind = k /\ call[t].id = i - 1

(* RowsIntact speaks of finished calls; the step that finishes one keeps it  *)
(* only because the running call's own pushes landed at its identifier.      *)
SerialInv ==
  TypeOK /\ FrozenQuiet /\ OneAtATime /\ IdleColumnsFull /\ CallExtends /\ EveryRowOwned /\ RowsIntact

LEMMA ColumnFacts ==
  /\ \A k \in Kinds : \A c \in ColumnsOf(k) :
       c \in Columns /\ KindOf(c) = k /\ Rank[c] \in Nat /\ Rank[c] <= LastRank(k)
  /\ \A k \in Kinds : LastColumn(k) \in ColumnsOf(k) /\ FirstColumn(k) \in ColumnsOf(k)
  /\ \A c \in Columns : KindOf(c) \in Kinds /\ c \in ColumnsOf(KindOf(c)) /\ Rank[c] \in 1..5
BY DEF Rank, LastRank, KindOf, Kinds, Columns, NodeColumns, EdgeColumns, LastColumn,
       FirstColumn, ColumnsOf

LEMMA SerialIsNext == SerialNext => Next
BY DEF SerialNext, Next, SerialAdd

LEMMA SerialInit == Init => SerialInv
<1> SUFFICES ASSUME Init PROVE SerialInv
  OBVIOUS
<1>1. TypeOK
  BY TypeInit
<1>2. \A t \in Callers : ~Busy(t)
  BY DEF Init, Busy
<1>3. \A c \in Columns : Len(column[c]) = 0 /\ nextId[KindOf(c)] = 0
  BY ColumnFacts DEF Init
<1>4. EveryRowOwned
  BY <1>3, ColumnFacts DEF EveryRowOwned
<1> QED
  BY <1>1, <1>2, <1>3, <1>4 DEF SerialInv, FrozenQuiet, OneAtATime, IdleColumnsFull,
     CallExtends, RowsIntact, Init

LEMMA SerialClaim ==
  ASSUME SerialNoWrap, SerialInv, Quiet,
         NEW t \in Callers, NEW k \in Kinds, NEW a \in ArgsOf(k), Claim(t, k, a)
  PROVE  SerialInv'
<1>1. TypeOK'
  BY TypeStep DEF SerialInv, Next, AddNode, AddEdge, Kinds, ArgsOf
<1>2. \A c \in Columns : Len(column[c]) = nextId[KindOf(c)]
  BY DEF SerialInv, IdleColumnsFull, Quiet, Busy
<1>3. nextId' = [nextId EXCEPT ![k] = @ + 1] /\ nextId \in [Kinds -> Nat]
  <2>1. nextId \in [Kinds -> Nat]
    BY IdSpaceAssumption DEF SerialInv, TypeOK
  <2>2. nextId[k] + 1 < IdSpace
    BY <1>2, <2>1, ColumnFacts, IdSpaceAssumption DEF Claim, SerialNoWrap
  <2>3. \A n \in Nat : n < IdSpace => n % IdSpace = n
    BY IdSpaceAssumption
  <2>4. (nextId[k] + 1) % IdSpace = nextId[k] + 1
    BY <2>1, <2>2, <2>3
  <2> QED
    BY <2>1, <2>4 DEF Claim
<1>4. /\ call'[t] = [kind |-> k, arg |-> a, id |-> nextId[k], step |-> 1]
      /\ \A u \in Callers : u # t => call'[u] = Idle
      /\ UNCHANGED <<column, returned, frozen>>
  BY DEF Claim, Quiet, SerialInv, TypeOK
<1>5. call'[t] # Idle
  <2>1. [kind |-> k, arg |-> a, id |-> nextId[k], step |-> 1] \in Call
    BY <1>3 DEF Call, ArgsOf, Kinds
  <2> QED
    BY <1>4, <2>1, IdleAssumption
<1>6. OneAtATime'
  BY <1>4 DEF OneAtATime, Busy
<1>7. IdleColumnsFull'
  BY <1>2, <1>3, <1>4, <1>5, ColumnFacts DEF IdleColumnsFull, Busy
<1>8. CallExtends'
  <2>1. \A c \in ColumnsOf(k) : ~(1 > Rank[c]) /\ Len(column[c]) = nextId[k]
    BY <1>2, ColumnFacts
  <2> QED
    BY <1>3, <1>4, <2>1 DEF CallExtends, Busy
<1>9. EveryRowOwned'
  BY <1>4 DEF EveryRowOwned, SerialInv, Quiet, Busy
<1>10. RowsIntact'
  BY <1>4 DEF RowsIntact, SerialInv
<1>11. FrozenQuiet'
  BY <1>4 DEF Claim, FrozenQuiet
<1> QED
  BY <1>1, <1>6, <1>7, <1>8, <1>9, <1>10, <1>11 DEF SerialInv

LEMMA SerialPush ==
  ASSUME SerialInv, NEW t \in Callers, NEW c \in Columns, Push(t, c)
  PROVE  SerialInv'
<1> DEFINE v == call[t].arg[c]
           k == call[t].kind
           id == call[t].id
<1>1. TypeOK'
  BY TypeStep DEF SerialInv, Next, Proceed
<1>2. /\ call[t] \in Call /\ Busy(t) /\ k \in Kinds /\ KindOf(c) = k /\ c \in ColumnsOf(k)
      /\ call[t].step = Rank[c]
  BY ColumnFacts DEF Push, SerialInv, TypeOK, Busy
<1>3. /\ Busy(t)' /\ call'[t].kind = k /\ call'[t].id = id /\ call'[t].arg = call[t].arg
      /\ call'[t].step = Rank[c] + 1
      /\ \A u \in Callers : u # t => call'[u] = call[u]
      /\ UNCHANGED <<nextId, returned, frozen>>
  <2>1. call' = [call EXCEPT ![t] = [call[t] EXCEPT !.step = @ + 1]]
    BY DEF Push
  <2>2. [call[t] EXCEPT !.step = @ + 1] \in Call
    BY <1>2, ColumnFacts DEF Call
  <2>3. [call[t] EXCEPT !.step = @ + 1] # Idle
    BY <2>2, IdleAssumption
  <2> QED
    BY <1>2, <2>1, <2>3 DEF Push, SerialInv, TypeOK, Busy, Call
<1>4. \A u \in Callers : Busy(u) <=> u = t
  BY <1>2 DEF SerialInv, OneAtATime
<1>5. /\ column' = [column EXCEPT ![c] = Append(@, v)] /\ DOMAIN column = Columns
      /\ \A d \in Columns : Len(column[d]) \in Nat
      /\ id \in Nat /\ Len(column[c]) = id
  <2>1. Len(column[c]) = id
    BY <1>2, ColumnFacts DEF SerialInv, CallExtends
  <2> QED
    BY <1>2, <2>1 DEF Push, SerialInv, TypeOK, Call
<1>6. /\ Len(column'[c]) = id + 1 /\ column'[c][id + 1] = v
      /\ \A i \in 1..id : column'[c][i] = column[c][i]
      /\ \A d \in Columns : d # c => column'[d] = column[d]
  <2>1. column[c] \in Seq(Fields(c)) /\ column'[c] = Append(column[c], v)
    BY <1>5 DEF SerialInv, TypeOK
  <2> HIDE DEF v
  <2> QED
    BY <1>5, <2>1
<1>7. OneAtATime'
  BY <1>3, <1>4 DEF OneAtATime, Busy
<1>8. IdleColumnsFull'
  <2> SUFFICES ASSUME NEW d \in Columns,
                      \A u \in Callers : Busy(u)' => call'[u].kind # KindOf(d)
               PROVE  Len(column'[d]) = nextId'[KindOf(d)]
    BY DEF IdleColumnsFull
  <2>1. d # c
    BY <1>2, <1>3
  <2>2. \A u \in Callers : Busy(u) => call[u].kind # KindOf(d)
    BY <1>3, <1>4
  <2> QED
    BY <1>3, <1>6, <2>1, <2>2 DEF SerialInv, IdleColumnsFull
<1>9. CallExtends'
  <2>1. \A d \in ColumnsOf(k) : d # c => Rank[d] # Rank[c]
    BY <1>2 DEF ColumnsOf, Rank, NodeColumns, EdgeColumns, KindOf
  <2>2. \A d \in ColumnsOf(k) : Rank[d] \in Nat /\ d \in Columns
    BY <1>2, ColumnFacts
  <2>3. \A d \in ColumnsOf(k) :
          IF Rank[c] > Rank[d]
          THEN Len(column[d]) = id + 1 /\ column[d][id + 1] = call[t].arg[d]
          ELSE Len(column[d]) = id
    BY <1>2 DEF SerialInv, CallExtends
  <2>4. \A d \in ColumnsOf(k) :
          IF Rank[c] + 1 > Rank[d]
          THEN Len(column'[d]) = id + 1 /\ column'[d][id + 1] = call[t].arg[d]
          ELSE Len(column'[d]) = id
    <3> SUFFICES ASSUME NEW d \in ColumnsOf(k)
                 PROVE  IF Rank[c] + 1 > Rank[d]
                        THEN Len(column'[d]) = id + 1 /\ column'[d][id + 1] = call[t].arg[d]
                        ELSE Len(column'[d]) = id
      OBVIOUS
    <3>1. CASE d = c
      BY <1>2, <1>6, <2>2, <3>1
    <3>2. CASE d # c
      BY <1>2, <1>6, <2>1, <2>2, <2>3, <3>2
    <3> QED
      BY <3>1, <3>2
  <2>5. nextId[k] = id + 1
    BY <1>2 DEF SerialInv, CallExtends
  <2> QED
    BY <1>3, <1>4, <2>4, <2>5 DEF CallExtends, Busy
<1>10. EveryRowOwned'
  <2> SUFFICES ASSUME NEW l \in Kinds, NEW i \in 1..Len(column'[LastColumn(l)])
               PROVE  \/ \E r \in returned : r.kind = l /\ r.id = i - 1
                      \/ \E u \in Callers : Busy(u)' /\ call'[u].kind = l /\ call'[u].id = i - 1
    BY <1>3 DEF EveryRowOwned
  <2>0. LastColumn(l) \in Columns
    BY ColumnFacts
  <2>1. CASE LastColumn(l) = c /\ i = id + 1
    <3>1. k = l
      BY <1>2, <2>1, ColumnFacts
    <3> QED
      BY <1>3, <1>5, <2>1, <3>1
  <2>2. CASE ~(LastColumn(l) = c /\ i = id + 1)
    <3>1. i \in 1..Len(column[LastColumn(l)])
      BY <1>5, <1>6, <2>0, <2>2
    <3>2. \/ \E r \in returned : r.kind = l /\ r.id = i - 1
          \/ \E u \in Callers : Busy(u) /\ call[u].kind = l /\ call[u].id = i - 1
      BY <3>1 DEF SerialInv, EveryRowOwned
    <3> QED
      BY <1>3, <1>4, <3>2
  <2> QED
    BY <2>1, <2>2
<1>11. RowsIntact'
  <2> SUFFICES ASSUME NEW r \in returned, NEW d \in ColumnsOf(r.kind)
               PROVE  r.id < Len(column'[d]) /\ column'[d][r.id + 1] = r.arg[d]
    BY <1>3 DEF RowsIntact
  <2>1. r.id < Len(column[d]) /\ column[d][r.id + 1] = r.arg[d]
    BY DEF SerialInv, RowsIntact
  <2>2. r.kind \in Kinds /\ r.id \in Nat
    BY DEF SerialInv, TypeOK, Result
  <2>3. d \in Columns
    BY <2>2, ColumnFacts
  <2> QED
    BY <1>5, <1>6, <2>1, <2>2, <2>3
<1>12. FrozenQuiet'
  BY <1>2, <1>3 DEF FrozenQuiet, SerialInv
<1> QED
  BY <1>1, <1>7, <1>8, <1>9, <1>10, <1>11, <1>12 DEF SerialInv

LEMMA SerialReturn ==
  ASSUME SerialInv, NEW t \in Callers, Return(t)
  PROVE  SerialInv'
<1> DEFINE k == call[t].kind
           id == call[t].id
<1>1. TypeOK'
  BY TypeStep DEF SerialInv, Next, Proceed
<1>2. call[t] \in Call /\ Busy(t) /\ k \in Kinds /\ id \in Nat /\ call[t].step > LastRank(k)
  BY DEF Return, SerialInv, TypeOK, Busy, Call
<1>3. \A u \in Callers : Busy(u) <=> u = t
  BY <1>2 DEF SerialInv, OneAtATime
<1>4. /\ \A u \in Callers : call'[u] = Idle
      /\ returned' = returned \cup {ResultOf(t)}
      /\ UNCHANGED <<column, nextId, frozen>>
  BY <1>3 DEF Return, SerialInv, TypeOK, Busy
<1>5. ResultOf(t).kind = k /\ ResultOf(t).id = id /\ ResultOf(t).arg = call[t].arg
  BY DEF ResultOf
<1>6. nextId[k] = id + 1 /\ \A c \in ColumnsOf(k) :
        Len(column[c]) = id + 1 /\ column[c][id + 1] = call[t].arg[c]
  <2>1. \A c \in ColumnsOf(k) : call[t].step > Rank[c]
    BY <1>2, ColumnFacts DEF Call, LastRank
  <2> QED
    BY <1>2, <2>1 DEF SerialInv, CallExtends
<1>7. OneAtATime' /\ CallExtends'
  BY <1>4 DEF OneAtATime, CallExtends, Busy
<1>8. IdleColumnsFull'
  <2> SUFFICES ASSUME NEW c \in Columns PROVE Len(column[c]) = nextId[KindOf(c)]
    BY <1>4 DEF IdleColumnsFull
  <2>1. CASE KindOf(c) = k
    BY <1>6, <2>1, ColumnFacts
  <2>2. CASE KindOf(c) # k
    BY <1>3, <2>2 DEF SerialInv, IdleColumnsFull
  <2> QED
    BY <2>1, <2>2
<1>9. EveryRowOwned'
  <2> SUFFICES ASSUME NEW l \in Kinds, NEW i \in 1..Len(column[LastColumn(l)])
               PROVE  \E r \in returned' : r.kind = l /\ r.id = i - 1
    BY <1>4 DEF EveryRowOwned
  <2>1. \/ \E r \in returned : r.kind = l /\ r.id = i - 1
        \/ \E u \in Callers : Busy(u) /\ call[u].kind = l /\ call[u].id = i - 1
    BY DEF SerialInv, EveryRowOwned
  <2> QED
    BY <1>3, <1>4, <1>5, <2>1
<1>10. RowsIntact'
  <2>1. \A c \in ColumnsOf(k) : id < Len(column[c])
    BY <1>2, <1>6
  <2> QED
    BY <1>4, <1>5, <1>6, <2>1 DEF SerialInv, RowsIntact
<1>11. FrozenQuiet'
  BY <1>4 DEF FrozenQuiet, Busy
<1> QED
  BY <1>1, <1>7, <1>8, <1>9, <1>10, <1>11 DEF SerialInv

LEMMA SerialStep ==
  ASSUME SerialNoWrap, SerialInv, [SerialNext]_vars
  PROVE  SerialInv'
<1>1. CASE UNCHANGED vars
  <2>1. TypeOK'
    BY <1>1, TypeStep DEF SerialInv
  <2> QED
    BY <1>1, <2>1 DEF vars, SerialInv, FrozenQuiet, OneAtATime, IdleColumnsFull, CallExtends,
       EveryRowOwned, RowsIntact, Busy
<1>2. CASE Freeze
  <2>1. TypeOK'
    BY <1>2, TypeStep DEF SerialInv, Next
  <2> QED
    BY <1>2, <2>1 DEF Freeze, Quiet, SerialInv, FrozenQuiet, OneAtATime, IdleColumnsFull, CallExtends,
       EveryRowOwned, RowsIntact, Busy
<1>3. ASSUME NEW t \in Callers, SerialAdd(t) PROVE SerialInv'
  BY <1>3, SerialClaim DEF SerialAdd, AddNode, AddEdge, Kinds, ArgsOf
<1>4. ASSUME NEW t \in Callers, Proceed(t) PROVE SerialInv'
  BY <1>4, SerialPush, SerialReturn DEF Proceed
<1> QED
  BY <1>1, <1>2, <1>3, <1>4 DEF SerialNext

THEOREM SerialInvCorrect ==
  ASSUME SerialNoWrap
  PROVE  SerialSpec => []SerialInv
BY SerialInit, SerialStep, PTL DEF SerialSpec

(* For any number of callers that take turns and any rows that stay clear   *)
(* of the wrap, the identifier a call returned is the index of its row in   *)
(* every column.                                                            *)
THEOREM RowsIntactCorrect ==
  ASSUME SerialNoWrap
  PROVE  SerialSpec => []RowsIntact
BY SerialInvCorrect, PTL DEF SerialInv

-----------------------------------------------------------------------------
(* The rows of a kind are read off columns that reach at least as far.      *)
RowType(k) == [ColumnsOf(k) -> UNION {Fields(c) : c \in Columns}]

RowsWellFormed ==
  \A k \in Kinds :
    /\ Len(column[LastColumn(k)]) \in Nat
    /\ Rows[k] \in [1..Len(column[LastColumn(k)]) -> RowType(k)]
    /\ \A i \in 1..Len(column[LastColumn(k)]) : Rows[k][i] = Row(k, i)
    /\ \A c \in ColumnsOf(k) : Len(column[LastColumn(k)]) <= Len(column[c])

LEMMA RowsShape == SerialInv => RowsWellFormed
<1> SUFFICES ASSUME SerialInv PROVE RowsWellFormed
  OBVIOUS
<1>1. \A c \in Columns : Len(column[c]) \in Nat
  BY DEF SerialInv, TypeOK
<1>2. ASSUME NEW k \in Kinds, NEW c \in ColumnsOf(k)
      PROVE  Len(column[LastColumn(k)]) <= Len(column[c])
  <2>1. Rank[c] <= Rank[LastColumn(k)] /\ Rank[c] \in Nat /\ Rank[LastColumn(k)] \in Nat
    BY <1>2 DEF Rank, LastColumn, ColumnsOf, NodeColumns, EdgeColumns, Kinds
  <2>2. c \in Columns /\ KindOf(c) = k /\ LastColumn(k) \in ColumnsOf(k)
        /\ LastColumn(k) \in Columns /\ KindOf(LastColumn(k)) = k
    BY ColumnFacts
  <2>3. CASE \E t \in Callers : Busy(t) /\ call[t].kind = k
    <3>1. PICK t \in Callers : Busy(t) /\ call[t].kind = k
      BY <2>3
    <3>2. call[t].step \in Nat /\ call[t].id \in Nat
      BY <3>1 DEF SerialInv, TypeOK, Call, Busy
    <3> QED
      BY <2>1, <2>2, <3>1, <3>2 DEF SerialInv, CallExtends
  <2>4. CASE \A t \in Callers : Busy(t) => call[t].kind # k
    <3>1. Len(column[c]) = nextId[k] /\ Len(column[LastColumn(k)]) = nextId[k]
      BY <2>2, <2>4 DEF SerialInv, IdleColumnsFull
    <3> QED
      BY <1>1, <2>2, <3>1
  <2> QED
    BY <2>3, <2>4
<1>3. ASSUME NEW k \in Kinds, NEW i \in 1..Len(column[LastColumn(k)])
      PROVE  Row(k, i) \in RowType(k)
  <2> SUFFICES ASSUME NEW c \in ColumnsOf(k) PROVE column[c][i] \in Fields(c) /\ c \in Columns
    BY DEF Row, RowType
  <2>1. c \in Columns /\ LastColumn(k) \in Columns
    BY ColumnFacts
  <2>2. i \in 1..Len(column[c])
    BY <1>1, <1>2, <2>1
  <2>3. column[c] \in Seq(Fields(c))
    BY <2>1 DEF SerialInv, TypeOK
  <2> QED
    BY <2>1, <2>2, <2>3, ElementOfSeq
<1>4. \A k \in Kinds : Rows[k] = [i \in 1..Len(column[LastColumn(k)]) |-> Row(k, i)]
  BY DEF Rows
<1> QED
  BY <1>1, <1>2, <1>3, <1>4, ColumnFacts DEF RowsWellFormed

LEMMA AppendShape ==
  ASSUME NEW S, NEW n \in Nat, NEW s \in [1..n -> S], NEW u \in [1..(n + 1) -> S],
         \A i \in 1..n : u[i] = s[i]
  PROVE  u = Append(s, u[n + 1])
<1>1. s \in Seq(S) /\ Len(s) = n /\ u \in Seq(S) /\ Len(u) = n + 1 /\ u[n + 1] \in S
  OBVIOUS
<1> DEFINE x == u[n + 1]
<1>2. /\ Append(s, x) \in Seq(S) /\ Len(Append(s, x)) = n + 1
      /\ \A i \in 1..n : Append(s, x)[i] = s[i]
      /\ Append(s, x)[n + 1] = x
  <2> HIDE DEF x
  <2> QED
    BY <1>1 DEF x
<1>3. \A i \in 1..Len(u) : u[i] = Append(s, x)[i]
  BY <1>1, <1>2
<1> QED
  BY <1>1, <1>2, <1>3, SeqEqual

(* The last push of a call appends its row; the others leave the rows alone. *)
LEMMA PushRefines ==
  ASSUME SerialInv, NEW t \in Callers, NEW c \in Columns, Push(t, c)
  PROVE  [Log!Next]_(Log!vars)
<1> DEFINE v == call[t].arg[c]
           k == call[t].kind
           id == call[t].id
           a == call[t].arg
           NewRow(l, i) == [d \in ColumnsOf(l) |-> column'[d][i]]
<1>0. SerialInv'
  BY SerialPush
<1>1. /\ call[t] \in Call /\ Busy(t) /\ k \in Kinds /\ KindOf(c) = k /\ c \in ColumnsOf(k)
      /\ call[t].step = Rank[c] /\ id \in Nat /\ a \in ArgsOf(k)
      /\ UNCHANGED <<returned, frozen>> /\ LastColumn(k) \in ColumnsOf(k)
  BY ColumnFacts DEF Push, SerialInv, TypeOK, Busy, Call
<1>2. /\ column' = [column EXCEPT ![c] = Append(@, v)] /\ DOMAIN column = Columns
      /\ \A d \in Columns : Len(column[d]) \in Nat
      /\ Len(column[c]) = id
  <2>1. Len(column[c]) = id
    BY <1>1, ColumnFacts DEF SerialInv, CallExtends
  <2> QED
    BY <2>1 DEF Push, SerialInv, TypeOK
<1>3. /\ Len(column'[c]) = id + 1 /\ column'[c][id + 1] = v
      /\ \A i \in 1..id : column'[c][i] = column[c][i]
      /\ \A d \in Columns : d # c => column'[d] = column[d]
  <2>1. column[c] \in Seq(Fields(c)) /\ column'[c] = Append(column[c], v)
    BY <1>2 DEF SerialInv, TypeOK
  <2> HIDE DEF v
  <2> QED
    BY <1>1, <1>2, <2>1
<1>4. \A l \in Kinds : \A i \in 1..Len(column[LastColumn(l)]) : NewRow(l, i) = Row(l, i)
  <2> SUFFICES ASSUME NEW l \in Kinds, NEW i \in 1..Len(column[LastColumn(l)]),
                      NEW d \in ColumnsOf(l)
               PROVE  column'[d][i] = column[d][i]
    BY DEF Row
  <2>1. d \in Columns /\ LastColumn(l) \in Columns
    BY ColumnFacts
  <2>2. i \in 1..Len(column[d])
    BY <1>2, <2>1, RowsShape DEF RowsWellFormed
  <2> QED
    BY <1>2, <1>3, <2>1, <2>2
<1>5. \A l \in Kinds :
        /\ Rows'[l] \in [1..Len(column'[LastColumn(l)]) -> RowType(l)]
        /\ \A i \in 1..Len(column'[LastColumn(l)]) : Rows'[l][i] = NewRow(l, i)
  <2>1. RowsWellFormed'
    BY <1>0, RowsShape, PTL
  <2> QED
    BY <2>1 DEF RowsWellFormed, Rows, Row
<1>6. \A l \in Kinds : LastColumn(l) # c => Rows'[l] = Rows[l]
  <2> SUFFICES ASSUME NEW l \in Kinds, LastColumn(l) # c PROVE Rows'[l] = Rows[l]
    OBVIOUS
  <2>1. column'[LastColumn(l)] = column[LastColumn(l)]
    BY <1>3, ColumnFacts
  <2>2. \A i \in 1..Len(column[LastColumn(l)]) : Rows'[l][i] = Rows[l][i]
    BY <1>4, <1>5, <2>1, RowsShape DEF RowsWellFormed
  <2> QED
    BY <1>5, <2>1, <2>2, RowsShape DEF RowsWellFormed
<1>7. CASE c = LastColumn(k)
  <2>1. \A d \in ColumnsOf(k) : d # c => Rank[d] < Rank[c]
    BY <1>1, <1>7 DEF Rank, LastColumn, ColumnsOf, NodeColumns, EdgeColumns, Kinds
  <2>2. \A d \in ColumnsOf(k) : column'[d][id + 1] = a[d]
    <3>1. \A d \in ColumnsOf(k) : d # c => column[d][id + 1] = a[d]
      BY <1>1, <2>1, ColumnFacts DEF SerialInv, CallExtends
    <3> QED
      BY <1>1, <1>3, <3>1, ColumnFacts
  <2>3. a = [d \in ColumnsOf(k) |-> a[d]]
    BY <1>1, ArgsAssumption DEF ArgsOf, ColumnsOf, Kinds
  <2>4. NewRow(k, id + 1) = a
    BY <2>2, <2>3
  <2>5. Rows'[k] = Append(Rows[k], a)
    <3>1. Len(column[LastColumn(k)]) = id /\ Len(column'[LastColumn(k)]) = id + 1
      BY <1>2, <1>3, <1>7
    <3>2. /\ Rows[k] \in [1..id -> RowType(k)]
          /\ \A i \in 1..id : Rows[k][i] = Row(k, i)
      BY <1>1, <3>1, RowsShape DEF RowsWellFormed
    <3>3. /\ Rows'[k] \in [1..(id + 1) -> RowType(k)]
          /\ \A i \in 1..(id + 1) : Rows'[k][i] = NewRow(k, i)
      BY <1>1, <1>5, <3>1
    <3>4. \A i \in 1..id : NewRow(k, i) = Row(k, i)
      BY <1>1, <1>4, <3>1
    <3> HIDE DEF k, id, a, NewRow
    <3>5. \A i \in 1..id : Rows'[k][i] = Rows[k][i]
      BY <1>1, <3>2, <3>3, <3>4
    <3>6. Rows'[k][id + 1] = a
      BY <1>1, <2>4, <3>3
    <3> QED
      BY <1>1, <3>2, <3>3, <3>5, <3>6, AppendShape
  <2>7. \A l \in Kinds : l # k => LastColumn(l) # c
    BY <1>1, ColumnFacts
  <2>8. Rows' = [Rows EXCEPT ![k] = Append(@, a)]
    <3>1. DOMAIN Rows = Kinds /\ Rows = [l \in Kinds |-> Rows[l]]
          /\ Rows' = [l \in Kinds |-> Rows'[l]]
      BY DEF Rows
    <3> QED
      BY <1>1, <1>6, <2>5, <2>7, <3>1
  <2>9. ~frozen
    BY <1>1 DEF SerialInv, FrozenQuiet, Push, Busy
  <2> QED
    BY <1>1, <2>8, <2>9 DEF Log!Next, Log!Add
<1>8. CASE c # LastColumn(k)
  <2>1. \A l \in Kinds : LastColumn(l) # c
    BY <1>1, <1>8, ColumnFacts
  <2>2. Rows' = Rows
    BY <1>6, <2>1 DEF Rows
  <2> QED
    BY <1>1, <2>2 DEF Log!vars
<1> QED
  BY <1>7, <1>8

(* A call that returns acknowledges its row under its identifier.           *)
LEMMA ReturnRefines ==
  ASSUME SerialInv, NEW t \in Callers, Return(t)
  PROVE  Log!Next
<1> DEFINE k == call[t].kind
           id == call[t].id
           a == call[t].arg
<1>1. /\ call[t] \in Call /\ Busy(t) /\ k \in Kinds /\ id \in Nat /\ a \in ArgsOf(k)
      /\ call[t].step > LastRank(k) /\ call[t].step \in Nat
  BY DEF Return, SerialInv, TypeOK, Busy, Call
<1>2. \A c \in ColumnsOf(k) : Len(column[c]) = id + 1 /\ column[c][id + 1] = a[c]
  <2>1. \A c \in ColumnsOf(k) : call[t].step > Rank[c]
    BY <1>1, ColumnFacts DEF LastRank
  <2> QED
    BY <1>1, <2>1 DEF SerialInv, CallExtends
<1>3. DOMAIN Rows[k] = 1..(id + 1) /\ Rows[k][id + 1] = Row(k, id + 1)
  BY <1>1, <1>2, RowsShape, ColumnFacts DEF RowsWellFormed
<1>4. a = [c \in ColumnsOf(k) |-> a[c]]
  BY <1>1, ArgsAssumption DEF ArgsOf, ColumnsOf, Kinds
<1>5. Row(k, id + 1) = a
  BY <1>2, <1>4 DEF Row
<1>6. id + 1 \in DOMAIN Rows[k] /\ Rows[k][id + 1] = a /\ (id + 1) - 1 = id
  BY <1>1, <1>3, <1>5
<1>7. returned' = returned \cup {[kind |-> k, arg |-> Rows[k][id + 1], id |-> id]}
  BY <1>6 DEF Return, ResultOf
<1>8. Rows' = Rows /\ frozen' = frozen
  BY DEF Return, Rows, Row
<1>9. Log!Acknowledge(k, (id + 1) - 1)
  BY <1>6, <1>7, <1>8 DEF Log!Acknowledge
<1> QED
  BY <1>1, <1>6, <1>9 DEF Log!Next

(* Freeze finds every row acknowledged, because no call is left running.    *)
LEMMA FreezeRefines ==
  ASSUME SerialInv, Freeze
  PROVE  Log!Next
<1>1. ASSUME NEW k \in Kinds, NEW i \in DOMAIN Rows[k]
      PROVE  [kind |-> k, arg |-> Rows[k][i], id |-> i - 1] \in returned
  <2>1. i \in 1..Len(column[LastColumn(k)]) /\ Rows[k][i] = Row(k, i) /\ i \in Nat
    BY <1>1, RowsShape DEF RowsWellFormed
  <2>2. PICK r \in returned : r.kind = k /\ r.id = i - 1
    BY <2>1 DEF SerialInv, EveryRowOwned, Freeze, Quiet, Busy
  <2>3. r = [kind |-> k, arg |-> r.arg, id |-> i - 1] /\ r.arg \in ArgsOf(k)
    BY <2>2 DEF SerialInv, TypeOK, Result
  <2>4. \A c \in ColumnsOf(k) : column[c][i] = r.arg[c]
    <3>1. r.id + 1 = i
      BY <2>1, <2>2
    <3> QED
      BY <2>2, <3>1 DEF SerialInv, RowsIntact
  <2>5. r.arg = [c \in ColumnsOf(k) |-> r.arg[c]]
    BY <2>3, ArgsAssumption DEF ArgsOf, ColumnsOf, Kinds
  <2>6. Rows[k][i] = r.arg
    BY <2>1, <2>4, <2>5 DEF Row
  <2> QED
    BY <2>3, <2>6
<1>2. ~frozen /\ frozen' = TRUE /\ Rows' = Rows /\ returned' = returned
  BY DEF Freeze, Rows, Row
<1> QED
  BY <1>1, <1>2 DEF Log!Next, Log!Close

(* Built by callers that take turns, for any number of them and any rows    *)
(* that stay clear of the wrap, the eight columns implement a log of whole  *)
(* rows.                                                                    *)
THEOREM SerialRefinesRowLog ==
  ASSUME SerialNoWrap
  PROVE  SerialSpec => ImplementsRowLog
<1>1. Init => Log!Init
  <2> SUFFICES ASSUME Init PROVE Log!Init
    OBVIOUS
  <2>1. SerialInv
    BY SerialInit
  <2>2. \A k \in Kinds : Len(column[LastColumn(k)]) = 0
    BY ColumnFacts DEF Init
  <2>3. \A k \in Kinds : Rows[k] = <<>>
    BY <2>1, <2>2, RowsShape DEF RowsWellFormed
  <2>4. Rows = [k \in Kinds |-> <<>>]
    BY <2>3 DEF Rows
  <2> QED
    BY <2>4 DEF Init, Log!Init
<1>2. SerialInv /\ [SerialNext]_vars => [Log!Next]_(Log!vars)
  <2> SUFFICES ASSUME SerialInv, [SerialNext]_vars PROVE [Log!Next]_(Log!vars)
    OBVIOUS
  <2>1. ASSUME NEW t \in Callers, SerialAdd(t) PROVE Rows' = Rows /\ UNCHANGED <<returned, frozen>>
    BY <2>1 DEF SerialAdd, AddNode, AddEdge, Claim, Rows, Row
  <2>2. CASE UNCHANGED vars
    BY <2>2 DEF vars, Rows, Row, Log!vars
  <2> QED
    BY <2>1, <2>2, PushRefines, ReturnRefines, FreezeRefines
    DEF SerialNext, Proceed, Log!vars
<1> QED
  BY <1>1, <1>2, SerialInvCorrect, PTL DEF SerialSpec, ImplementsRowLog, Log!Spec
=============================================================================
