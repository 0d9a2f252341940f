------------------------- MODULE MutableGraphProofs -------------------------
(***************************************************************************)
(* Proofs about MutableGraph for any callers, arguments and bounds.        *)
(***************************************************************************)
EXTENDS MutableGraph, FiniteSetTheorems, TLAPS

LEMMA TypeInit == Init => TypeOK
<1> SUFFICES ASSUME Init PROVE TypeOK
  OBVIOUS
<1>1. DOMAIN column = Columns /\ \A c \in Columns : column[c] \in Seq(Fields(c))
  <2>1. \A S : <<>> \in Seq(S)
    OBVIOUS
  <2> QED
    BY <2>1 DEF Init
<1>2. nextId \in [Kinds -> 0..(IdSpace - 1)]
  BY IdSpaceAssumption DEF Init
<1>3. call \in [Callers -> Call \cup {Idle}] /\ \A t \in Callers : call[t] = Idle
  BY DEF Init
<1> QED
  BY <1>1, <1>2, <1>3 DEF Init, TypeOK

LEMMA TypeStep == TypeOK /\ [Next]_vars => TypeOK'
<1> SUFFICES ASSUME TypeOK, [Next]_vars PROVE TypeOK'
  OBVIOUS
<1>1. ASSUME NEW t \in Callers, NEW k \in Kinds, NEW a \in ArgsOf(k), Claim(t, k, a)
      PROVE TypeOK'
  <2>1. nextId'[k] \in 0..(IdSpace - 1) /\ nextId' \in [Kinds -> 0..(IdSpace - 1)]
    BY <1>1, IdSpaceAssumption DEF Claim, TypeOK
  <2>2. [kind |-> k, arg |-> a, id |-> nextId[k], step |-> 1] \in Call
    BY DEF TypeOK, Call, ArgsOf, Kinds
  <2>3. call' \in [Callers -> Call \cup {Idle}]
    BY <1>1, <2>2 DEF Claim, TypeOK
  <2>4. \A u \in Callers : call'[u] # Idle =>
          call'[u].arg \in ArgsOf(call'[u].kind)
            /\ call'[u].step <= LastRank(call'[u].kind) + 1
    BY <1>1 DEF Claim, TypeOK, LastRank
  <2> QED
    BY <1>1, <2>1, <2>3, <2>4 DEF Claim, TypeOK
<1>2. ASSUME NEW t \in Callers, NEW c \in Columns, Push(t, c)
      PROVE TypeOK'
  <2>1. call[t] \in Call /\ call[t].arg \in ArgsOf(KindOf(c)) /\ call[t].step = Rank[c]
    BY <1>2 DEF Push, TypeOK
  <2>2. Rank[c] \in 1..LastRank(KindOf(c)) /\ LastRank(KindOf(c)) \in {3, 5}
    BY DEF Rank, LastRank, KindOf, Columns, NodeColumns, EdgeColumns
  <2> DEFINE v == call[t].arg[c]
  <2>0. v \in Fields(c)
    BY <2>1 DEF Fields
  <2>3. \A d \in Columns : column'[d] \in Seq(Fields(d))
    BY <1>2, <2>0 DEF Push, TypeOK
  <2>4. [call[t] EXCEPT !.step = @ + 1] \in Call
    BY <2>1, <2>2 DEF Call
  <2>5. call' \in [Callers -> Call \cup {Idle}]
    BY <1>2, <2>4 DEF Push, TypeOK
  <2>6. \A u \in Callers : call'[u] # Idle =>
          call'[u].arg \in ArgsOf(call'[u].kind)
            /\ call'[u].step <= LastRank(call'[u].kind) + 1
    BY <1>2, <2>1, <2>2 DEF Push, TypeOK, Call
  <2>7. DOMAIN column' = Columns
    BY <1>2 DEF Push, TypeOK
  <2> QED
    BY <1>2, <2>3, <2>5, <2>6, <2>7 DEF Push, TypeOK
<1>3. ASSUME NEW t \in Callers, Return(t)
      PROVE TypeOK'
  <2>1. ResultOf(t) \in Result /\ ResultOf(t).arg \in ArgsOf(ResultOf(t).kind)
    BY <1>3 DEF Return, TypeOK, ResultOf, Result, Call
  <2> QED
    BY <1>3, <2>1 DEF Return, TypeOK
<1>4. CASE Freeze
  BY <1>4 DEF Freeze, TypeOK
<1>5. CASE UNCHANGED vars
  BY <1>5 DEF vars, TypeOK
<1> QED
  BY <1>1, <1>2, <1>3, <1>4, <1>5 DEF Next, AddNode, AddEdge, Proceed, Kinds, ArgsOf

(* Every state of the graph under construction has the types TypeOK gives,  *)
(* with wrapping counters and any interleaving of add_node and add_edge.    *)
THEOREM TypeCorrect == Spec => []TypeOK
BY TypeInit, TypeStep, PTL DEF Spec

-----------------------------------------------------------------------------
(* The counters never reach the end of their range.                         *)
NoWrap == MaxRows + Cardinality(Callers) <= IdSpace

(* No identifier is in use that the counter has yet to hand out.            *)
IdsBelowCounter ==
  /\ \A r \in returned : r.id < nextId[r.kind]
  /\ \A t \in Callers : call[t] # Idle => call[t].id < nextId[call[t].kind]

(* Uniqueness alone is not inductive: the next claim could repeat an         *)
(* identifier unless all are below the counter, and the counter could fall   *)
(* back unless it is tied to the number of rows and of pending pushes.       *)
CountInv == TypeOK /\ CountersCoverColumns /\ IdsBelowCounter /\ IdsUnique

(* Facts about the columns of a kind: the ranks count the pushes of a call. *)
LEMMA RankFacts ==
  /\ \A c \in Columns : KindOf(c) \in Kinds /\ Rank[c] \in 1..LastRank(KindOf(c))
  /\ \A c, d \in Columns : KindOf(c) = KindOf(d) /\ Rank[c] = Rank[d] => c = d
  /\ \A k \in Kinds : FirstColumn(k) \in Columns /\ KindOf(FirstColumn(k)) = k
  /\ \A c \in Columns : c \in ColumnsOf(KindOf(c))
BY DEF Rank, LastRank, KindOf, Kinds, Columns, NodeColumns, EdgeColumns, FirstColumn, ColumnsOf

LEMMA PendingFinite ==
  \A c : IsFiniteSet(Pending(c)) /\ Cardinality(Pending(c)) \in Nat
<1> SUFFICES ASSUME NEW c PROVE IsFiniteSet(Pending(c)) /\ Cardinality(Pending(c)) \in Nat
  OBVIOUS
<1>1. Pending(c) \in SUBSET Callers
  BY DEF Pending, InCall
<1> QED
  BY <1>1, CallersAssumption, FS_Subset, FS_CardinalityType

(* A claim makes the call pending on every column of its kind, and no other. *)
LEMMA ClaimPending ==
  ASSUME TypeOK, NEW t \in Callers, NEW k \in Kinds, NEW a \in ArgsOf(k), Claim(t, k, a),
         NEW c \in Columns
  PROVE  /\ KindOf(c) = k => t \notin Pending(c) /\ Pending(c)' = Pending(c) \cup {t}
         /\ KindOf(c) # k => Pending(c)' = Pending(c)
<1>1. [kind |-> k, arg |-> a, id |-> nextId[k], step |-> 1] # Idle
  <2>1. [kind |-> k, arg |-> a, id |-> nextId[k], step |-> 1] \in Call
    BY DEF TypeOK, Call, ArgsOf, Kinds
  <2> QED
    BY <2>1, IdleAssumption
<1>2. 1 <= Rank[c] /\ Rank[c] \in Nat
  BY RankFacts DEF LastRank
<1> QED
  BY <1>1, <1>2 DEF Claim, TypeOK, Pending, InCall

(* A push takes the call off the column it pushes, and off no other.        *)
LEMMA PushPending ==
  ASSUME TypeOK, NEW t \in Callers, NEW c \in Columns, Push(t, c), NEW d \in Columns
  PROVE  /\ c = d => t \in Pending(c) /\ Pending(d)' = Pending(d) \ {t}
         /\ c # d => Pending(d)' = Pending(d)
<1>1. call[t] \in Call /\ call[t].kind = KindOf(c) /\ call[t].step = Rank[c]
  BY DEF Push, TypeOK
<1>2. Rank[c] \in Nat /\ Rank[d] \in Nat /\ (KindOf(c) = KindOf(d) /\ c # d => Rank[c] # Rank[d])
  BY RankFacts DEF LastRank
<1>3. [call[t] EXCEPT !.step = @ + 1] # Idle
  <2>1. Rank[c] \in 1..5
    BY RankFacts DEF LastRank
  <2>2. [call[t] EXCEPT !.step = @ + 1] \in Call
    BY <1>1, <2>1 DEF Call
  <2> QED
    BY <2>2, IdleAssumption
<1>4. call' = [call EXCEPT ![t] = [call[t] EXCEPT !.step = @ + 1]]
  BY DEF Push
<1>5. call'[t] # Idle /\ call'[t].kind = call[t].kind /\ call'[t].step = call[t].step + 1
  BY <1>1, <1>3, <1>4 DEF TypeOK, Call
<1>6. \A u \in Callers : u # t => call'[u] = call[u]
  BY <1>4 DEF TypeOK
<1> QED
  BY <1>1, <1>2, <1>5, <1>6 DEF Pending, InCall, Push

(* A call that returns has pushed every column.                             *)
LEMMA ReturnPending ==
  ASSUME TypeOK, NEW t \in Callers, Return(t), NEW c \in Columns
  PROVE  Pending(c)' = Pending(c)
<1>1. Rank[c] \in Nat /\ Rank[c] <= LastRank(KindOf(c)) /\ LastRank(KindOf(c)) \in Nat
  BY RankFacts DEF LastRank
<1>2. call[t] \in Call
  BY DEF Return, TypeOK
<1>3. t \notin Pending(c)
  BY <1>1, <1>2 DEF Return, Pending, InCall, Call
<1> QED
  BY <1>3 DEF Return, TypeOK, Pending, InCall

(* While the callers stop before the counters wrap, every column of a kind  *)
(* stays as long as the counter less the pushes still to come, and no two   *)
(* calls get the same identifier.                                           *)
LEMMA CountInvInit == Init => CountInv
<1> SUFFICES ASSUME Init PROVE CountInv
  OBVIOUS
<1>1. TypeOK
  BY TypeInit
<1>2. \A c : Pending(c) = {}
  BY DEF Init, Pending, InCall
<1>3. \A c \in Columns : nextId[KindOf(c)] = 0 /\ Len(column[c]) = 0
  BY RankFacts DEF Init
<1>4. CountersCoverColumns
  BY <1>2, <1>3, FS_EmptySet DEF CountersCoverColumns
<1> QED
  BY <1>1, <1>4 DEF CountInv, IdsBelowCounter, IdsUnique, Init

LEMMA CountInvStep ==
  ASSUME NoWrap, CountInv, [Next]_vars
  PROVE  CountInv'
<1>1. TypeOK'
  BY TypeStep DEF CountInv
<1>2. ASSUME NEW t \in Callers, NEW k \in Kinds, NEW a \in ArgsOf(k), Claim(t, k, a)
      PROVE CountInv'
  <2> DEFINE f == FirstColumn(k)
  <2>1. f \in Columns /\ KindOf(f) = k
    BY RankFacts
  <2>2. t \notin Pending(f) /\ Pending(f)' = Pending(f) \cup {t}
    BY <1>2, <2>1, ClaimPending DEF CountInv
  <2>3. Cardinality(Pending(f)) + 1 <= Cardinality(Callers)
    <3>1. Cardinality(Pending(f) \cup {t}) = Cardinality(Pending(f)) + 1
      BY <2>2, PendingFinite, FS_AddElement
    <3>2. Pending(f) \cup {t} \in SUBSET Callers
      BY DEF Pending, InCall
    <3> QED
      BY <3>1, <3>2, CallersAssumption, FS_Subset
  <2>4. nextId[k] + 1 < IdSpace
    <3>1. nextId[k] = Len(column[f]) + Cardinality(Pending(f))
      BY <2>1 DEF CountInv, CountersCoverColumns
    <3>2. Len(column[f]) < MaxRows /\ Len(column[f]) \in Nat
      BY <1>2, <2>1 DEF Claim, CountInv, TypeOK
    <3> QED
      BY <2>3, <3>1, <3>2, PendingFinite, CallersAssumption, FS_CardinalityType,
         IdSpaceAssumption DEF NoWrap
  <2>5. nextId' = [nextId EXCEPT ![k] = @ + 1] /\ nextId \in [Kinds -> Nat]
    <3>1. nextId \in [Kinds -> Nat]
      BY IdSpaceAssumption DEF CountInv, TypeOK
    <3>2. \A n \in Nat : n < IdSpace => n % IdSpace = n
      BY IdSpaceAssumption
    <3>3. (nextId[k] + 1) % IdSpace = nextId[k] + 1
      BY <2>4, <3>1, <3>2
    <3> QED
      BY <1>2, <3>1, <3>3 DEF Claim
  <2>6. CountersCoverColumns'
    <3> SUFFICES ASSUME NEW c \in Columns
                 PROVE  nextId'[KindOf(c)] = Len(column[c]) + Cardinality(Pending(c)')
      BY <1>2 DEF CountersCoverColumns, Claim
    <3>1. nextId[KindOf(c)] = Len(column[c]) + Cardinality(Pending(c)) /\ Len(column[c]) \in Nat
      BY DEF CountInv, CountersCoverColumns, TypeOK
    <3>2. CASE KindOf(c) = k
      <4>1. t \notin Pending(c) /\ Pending(c)' = Pending(c) \cup {t}
        BY <1>2, <3>2, ClaimPending DEF CountInv
      <4>2. Cardinality(Pending(c)') = Cardinality(Pending(c)) + 1
        BY <4>1, PendingFinite, FS_AddElement
      <4> QED
        BY <2>5, <3>1, <3>2, <4>2, PendingFinite
    <3>3. CASE KindOf(c) # k
      BY <1>2, <2>5, <3>1, <3>3, ClaimPending, RankFacts DEF CountInv
    <3> QED
      BY <3>2, <3>3
  <2>7. call'[t] # Idle => call'[t].kind = k /\ call'[t].id = nextId[k]
    BY <1>2 DEF Claim, CountInv, TypeOK
  <2>8. call[t] = Idle /\ (\A u \in Callers : u # t => call'[u] = call[u]) /\ returned' = returned
    BY <1>2 DEF Claim, CountInv, TypeOK
  <2>9. \A r \in returned : r.kind \in Kinds /\ r.id \in Nat /\ r.id < nextId[r.kind]
    BY DEF CountInv, TypeOK, Result, IdsBelowCounter
  <2>10. \A u \in Callers : call[u] # Idle =>
           call[u].kind \in Kinds /\ call[u].id \in Nat /\ call[u].id < nextId[call[u].kind]
    BY DEF CountInv, TypeOK, Call, IdsBelowCounter
  <2>11. IdsBelowCounter'
    BY <2>5, <2>7, <2>8, <2>9, <2>10 DEF IdsBelowCounter
  <2>12. IdsUnique'
    <3>1. \A r, s \in returned : r.kind = s.kind /\ r.id = s.id => r = s
      BY DEF CountInv, IdsUnique
    <3>2. \A u \in Callers : call'[u] # Idle =>
            \A r \in returned : r.kind = call'[u].kind => r.id # call'[u].id
      BY <2>5, <2>7, <2>8, <2>9 DEF CountInv, IdsUnique
    <3>3. \A u, w \in Callers :
            call'[u] # Idle /\ call'[w] # Idle /\ u # w /\ call'[u].kind = call'[w].kind
              => call'[u].id # call'[w].id
      BY <2>5, <2>7, <2>8, <2>10 DEF CountInv, IdsUnique
    <3> QED
      BY <2>8, <3>1, <3>2, <3>3 DEF IdsUnique
  <2> QED
    BY <1>1, <2>6, <2>11, <2>12 DEF CountInv
<1>3. ASSUME NEW t \in Callers, NEW c \in Columns, Push(t, c)
      PROVE CountInv'
  <2>1. CountersCoverColumns'
    <3> SUFFICES ASSUME NEW d \in Columns
                 PROVE  nextId[KindOf(d)] = Len(column'[d]) + Cardinality(Pending(d)')
      BY <1>3 DEF CountersCoverColumns, Push
    <3>1. nextId[KindOf(d)] = Len(column[d]) + Cardinality(Pending(d)) /\ Len(column[d]) \in Nat
      BY DEF CountInv, CountersCoverColumns, TypeOK
    <3>2. CASE c = d
      <4>1. t \in Pending(d) /\ Pending(d)' = Pending(d) \ {t}
        BY <1>3, <3>2, PushPending DEF CountInv
      <4>2. Cardinality(Pending(d)') = Cardinality(Pending(d)) - 1
        BY <4>1, PendingFinite, FS_RemoveElement
      <4>3. Len(column'[d]) = Len(column[d]) + 1
        <5> DEFINE v == call[t].arg[c]
        <5>1. column'[d] = Append(column[d], v)
          BY <1>3, <3>2 DEF Push, CountInv, TypeOK
        <5>2. column[d] \in Seq(Fields(d))
          BY DEF CountInv, TypeOK
        <5> QED
          BY <5>1, <5>2
      <4> QED
        BY <3>1, <4>2, <4>3, PendingFinite
    <3>3. CASE c # d
      <4>1. column'[d] = column[d]
        BY <1>3, <3>3 DEF Push, CountInv, TypeOK
      <4> QED
        BY <1>3, <3>1, <3>3, <4>1, PushPending DEF CountInv
    <3> QED
      BY <3>2, <3>3
  <2>2. /\ call[t] # Idle /\ call'[t].kind = call[t].kind /\ call'[t].id = call[t].id
        /\ \A u \in Callers : u # t => call'[u] = call[u]
        /\ UNCHANGED <<nextId, returned>>
    BY <1>3 DEF Push, CountInv, TypeOK, Call
  <2>3. IdsBelowCounter'
    BY <2>2 DEF IdsBelowCounter, CountInv
  <2>4. IdsUnique'
    BY <2>2 DEF IdsUnique, CountInv
  <2> QED
    BY <1>1, <2>1, <2>3, <2>4 DEF CountInv
<1>4. ASSUME NEW t \in Callers, Return(t)
      PROVE CountInv'
  <2>1. CountersCoverColumns'
    BY <1>4, ReturnPending DEF CountInv, CountersCoverColumns, Return
  <2>2. /\ call[t] # Idle /\ call'[t] = Idle
        /\ \A u \in Callers : u # t => call'[u] = call[u]
        /\ nextId' = nextId
        /\ returned' = returned \cup {ResultOf(t)}
    BY <1>4 DEF Return, CountInv, TypeOK
  <2>3. ResultOf(t).kind = call[t].kind /\ ResultOf(t).id = call[t].id
    BY DEF ResultOf
  <2>4. IdsBelowCounter'
    BY <2>2, <2>3 DEF IdsBelowCounter, CountInv
  <2>5. IdsUnique'
    BY <2>2, <2>3 DEF IdsUnique, CountInv
  <2> QED
    BY <1>1, <2>1, <2>4, <2>5 DEF CountInv
<1>5. CASE Freeze
  <2>1. UNCHANGED <<column, nextId, call, returned>>
    BY <1>5 DEF Freeze
  <2> QED
    BY <1>1, <2>1 DEF CountInv, CountersCoverColumns, IdsBelowCounter, IdsUnique, Pending, InCall
<1>6. CASE UNCHANGED vars
  BY <1>1, <1>6 DEF vars, CountInv, CountersCoverColumns, IdsBelowCounter, IdsUnique, Pending, InCall
<1> QED
  BY <1>2, <1>3, <1>4, <1>5, <1>6 DEF Next, AddNode, AddEdge, Proceed, Kinds, ArgsOf

THEOREM CountInvCorrect ==
  ASSUME NoWrap
  PROVE  Spec => []CountInv
BY CountInvInit, CountInvStep, PTL DEF Spec

(* For any number of callers and rows that stay clear of the wrap, each     *)
(* counter equals the length of each of its columns plus the pushes that    *)
(* are still to come.                                                       *)
THEOREM CountersCorrect ==
  ASSUME NoWrap
  PROVE  Spec => []CountersCoverColumns
BY CountInvCorrect, PTL DEF CountInv

(* For any number of callers and rows that stay clear of the wrap, no two   *)
(* calls of a kind are given the same identifier.                           *)
THEOREM IdsUniqueCorrect ==
  ASSUME NoWrap
  PROVE  Spec => []IdsUnique
BY CountInvCorrect, PTL DEF CountInv

-----------------------------------------------------------------------------
(* The columns hold what was added: identifiers tell calls with the same      *)
(* arguments apart, so that each push has a contributor of its own.           *)
ContentInv == IsFiniteSet(returned) /\ NothingLostOrInvented

\* Where column c holds v, and the calls that put v there.
Places(c, v) == {i \in DOMAIN column[c] : column[c][i] = v}
Givers(c, v) == {r \in Contributors(c) : r.arg[c] = v}

LEMMA InCallsFinite ==
  ASSUME IsFiniteSet(returned), NEW c, NEW v
  PROVE  IsFiniteSet(Givers(c, v))
<1> DEFINE T == InCall(KindOf(c)) \ Pending(c)
           R == {ResultOf(t) : t \in T}
           F == {r \in returned : r.kind = KindOf(c)}
<1>1. IsFiniteSet(T)
  <2>1. T \subseteq Callers
    BY DEF InCall
  <2> QED
    BY <2>1, CallersAssumption, FS_Subset
<1>2. IsFiniteSet(R)
  <2> DEFINE f == [t \in T |-> ResultOf(t)]
  <2>1. f \in Surjection(T, R)
    <3> HIDE DEF T
    <3> QED
      BY DEF Surjection
  <2> QED
    BY <1>1, <2>1, FS_Surjection
<1>3. IsFiniteSet(F)
  BY FS_Subset
<1>4. IsFiniteSet(F \cup R)
  BY <1>2, <1>3, FS_Union
<1>5. Givers(c, v) \subseteq F \cup R
  BY DEF Givers, Contributors
<1> HIDE DEF F, R
<1> QED
  BY <1>4, <1>5, FS_Subset

LEMMA ContentInit == Init => ContentInv
<1> SUFFICES ASSUME Init PROVE ContentInv
  OBVIOUS
<1>1. returned = {} /\ (\A t \in Callers : call[t] = Idle) /\ \A c \in Columns : column[c] = <<>>
  BY DEF Init
<1>2. \A c : Contributors(c) = {}
  BY <1>1 DEF Contributors, InCall
<1>3. DOMAIN <<>> = {}
  OBVIOUS
<1> QED
  BY <1>1, <1>2, <1>3, FS_EmptySet DEF ContentInv, NothingLostOrInvented

LEMMA ClaimContent ==
  ASSUME CountInv, ContentInv, NEW t \in Callers, NEW k \in Kinds, NEW a \in ArgsOf(k), Claim(t, k, a)
  PROVE  ContentInv'
<1>1. /\ call[t] = Idle /\ returned' = returned /\ column' = column
      /\ \A u \in Callers : u # t => call'[u] = call[u]
      /\ call'[t].kind = k
  BY DEF Claim, CountInv, TypeOK
<1>2. ASSUME NEW c \in Columns PROVE Contributors(c)' = Contributors(c)
  <2>1. (InCall(KindOf(c)) \ Pending(c))' = InCall(KindOf(c)) \ Pending(c)
    <3>1. CASE KindOf(c) = k
      <4>1. t \in Pending(c)' /\ Pending(c)' = Pending(c) \cup {t}
        BY <3>1, ClaimPending DEF CountInv
      <4>2. \A u \in Callers : u # t => (u \in InCall(KindOf(c))' <=> u \in InCall(KindOf(c)))
        BY <1>1 DEF InCall
      <4>3. InCall(KindOf(c)) \subseteq Callers /\ InCall(KindOf(c))' \subseteq Callers
            /\ t \notin InCall(KindOf(c))
        BY <1>1 DEF InCall
      <4> QED
        BY <4>1, <4>2, <4>3
    <3>2. CASE KindOf(c) # k
      <4>1. Pending(c)' = Pending(c)
        BY <3>2, ClaimPending DEF CountInv
      <4>2. InCall(KindOf(c))' = InCall(KindOf(c))
        BY <1>1, <3>2 DEF InCall
      <4> QED
        BY <4>1, <4>2
    <3> QED
      BY <3>1, <3>2
  <2>2. \A u \in InCall(KindOf(c)) \ Pending(c) : ResultOf(u)' = ResultOf(u)
    BY <1>1 DEF ResultOf, InCall
  <2> QED
    BY <1>1, <2>1, <2>2 DEF Contributors
<1> QED
  BY <1>1, <1>2 DEF ContentInv, NothingLostOrInvented

\* The call that pushes is none of those that have pushed the column.
LEMMA PushContributors ==
  ASSUME CountInv, NEW t \in Callers, NEW c \in Columns, Push(t, c), NEW d \in Columns
  PROVE  /\ d # c => Contributors(d)' = Contributors(d)
         /\ d = c => /\ Contributors(d)' = Contributors(d) \cup {ResultOf(t)}
                     /\ ResultOf(t) \notin Contributors(d)
<1>1. /\ call[t] # Idle /\ call[t] \in Call /\ call[t].kind = KindOf(c)
      /\ call' = [call EXCEPT ![t].step = @ + 1] /\ returned' = returned
  BY DEF Push, CountInv, TypeOK
<1>2. /\ \A u \in Callers : u # t => call'[u] = call[u]
      /\ call'[t].kind = call[t].kind /\ call'[t].arg = call[t].arg /\ call'[t].id = call[t].id
  BY <1>1 DEF CountInv, TypeOK
<1>3. \A u \in Callers : ResultOf(u)' = ResultOf(u)
  BY <1>2 DEF ResultOf
<1>4. call'[t] # Idle
  <2>1. [call[t] EXCEPT !.step = @ + 1] \in Call
    <3>1. call[t].step = Rank[c] /\ Rank[c] \in 1..5
      BY RankFacts DEF LastRank, Push
    <3> QED
      BY <1>1, <3>1 DEF Call
  <2>2. call'[t] = [call[t] EXCEPT !.step = @ + 1]
    BY <1>1 DEF CountInv, TypeOK
  <2> QED
    BY <2>1, <2>2, IdleAssumption
<1>5. InCall(KindOf(d))' = InCall(KindOf(d)) /\ InCall(KindOf(d)) \subseteq Callers
  BY <1>1, <1>2, <1>4 DEF InCall
<1>6. CASE d # c
  <2>1. Pending(d)' = Pending(d)
    BY <1>6, PushPending DEF CountInv
  <2> QED
    BY <1>1, <1>3, <1>5, <1>6, <2>1 DEF Contributors
<1>7. CASE d = c
  <2>1. t \in Pending(d) /\ Pending(d)' = Pending(d) \ {t}
    BY <1>7, PushPending DEF CountInv
  <2>2. t \in InCall(KindOf(d))
    BY <1>1, <1>7 DEF InCall
  <2> DEFINE T == InCall(KindOf(d)) \ Pending(d)
             F == {r \in returned : r.kind = KindOf(d)}
  <2>3. (InCall(KindOf(d)) \ Pending(d))' = T \cup {t}
    BY <1>5, <2>1, <2>2
  <2>4. Contributors(d)' = F \cup {ResultOf(u) : u \in T \cup {t}}
    BY <1>1, <1>3, <1>5, <2>3 DEF Contributors
  <2>5. Contributors(d) = F \cup {ResultOf(u) : u \in T}
    BY DEF Contributors
  <2>6. Contributors(d)' = Contributors(d) \cup {ResultOf(t)}
    <3> HIDE DEF T, F
    <3> QED
      BY <2>4, <2>5
  <2>7. ASSUME ResultOf(t) \in F PROVE FALSE
    BY <1>1, <1>7, <2>7 DEF ResultOf, CountInv, IdsUnique
  <2>8. ASSUME NEW u \in T, ResultOf(u) = ResultOf(t) PROVE FALSE
    <3>1. u # t /\ u \in Callers /\ call[u] # Idle /\ call[u].kind = call[t].kind
      BY <1>1, <1>7, <2>1 DEF InCall
    <3>2. call[u].id = call[t].id
      BY <2>8 DEF ResultOf
    <3> QED
      BY <1>1, <3>1, <3>2 DEF CountInv, IdsUnique
  <2> QED
    BY <1>7, <2>5, <2>6, <2>7, <2>8
<1> QED
  BY <1>6, <1>7

LEMMA PushContent ==
  ASSUME CountInv, ContentInv, NEW t \in Callers, NEW c \in Columns, Push(t, c)
  PROVE  ContentInv'
<1> DEFINE x == call[t].arg[c]
<1>1. returned' = returned /\ IsFiniteSet(returned)
  BY DEF Push, ContentInv
<1>2. ASSUME NEW d \in Columns, NEW v \in Fields(d)
      PROVE  Cardinality(Places(d, v)') = Cardinality(Givers(d, v)')
  <2>1. Cardinality(Places(d, v)) = Cardinality(Givers(d, v))
    BY DEF ContentInv, NothingLostOrInvented, Places, Givers
  <2>2. CASE d # c
    <3>1. column'[d] = column[d]
      BY <2>2 DEF Push, CountInv, TypeOK
    <3>2. Contributors(d)' = Contributors(d)
      BY <2>2, PushContributors
    <3> QED
      BY <2>1, <3>1, <3>2 DEF Places, Givers
  <2>3. CASE d = c
    <3> DEFINE s == column[d]
               n == Len(s)
               s2 == Append(s, x)
    <3>1. s \in Seq(Fields(d)) /\ column'[d] = s2
      BY <2>3 DEF Push, CountInv, TypeOK
    <3>2. /\ n \in Nat /\ DOMAIN s = 1..n /\ DOMAIN s2 = 1..(n + 1) /\ s2[n + 1] = x
          /\ \A i \in 1..n : s2[i] = s[i]
      <4> HIDE DEF s, x
      <4> QED
        BY <3>1
    <3>3. /\ Contributors(d)' = Contributors(d) \cup {ResultOf(t)}
          /\ ResultOf(t) \notin Contributors(d)
      BY <2>3, PushContributors
    <3>4. ResultOf(t).arg[d] = x
      BY <2>3 DEF ResultOf
    <3>5. IsFiniteSet(Places(d, v)) /\ IsFiniteSet(Givers(d, v))
      <4>1. Places(d, v) \subseteq 1..n
        BY <3>2 DEF Places
      <4>2. IsFiniteSet(1..n)
        BY <3>2, FS_Interval
      <4> QED
        BY <1>1, <4>1, <4>2, InCallsFinite, FS_Subset
    <3>6. CASE x = v
      <4>1. Places(d, v)' = Places(d, v) \cup {n + 1} /\ n + 1 \notin Places(d, v)
        <5> HIDE DEF s2, x, n
        <5> QED
          BY <3>1, <3>2, <3>6 DEF Places
      <4>2. Givers(d, v)' = Givers(d, v) \cup {ResultOf(t)} /\ ResultOf(t) \notin Givers(d, v)
        BY <3>3, <3>4, <3>6 DEF Givers
      <4>3. Cardinality(Places(d, v) \cup {n + 1}) = Cardinality(Places(d, v)) + 1
        BY <3>5, <4>1, FS_AddElement
      <4>4. Cardinality(Givers(d, v) \cup {ResultOf(t)}) = Cardinality(Givers(d, v)) + 1
        BY <3>5, <4>2, FS_AddElement
      <4> QED
        BY <2>1, <4>1, <4>2, <4>3, <4>4
    <3>7. CASE x # v
      <4>1. Places(d, v)' = Places(d, v)
        <5> HIDE DEF s2, x, n
        <5> QED
          BY <3>1, <3>2, <3>7 DEF Places
      <4>2. Givers(d, v)' = Givers(d, v)
        BY <3>3, <3>4, <3>7 DEF Givers
      <4> QED
        BY <2>1, <4>1, <4>2
    <3> QED
      BY <3>6, <3>7
  <2> QED
    BY <2>2, <2>3
<1>3. NothingLostOrInvented'
  BY <1>2 DEF NothingLostOrInvented, Places, Givers
<1> QED
  BY <1>1, <1>3 DEF ContentInv

LEMMA ReturnContent ==
  ASSUME CountInv, ContentInv, NEW t \in Callers, Return(t)
  PROVE  ContentInv'
<1>1. /\ call[t] # Idle /\ call'[t] = Idle /\ column' = column
      /\ \A u \in Callers : u # t => call'[u] = call[u]
      /\ returned' = returned \cup {ResultOf(t)}
  BY DEF Return, CountInv, TypeOK
<1>2. IsFiniteSet(returned')
  BY <1>1, FS_AddElement DEF ContentInv
<1>3. ASSUME NEW c \in Columns PROVE Contributors(c)' = Contributors(c)
  <2> DEFINE k == KindOf(c)
             T == InCall(k) \ Pending(c)
             T2 == (InCall(k) \ Pending(c))'
             F == {r \in returned : r.kind = k}
  <2>1. Pending(c)' = Pending(c) /\ t \notin Pending(c)
    <3>1. t \notin Pending(c)'
      BY <1>1 DEF Pending, InCall
    <3> QED
      BY <3>1, ReturnPending DEF CountInv
  <2>2. InCall(k)' = InCall(k) \ {t} /\ InCall(k) \subseteq Callers
    BY <1>1 DEF InCall
  <2>3. \A u \in Callers : u # t => ResultOf(u)' = ResultOf(u)
    BY <1>1 DEF ResultOf
  <2>4. T2 = T \ {t}
    BY <2>1, <2>2
  <2>5. Contributors(c) = F \cup {ResultOf(u) : u \in T}
    BY DEF Contributors
  <2>6. Contributors(c)' = {r \in returned \cup {ResultOf(t)} : r.kind = k} \cup {ResultOf(u) : u \in T \ {t}}
    BY <1>1, <2>2, <2>3, <2>4 DEF Contributors
  <2>7. ResultOf(t).kind = k <=> t \in T
    BY <1>1, <2>1 DEF ResultOf, InCall
  <2> HIDE DEF k, T
  <2> QED
    BY <2>5, <2>6, <2>7
<1> QED
  BY <1>1, <1>2, <1>3 DEF ContentInv, NothingLostOrInvented

LEMMA ContentStep ==
  ASSUME CountInv, ContentInv, [Next]_vars
  PROVE  ContentInv'
<1>1. CASE Freeze \/ UNCHANGED vars
  BY <1>1 DEF Freeze, vars, ContentInv, NothingLostOrInvented, Contributors, InCall, Pending, ResultOf
<1> QED
  BY <1>1, ClaimContent, PushContent, ReturnContent
  DEF Next, AddNode, AddEdge, Proceed, Kinds, ArgsOf

(* MutableGraph!NothingLostOrInvented: for any number of callers that stay   *)
(* clear of the wrap, a column holds the field of every call that has pushed *)
(* it, as often as it was pushed, however the calls interleave.              *)
THEOREM ContentCorrect ==
  ASSUME NoWrap
  PROVE  Spec => []NothingLostOrInvented
<1>1. ContentInv => NothingLostOrInvented
  BY DEF ContentInv
<1>2. CountInv /\ ContentInv /\ [Next]_vars => ContentInv'
  BY ContentStep
<1> QED
  BY <1>1, <1>2, ContentInit, CountInvCorrect, PTL DEF Spec
=============================================================================
