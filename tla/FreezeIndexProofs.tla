------------------------- MODULE FreezeIndexProofs -------------------------
(***************************************************************************)
(* The indexes that freeze builds, for every graph: the walk over the      *)
(* packed bitmaps ends at the label asked for, a shared name leads to its  *)
(* highest node, every file lists its nodes, the FST builder takes every   *)
(* key and its slots hold the nodes of their string.  With the layouts of  *)
(* the edges they make the frozen graph the store that is promised.        *)
(***************************************************************************)
EXTENDS FreezeProofs

\* The columns are those of a graph that freeze is given, of one length.
ColumnsInv ==
  /\ \E g \in Inputs : columns = g.nodes
  /\ Len(columns.node_names) = node_count
  /\ \A n \in Nodes :
       /\ columns.node_labels[n + 1] \in NodeLabels
       /\ columns.node_names[n + 1] \in Names
       /\ columns.node_files[n + 1] \in Files

LEMMA InitColumns == Init => ColumnsInv
<1> SUFFICES ASSUME Init PROVE ColumnsInv
  OBVIOUS
<1>1. PICK g \in Inputs : columns = g.nodes
  BY DEF Init, CsrInit
<1>2. /\ columns \in NodeParts /\ Len(columns.node_names) = node_count
      /\ Len(columns.node_files) = node_count
  BY <1>1, InputsAssumption DEF node_count
<1>3. /\ columns.node_labels \in Seq(NodeLabels) /\ columns.node_names \in Seq(Names)
      /\ columns.node_files \in Seq(Files)
  BY <1>2 DEF NodeParts
<1>4. \A n \in Nodes : n + 1 \in 1..node_count
  BY <1>3 DEF Nodes, node_count
<1>5. \A n \in Nodes :
        /\ columns.node_labels[n + 1] \in NodeLabels
        /\ columns.node_names[n + 1] \in Names
        /\ columns.node_files[n + 1] \in Files
  BY <1>2, <1>3, <1>4 DEF node_count
<1> QED  BY <1>1, <1>2, <1>5 DEF ColumnsInv

LEMMA NextColumns == ASSUME FwdInv, [Next]_vars PROVE columns' = columns
<1>1. CASE SortEdges \/ ForwardStep
  BY <1>1
  DEF SortEdges, ForwardStep, SkipToSource, PushForward, CloseRows, ForwardDone, AdvanceNode, PushEdge
<1>2. CASE ReverseStep  BY <1>2, ReverseLater DEF FwdInv, Later
<1>3. CASE IndexStep  BY <1>3, IndexPhase DEF FwdInv
<1>4. CASE Assemble \/ UNCHANGED vars  BY <1>4 DEF Assemble, vars
<1> QED  BY <1>1, <1>2, <1>3, <1>4 DEF Next, CsrStep

LEMMA AlwaysColumns == Spec => [](FwdInv /\ ColumnsInv)
<1>1. Init => FwdInv /\ ColumnsInv  BY InitFwd, InitColumns
<1>2. ColumnsInv /\ FwdInv /\ [Next]_vars => ColumnsInv'
  BY NextColumns DEF ColumnsInv, Nodes, node_count
<1>3. (FwdInv /\ ColumnsInv) /\ [Next]_vars => (FwdInv /\ ColumnsInv)'  BY <1>2, NextFwd
<1> QED  BY <1>1, <1>3, PTL DEF Spec

\* No identifier wraps.
LEMMA NodeIdIs == ASSUME ColumnsInv PROVE \A n \in Nodes : NodeId(n) = n
<1>1. node_count \in Nat /\ node_count <= IdSpace
  <2>1. PICK g \in Inputs : columns = g.nodes  BY DEF ColumnsInv
  <2>2. columns.node_labels \in Seq(NodeLabels)
    BY <2>1, InputsAssumption DEF NodeParts
  <2> QED  BY <2>1, <2>2, IdSpaceAssumption DEF node_count
<1>2. IdSpace \in Nat \ {0}  BY IdSpaceAssumption
<1>3. \A n \in Nat : n < IdSpace => n % IdSpace = n  BY <1>2
<1>4. \A n \in Nodes : n \in Nat /\ n < IdSpace  BY <1>1, <1>2 DEF Nodes
<1> QED  BY <1>3, <1>4 DEF NodeId

\* A handle that does not resolve ends freeze; nothing it built is touched.
LEMMA PanicsAre ==
  ASSUME ResolvePanics
  PROVE  /\ phase = "files" /\ phase' = "panicked" /\ ~NamesResolve
         /\ UNCHANGED <<next, columns, bitmaps, packed, qnIndex, fileIndex, pairs, group, sideTable, fst>>
  BY DEF ResolvePanics, PastNodes, idxVars, labelVars, mapVars, nameVars

\* The steps of the adjacency half, seen from the indexes.
LEMMA CsrPhase ==
  ASSUME BaseInv, CsrStep
  PROVE  /\ phase \in CsrPhases
         /\ phase' \in CsrPhases \cup {"labels"} \/ CountPanics
<1>1. CASE SortEdges  BY <1>1 DEF SortEdges, CsrPhases
<1>2. CASE ForwardStep
  BY <1>2
  DEF ForwardStep, SkipToSource, PushForward, CloseRows, ForwardDone, AdvanceNode, PushEdge,
      Over, Past, Enter, CsrPhases
<1>3. CASE ReverseStep
  BY <1>3
  DEF ReverseStep, CountIncoming, CountPanics, CountDone, PrefixSum, PrefixDone, Place, PlaceDone,
      Over, Past, Enter, CsrPhases
<1> QED  BY <1>1, <1>2, <1>3 DEF CsrStep

-----------------------------------------------------------------------------
(* The map from names to nodes. *)

\* It leads to the last of the first k nodes of each name.
NamedUpTo(k) ==
  /\ \A h \in DOMAIN qnIndex : qnIndex[h] \in 0..(k - 1) /\ columns.node_names[qnIndex[h] + 1] = h
  /\ \A n \in 0..(k - 1) :
       /\ columns.node_names[n + 1] \in DOMAIN qnIndex
       /\ n <= qnIndex[columns.node_names[n + 1]]

QnInv ==
  /\ phase \in CsrPhases \cup {"labels", "pack"} => qnIndex = <<>>
  /\ phase = "qn" => next <= node_count /\ NamedUpTo(next)
  /\ phase \in {"files", "group", "done"} => NamedUpTo(node_count)
  /\ phase = "done" => frozen.qn_index = qnIndex

LEMMA InitQn == Init => QnInv
  BY DEF Init, CsrInit, IdxInit, QnInv, CsrPhases

LEMMA NamedEmpty == ASSUME qnIndex = <<>> PROVE NamedUpTo(0)
<1>1. DOMAIN <<>> = {}  OBVIOUS
<1> QED  BY <1>1 DEF NamedUpTo

LEMMA InsertNameQn == ASSUME FwdInv, ColumnsInv, QnInv, InsertName PROVE QnInv'
<1>0. next \in Nat /\ node_count \in Nat /\ next < node_count
  BY NodeCountType DEF FwdInv, BaseInv, InsertName, OverNodes
<1>1. /\ phase = "qn" /\ next < node_count /\ next' = next + 1 /\ UNCHANGED <<phase, columns>>
      /\ qnIndex' = [x \in DOMAIN qnIndex \cup {columns.node_names[next + 1]} |->
                       IF x = columns.node_names[next + 1] THEN next ELSE qnIndex[x]]
  <2>1. NodeId(next) = next  BY <1>0, NodeIdIs DEF Nodes
  <2> QED  BY <2>1 DEF InsertName, Insert, OverNodes
<1>2. NamedUpTo(next)  BY <1>1 DEF QnInv
<1>3. next \in Nat /\ node_count \in Nat /\ node_count' = node_count
  BY <1>0, <1>1 DEF node_count
<1>4. \A h \in DOMAIN qnIndex' :
        qnIndex'[h] \in 0..next /\ columns.node_names[qnIndex'[h] + 1] = h
  BY <1>1, <1>2, <1>3 DEF NamedUpTo
<1>5. \A n \in 0..next :
        /\ columns.node_names[n + 1] \in DOMAIN qnIndex'
        /\ n <= qnIndex'[columns.node_names[n + 1]]
  <2> SUFFICES ASSUME NEW n \in 0..next
               PROVE  /\ columns.node_names[n + 1] \in DOMAIN qnIndex'
                      /\ n <= qnIndex'[columns.node_names[n + 1]]
    OBVIOUS
  <2>1. CASE columns.node_names[n + 1] = columns.node_names[next + 1]
    BY <1>1, <1>3, <2>1
  <2>2. CASE columns.node_names[n + 1] # columns.node_names[next + 1]
    <3>1. n \in 0..(next - 1)  BY <1>3, <2>2
    <3> QED  BY <1>1, <1>2, <2>2, <3>1 DEF NamedUpTo
  <2> QED  BY <2>1, <2>2
<1>6. (next + 1) - 1 = next  BY <1>3
<1>7. NamedUpTo(next)'  BY <1>1, <1>4, <1>5, <1>6 DEF NamedUpTo
<1> QED  BY <1>1, <1>3, <1>7 DEF QnInv, CsrPhases

LEMMA NextQn == ASSUME FwdInv, ColumnsInv, QnInv, [Next]_vars PROVE QnInv'
<1> USE DEF OverNodes, PastNodes, Enter
<1>1. columns' = columns /\ node_count' = node_count  BY NextColumns DEF node_count
<1>2. ASSUME qnIndex' = qnIndex,
             \/ phase \in CsrPhases \cup {"labels", "pack"}
                /\ phase' \in CsrPhases \cup {"labels", "pack", "panicked"}
             \/ phase = "pack" /\ phase' = "qn" /\ next' = 0
             \/ phase = "qn" /\ phase' = "files" /\ next = node_count
             \/ phase \in {"files", "group"} /\ phase' \in {"files", "group", "panicked"}
             \/ phase = "group" /\ phase' = "done" /\ frozen'.qn_index = qnIndex
      PROVE  QnInv'
  <2>1. node_count \in Nat  BY NodeCountType DEF FwdInv, BaseInv
  <2>2. CASE phase = "pack" /\ phase' = "qn" /\ next' = 0
    <3>1. qnIndex = <<>>  BY <2>2 DEF QnInv
    <3>2. NamedUpTo(0)  BY <3>1, NamedEmpty
    <3>3. NamedUpTo(next)'  BY <1>1, <1>2, <2>2, <3>2 DEF NamedUpTo
    <3> QED  BY <1>1, <2>1, <2>2, <3>3 DEF QnInv, CsrPhases
  <2>3. CASE phase' \in {"files", "group", "done"}
    <3>1. NamedUpTo(node_count)  BY <1>2, <2>3 DEF QnInv, CsrPhases
    <3>2. NamedUpTo(node_count)'  BY <1>1, <1>2, <3>1 DEF NamedUpTo
    <3>3. phase' = "done" => frozen'.qn_index = qnIndex  BY <1>2 DEF CsrPhases
    <3> QED  BY <1>2, <2>3, <3>2, <3>3 DEF QnInv, CsrPhases
  <2>4. CASE phase' \in CsrPhases \cup {"labels", "pack", "panicked"}
    <3>1. phase' # "panicked" => qnIndex = <<>>  BY <1>2, <2>4 DEF QnInv, CsrPhases
    <3> QED  BY <1>2, <2>4, <3>1 DEF QnInv, CsrPhases
  <2> QED  BY <1>2, <2>2, <2>3, <2>4
<1>3. CASE CsrStep /\ UNCHANGED idxVars
  <2>1. phase \in CsrPhases /\ phase' \in CsrPhases \cup {"labels", "panicked"}
    BY <1>3, CsrPhase DEF FwdInv, CountPanics
  <2> QED  BY <1>2, <1>3, <2>1 DEF idxVars, mapVars
<1>4. CASE LabelStep
  BY <1>2, <1>4
  DEF LabelStep, InsertLabel, LabelsDone, PackBitmap, PackDone, mapVars, idxVars
<1>5. CASE InsertName  BY <1>5, InsertNameQn
<1>6. CASE NamesDone  BY <1>2, <1>6 DEF NamesDone, idxVars, mapVars
<1>7. CASE InsertFile  BY <1>2, <1>7 DEF InsertFile
<1>8. CASE NameStep
  <2>1. CASE SortPairs  BY <1>2, <2>1 DEF SortPairs, mapVars
  <2>2. CASE OpenGroup  BY <1>2, <2>2 DEF OpenGroup, mapVars
  <2>3. CASE JoinGroup  BY <1>2, <2>3 DEF JoinGroup, mapVars
  <2>4. CASE CloseGroup  BY <1>2, <2>4 DEF CloseGroup, mapVars
  <2>5. CASE ResolvePanics  BY <1>2, <2>5, PanicsAre
  <2> QED  BY <1>8, <2>1, <2>2, <2>3, <2>4, <2>5 DEF NameStep
<1>9. CASE Assemble  BY <1>2, <1>9 DEF Assemble, idxVars, mapVars
<1>10. CASE UNCHANGED vars
  <2>1. UNCHANGED <<phase, next, columns, qnIndex, frozen>>
    BY <1>10 DEF vars, idxVars, mapVars
  <2>2. /\ NamedUpTo(next)' = NamedUpTo(next)
        /\ NamedUpTo(node_count)' = NamedUpTo(node_count)
    BY <1>1, <2>1 DEF NamedUpTo
  <2> QED  BY <1>1, <2>1, <2>2 DEF QnInv
<1> QED  BY <1>3, <1>4, <1>5, <1>6, <1>7, <1>8, <1>9, <1>10 DEF Next, IndexStep, MapStep

(* Freeze!HighestNodeWins, for every graph: lookup_qn of a name that several  *)
(* nodes share answers the highest of them, and of an unused one nothing.     *)
THEOREM HighestNodeWinsHolds == Spec => []HighestNodeWins
<1>1. FwdInv /\ QnInv => HighestNodeWins
  <2> SUFFICES ASSUME FwdInv, QnInv, phase = "done", NEW h \in Names
               PROVE  lookup_qn(frozen, h) =
                        {n \in Nodes : columns.node_names[n + 1] = h
                           /\ \A m \in Nodes : columns.node_names[m + 1] = h => m <= n}
    BY DEF HighestNodeWins, Frozen
  <2>1. NamedUpTo(node_count) /\ frozen.qn_index = qnIndex /\ node_count \in Nat
    BY NodeCountType DEF QnInv, FwdInv, BaseInv
  <2>2. CASE h \in DOMAIN qnIndex
    <3>1. /\ qnIndex[h] \in Nodes /\ columns.node_names[qnIndex[h] + 1] = h
          /\ \A m \in Nodes : columns.node_names[m + 1] = h => m <= qnIndex[h]
      BY <2>1, <2>2 DEF NamedUpTo, Nodes
    <3>2. \A n \in Nodes : n \in Int  BY <2>1 DEF Nodes
    <3>3. \A n \in Nodes : n <= qnIndex[h] /\ qnIndex[h] <= n => n = qnIndex[h]
      BY <3>1, <3>2
    <3>4. lookup_qn(frozen, h) = {qnIndex[h]}  BY <2>1, <2>2 DEF lookup_qn
    <3> QED  BY <3>1, <3>3, <3>4
  <2>3. CASE h \notin DOMAIN qnIndex
    <3>1. \A n \in Nodes : columns.node_names[n + 1] # h
      BY <2>1, <2>3 DEF NamedUpTo, Nodes
    <3>2. lookup_qn(frozen, h) = {}  BY <2>1, <2>3 DEF lookup_qn
    <3> QED  BY <3>1, <3>2
  <2> QED  BY <2>2, <2>3
<1>2. QnInv /\ (FwdInv /\ ColumnsInv) /\ [Next]_vars => QnInv'  BY NextQn
<1> QED  BY InitQn, AlwaysColumns, <1>1, <1>2, PTL DEF Spec

-----------------------------------------------------------------------------
(* The groups of equal names: whatever is fed to the FST builder next is      *)
(* greater than what was fed last.                                            *)

Keyed == [key : Nat, slot : Nat]

\* The pairs from place i on have a key of at least k.
AtLeast(i, k) == \A j \in i..node_count : k <= pairs[j][1]

GroupInv ==
  /\ next <= node_count
  /\ pairs \in [1..node_count -> Nat \X Nat] /\ InOrder(pairs)
  /\ group = NoGroup \/ group \in [key : Nat, slot : Nat, nodes : Seq(Nat)]
  /\ sideTable \in Seq(Seq(Nat)) /\ fst \in Seq(Keyed)
  /\ group = NoGroup => \A j \in (next + 1)..node_count : Accepted(pairs[j][1])
  /\ group # NoGroup => Accepted(group.key) /\ AtLeast(next + 1, group.key)

Dangling == \E i \in 1..Len(edges) : edges[i].tgt \notin Nodes

KeysInv ==
  /\ phase \in CsrPhases \cup {"labels", "pack", "qn", "files"} =>
       group = NoGroup /\ sideTable = <<>> /\ fst = <<>>
  /\ phase = "group" => GroupInv
  /\ phase \in {"group", "done"} => NamesResolve
  /\ phase = "panicked" => ~NamesResolve \/ Dangling

LEMMA InitKeys == Init => KeysInv
  BY DEF Init, CsrInit, IdxInit, KeysInv, CsrPhases

\* A key that the builder accepts can be raised.
LEMMA AcceptedAbove ==
  ASSUME fst \in Seq(Keyed), NEW k \in Nat, NEW l \in Nat, k <= l, Accepted(k)
  PROVE  Accepted(l)
<1>1. CASE fst = <<>>  BY <1>1 DEF Accepted
<1>2. CASE fst # <<>>
  <2>1. Len(fst) \in 1..Len(fst)  BY <1>2
  <2>2. fst[Len(fst)] \in Keyed  BY <2>1
  <2>3. fst[Len(fst)].key \in Nat  BY <2>2 DEF Keyed
  <2> QED  BY <2>3 DEF Accepted
<1> QED  BY <1>1, <1>2

LEMMA PairsAscend ==
  ASSUME GroupInv, node_count \in Nat, next \in Nat, next < node_count
  PROVE  pairs[next + 1][1] \in Nat /\ pairs[next + 1][2] \in Nat /\ AtLeast(next + 1, pairs[next + 1][1])
<1>1. /\ DOMAIN pairs = 1..node_count /\ next + 1 \in 1..node_count
      /\ \A j \in 1..node_count : pairs[j] \in Nat \X Nat
  BY DEF GroupInv
<1>2. \A j \in 1..node_count : pairs[j][1] \in Nat /\ pairs[j][2] \in Nat  BY <1>1
<1>3. ASSUME NEW j \in (next + 1)..node_count PROVE pairs[next + 1][1] <= pairs[j][1]
  <2>1. CASE j = next + 1  BY <1>1, <1>2, <2>1
  <2>2. CASE j # next + 1
    <3>1. next + 1 < j /\ j \in 1..node_count  BY <1>1, <1>3, <2>2
    <3>2. Before(pairs[next + 1], pairs[j])  BY <1>1, <3>1 DEF GroupInv, InOrder
    <3> QED  BY <1>1, <1>2, <3>1, <3>2 DEF Before
  <2> QED  BY <2>1, <2>2
<1> QED  BY <1>1, <1>2, <1>3 DEF AtLeast

LEMMA SortPairsKeys == ASSUME FwdInv, ColumnsInv, KeysInv, SortPairs PROVE KeysInv'
<1>1. /\ phase = "files" /\ phase' = "group" /\ next' = 0 /\ columns' = columns
      /\ UNCHANGED <<group, sideTable, fst>>
  BY DEF SortPairs, PastNodes, Enter
<1>2. PICK s \in [1..node_count -> NamedNodes] : InOrder(s) /\ pairs' = s
  BY DEF SortPairs
<1>3. group = NoGroup /\ sideTable = <<>> /\ fst = <<>>  BY <1>1 DEF KeysInv
<1>4. node_count \in Nat /\ node_count' = node_count
  BY <1>1, NodeCountType DEF FwdInv, BaseInv, node_count
<1>5. NamesResolve /\ NamedNodes \subseteq Nat \X Nat
  <2>1. NamesResolve  BY DEF SortPairs
  <2>2. \A n \in Nodes : NodeId(n) \in Nat /\ Resolve[columns.node_names[n + 1]] \in Nat
    BY <1>4, <2>1, NodeIdIs, ResolveAssumption DEF NamesResolve, Nodes
  <2> QED  BY <2>1, <2>2 DEF NamedNodes
<1>6. pairs' \in [1..node_count -> Nat \X Nat] /\ InOrder(pairs')
  BY <1>2, <1>5
<1>7. <<>> \in Seq(Seq(Nat)) /\ <<>> \in Seq(Keyed)  OBVIOUS
<1>8. \A k : Accepted(k)'  BY <1>1, <1>3 DEF Accepted
<1>9. GroupInv'
  BY <1>1, <1>3, <1>4, <1>6, <1>7, <1>8 DEF GroupInv, InOrder, Before
<1>10. NamesResolve'  BY <1>1, <1>5 DEF NamesResolve, Nodes, node_count
<1> QED  BY <1>1, <1>9, <1>10 DEF KeysInv, CsrPhases

LEMMA OpenGroupKeys == ASSUME FwdInv, KeysInv, OpenGroup PROVE KeysInv'
<1>1. /\ phase = "group" /\ next < node_count /\ group = NoGroup
      /\ group' = [key |-> pairs[next + 1][1], slot |-> Len(sideTable), nodes |-> <<>>]
      /\ UNCHANGED <<phase, next, columns, pairs, sideTable, fst>>
  BY DEF OpenGroup, OverNodes, NextSlot
<1>2. GroupInv  BY <1>1 DEF KeysInv
<1>3. node_count \in Nat /\ next \in Nat /\ node_count' = node_count
  BY <1>1, NodeCountType DEF FwdInv, BaseInv, node_count
<1>4. pairs[next + 1][1] \in Nat /\ AtLeast(next + 1, pairs[next + 1][1])
  BY <1>1, <1>2, <1>3, PairsAscend
<1>5. Accepted(pairs[next + 1][1])
  <2>1. next + 1 \in (next + 1)..node_count  BY <1>1, <1>3
  <2> QED  BY <1>1, <1>2, <2>1 DEF GroupInv
<1>6. group' \in [key : Nat, slot : Nat, nodes : Seq(Nat)]
  <2>1. Len(sideTable) \in Nat  BY <1>2 DEF GroupInv
  <2>2. <<>> \in Seq(Nat)  OBVIOUS
  <2> QED  BY <1>1, <1>4, <2>1, <2>2
<1>7. group'.key = pairs[next + 1][1]  BY <1>1
<1>8. GroupInv'
  BY <1>1, <1>2, <1>3, <1>4, <1>5, <1>6, <1>7 DEF GroupInv, Accepted, AtLeast
<1>9. NamesResolve'  BY <1>1 DEF KeysInv, NamesResolve, Nodes, node_count
<1> QED  BY <1>1, <1>8, <1>9 DEF KeysInv, CsrPhases

LEMMA JoinGroupKeys == ASSUME FwdInv, KeysInv, JoinGroup PROVE KeysInv'
<1>1. /\ phase = "group" /\ group # NoGroup /\ next < node_count
      /\ group' = [group EXCEPT !.nodes = Append(@, pairs[next + 1][2])]
      /\ next' = next + 1
      /\ UNCHANGED <<phase, columns, pairs, sideTable, fst>>
  BY DEF JoinGroup, Joins
<1>2. GroupInv  BY <1>1 DEF KeysInv
<1>3. node_count \in Nat /\ next \in Nat /\ node_count' = node_count
  BY <1>1, NodeCountType DEF FwdInv, BaseInv, node_count
<1>4. /\ group \in [key : Nat, slot : Nat, nodes : Seq(Nat)] /\ fst \in Seq(Keyed)
      /\ Accepted(group.key) /\ AtLeast(next + 1, group.key)
  BY <1>1, <1>2 DEF GroupInv
<1>5. pairs[next + 1][2] \in Nat  BY <1>1, <1>2, <1>3, PairsAscend
<1>6. group' \in [key : Nat, slot : Nat, nodes : Seq(Nat)] /\ group'.key = group.key
  <2>1. Append(group.nodes, pairs[next + 1][2]) \in Seq(Nat)
    <3>1. group.nodes \in Seq(Nat)  BY <1>4
    <3> QED  BY <1>5, <3>1, AppendFacts
  <2> QED  BY <1>1, <1>4, <2>1
<1>7. AtLeast(next + 2, group.key)  BY <1>3, <1>4 DEF AtLeast
<1>8. \A j \in (next + 2)..node_count : Accepted(pairs[j][1])
  <2> SUFFICES ASSUME NEW j \in (next + 2)..node_count PROVE Accepted(pairs[j][1])
    OBVIOUS
  <2>1. pairs[j][1] \in Nat
    <3>1. j \in 1..node_count  BY <1>3
    <3>2. pairs[j] \in Nat \X Nat  BY <1>2, <3>1 DEF GroupInv
    <3> QED  BY <3>2
  <2>2. group.key <= pairs[j][1] /\ group.key \in Nat  BY <1>4, <1>7 DEF AtLeast
  <2> QED  BY <1>4, <2>1, <2>2, AcceptedAbove
<1>9. next' + 1 = next + 2 /\ next' <= node_count'  BY <1>1, <1>3
<1>10. GroupInv'
  BY <1>1, <1>2, <1>3, <1>4, <1>6, <1>7, <1>8, <1>9 DEF GroupInv, Accepted, AtLeast
<1>11. NamesResolve'  BY <1>1 DEF KeysInv, NamesResolve, Nodes, node_count
<1> QED  BY <1>1, <1>10, <1>11 DEF KeysInv, CsrPhases

LEMMA CloseGroupKeys == ASSUME FwdInv, KeysInv, CloseGroup PROVE KeysInv'
<1>1. /\ phase = "group" /\ group # NoGroup /\ ~Joins
      /\ sideTable' = Append(sideTable, group.nodes)
      /\ group' = NoGroup
      /\ UNCHANGED <<next, columns, pairs>>
  BY DEF CloseGroup
<1>2. GroupInv  BY <1>1 DEF KeysInv
<1>3. node_count \in Nat /\ next \in Nat /\ node_count' = node_count
  BY <1>1, NodeCountType DEF FwdInv, BaseInv, node_count
<1>4. /\ group \in [key : Nat, slot : Nat, nodes : Seq(Nat)] /\ fst \in Seq(Keyed)
      /\ sideTable \in Seq(Seq(Nat))
      /\ Accepted(group.key) /\ AtLeast(next + 1, group.key)
  BY <1>1, <1>2 DEF GroupInv
<1>5. phase' = phase /\ fst' = Append(fst, [key |-> group.key, slot |-> group.slot])
  BY <1>4 DEF CloseGroup
<1>6. [key |-> group.key, slot |-> group.slot] \in Keyed  BY <1>4 DEF Keyed
<1>7. /\ fst' \in Seq(Keyed) /\ Len(fst') = Len(fst) + 1
      /\ fst'[Len(fst) + 1] = [key |-> group.key, slot |-> group.slot]
  BY <1>4, <1>5, <1>6, AppendFacts
<1>8. fst'[Len(fst')].key = group.key  BY <1>7
<1>9. sideTable' \in Seq(Seq(Nat))
  <2>1. group.nodes \in Seq(Nat)  BY <1>4
  <2> QED  BY <1>1, <1>4, <2>1, AppendFacts
<1>10. \A j \in (next + 1)..node_count : group.key < pairs[j][1]
  <2> SUFFICES ASSUME NEW j \in (next + 1)..node_count PROVE group.key < pairs[j][1]
    OBVIOUS
  <2>1. next < node_count /\ next + 1 \in (next + 1)..node_count  BY <1>3
  <2>2. pairs[next + 1][1] # group.key  BY <1>1, <2>1 DEF Joins
  <2>3. group.key \in Nat /\ group.key <= pairs[next + 1][1]
    BY <1>4, <2>1 DEF AtLeast
  <2>4. pairs[next + 1][1] \in Nat /\ pairs[next + 1][1] <= pairs[j][1]
    BY <1>2, <1>3, <2>1, PairsAscend DEF AtLeast
  <2>5. pairs[j][1] \in Nat
    <3>1. j \in 1..node_count  BY <1>3
    <3>2. pairs[j] \in Nat \X Nat  BY <1>2, <3>1 DEF GroupInv
    <3> QED  BY <3>2
  <2> QED  BY <2>2, <2>3, <2>4, <2>5
<1>11. \A j \in (next + 1)..node_count : Accepted(pairs[j][1])'
  BY <1>1, <1>8, <1>10 DEF Accepted
<1>12. GroupInv'
  BY <1>1, <1>2, <1>3, <1>7, <1>9, <1>11 DEF GroupInv
<1>13. NamesResolve'  BY <1>1 DEF KeysInv, NamesResolve, Nodes, node_count
<1> QED  BY <1>1, <1>5, <1>12, <1>13 DEF KeysInv, CsrPhases

LEMMA NextKeys == ASSUME FwdInv, ColumnsInv, KeysInv, [Next]_vars PROVE KeysInv'
<1> USE DEF OverNodes, PastNodes, Enter
<1>1. ASSUME UNCHANGED nameVars,
             phase \in CsrPhases \cup {"labels", "pack", "qn", "files"},
             phase' \in CsrPhases \cup {"labels", "pack", "qn", "files"}
      PROVE  KeysInv'
  BY <1>1 DEF KeysInv, nameVars, CsrPhases
<1>2. CASE CsrStep /\ UNCHANGED idxVars
  <2>1. CASE CountPanics
    <3>1. phase = "count" /\ next < Len(edges) /\ Here.tgt >= node_count /\ edges' = edges
          /\ phase' = "panicked" /\ columns' = columns
      BY <2>1 DEF CountPanics, Over, csrVars
    <3>2. next + 1 \in 1..Len(edges) /\ Here = edges[next + 1] /\ Here.tgt \in Nat
      BY <3>1, EdgeFields DEF FwdInv, BaseInv, Here
    <3>3. Here.tgt \notin Nodes
      <4>1. node_count \in Nat  BY NodeCountType DEF FwdInv, BaseInv
      <4> QED  BY <3>1, <3>2, <4>1 DEF Nodes
    <3>4. Dangling'  BY <3>1, <3>2, <3>3 DEF Dangling, Nodes, node_count
    <3> QED  BY <3>1, <3>4 DEF KeysInv, CsrPhases
  <2>2. CASE ~CountPanics
    <3>1. phase \in CsrPhases /\ phase' \in CsrPhases \cup {"labels"}
      BY <1>2, <2>2, CsrPhase DEF FwdInv
    <3> QED  BY <1>1, <1>2, <3>1 DEF idxVars
  <2> QED  BY <2>1, <2>2
<1>3. CASE LabelStep
  BY <1>1, <1>3
  DEF LabelStep, InsertLabel, LabelsDone, PackBitmap, PackDone, idxVars
<1>4. CASE MapStep
  BY <1>1, <1>4 DEF MapStep, InsertName, NamesDone, InsertFile, idxVars
<1>5. CASE NameStep
  <2>1. CASE ResolvePanics
    <3>1. ~NamesResolve'  BY <2>1, PanicsAre DEF NamesResolve, Nodes, node_count
    <3>2. phase' = "panicked"  BY <2>1, PanicsAre
    <3> QED  BY <3>1, <3>2 DEF KeysInv, CsrPhases
  <2> QED
    BY <1>5, <2>1, SortPairsKeys, OpenGroupKeys, JoinGroupKeys, CloseGroupKeys DEF NameStep
<1>6. CASE Assemble
  <2>1. phase = "group" /\ phase' = "done" /\ columns' = columns  BY <1>6 DEF Assemble
  <2>2. NamesResolve'  BY <2>1 DEF KeysInv, NamesResolve, Nodes, node_count
  <2> QED  BY <2>1, <2>2 DEF KeysInv, CsrPhases
<1>7. CASE UNCHANGED vars
  <2>1. UNCHANGED <<phase, next, columns, edges, pairs, group, sideTable, fst>>
    BY <1>7 DEF vars, idxVars, nameVars, csrVars
  <2>2. NamesResolve' = NamesResolve /\ Dangling' = Dangling
    BY <2>1 DEF NamesResolve, Dangling, Nodes, node_count
  <2>3. GroupInv' = GroupInv
    BY <2>1 DEF GroupInv, AtLeast, Accepted, InOrder, Before, node_count
  <2> QED  BY <2>1, <2>2, <2>3 DEF KeysInv
<1> QED  BY <1>2, <1>3, <1>4, <1>5, <1>6, <1>7 DEF Next, IndexStep

(* Freeze!KeysAscend, for every graph and whatever the names resolve to: the  *)
(* keys fed to the FST builder ascend, and only a dangling target or a name   *)
(* that does not resolve makes freeze panic.                                  *)
THEOREM KeysAscendHolds == Spec => []KeysAscend
<1>1. KeysInv => KeysAscend  BY DEF KeysInv, KeysAscend, Dangling
<1>2. FwdInv /\ [Next]_vars => FwdInv'  BY NextFwd
<1>3. ColumnsInv /\ FwdInv /\ [Next]_vars => ColumnsInv'
  BY NextColumns DEF ColumnsInv, Nodes, node_count
<1>4. FwdInv /\ ColumnsInv /\ KeysInv /\ [Next]_vars => KeysInv'  BY NextKeys
<1> QED  BY InitFwd, InitColumns, InitKeys, <1>1, <1>2, <1>3, <1>4, PTL DEF Spec

-----------------------------------------------------------------------------
(* The map from files to their nodes. *)

\* What is listed under a file; nothing before its first node.
Under(f) == IF f \in DOMAIN fileIndex THEN fileIndex[f] ELSE <<>>

\* A list holds those of the first k nodes that are in file f, in ascending order.
ListsNodes(s, f, k) ==
  /\ s \in Seq(0..(k - 1))
  /\ \A i \in 1..Len(s) : columns.node_files[s[i] + 1] = f
  /\ \A i, j \in 1..Len(s) : i < j => s[i] < s[j]
  /\ \A n \in 0..(k - 1) : columns.node_files[n + 1] = f => \E i \in 1..Len(s) : s[i] = n

ListedUpTo(k) ==
  /\ DOMAIN fileIndex \subseteq Files
  /\ \A f \in Files : ListsNodes(Under(f), f, k)

FilesInv ==
  /\ phase \in CsrPhases \cup {"labels", "pack", "qn"} => fileIndex = <<>>
  /\ phase = "files" => next <= node_count /\ ListedUpTo(next)
  /\ phase \in {"group", "done"} => ListedUpTo(node_count)
  /\ phase = "done" => frozen.file_index = fileIndex

LEMMA InitFiles == Init => FilesInv
  BY DEF Init, CsrInit, IdxInit, FilesInv, CsrPhases

LEMMA ListedNone == ASSUME fileIndex = <<>> PROVE ListedUpTo(0)
<1>1. DOMAIN <<>> = {} /\ <<>> \in Seq(0..(0 - 1)) /\ Len(<<>>) = 0  OBVIOUS
<1> QED  BY <1>1 DEF ListedUpTo, ListsNodes, Under

\* A list of the next node's file takes it; another one is not concerned.
LEMMA ListsNext ==
  ASSUME NEW s, NEW f, NEW k \in Nat, ListsNodes(s, f, k)
  PROVE  /\ columns.node_files[k + 1] = f => ListsNodes(s \o <<k>>, f, k + 1)
         /\ columns.node_files[k + 1] # f => ListsNodes(s, f, k + 1)
<1> DEFINE K == 0..((k + 1) - 1)
<1>1. s \in Seq(0..(k - 1)) /\ s \in Seq(K) /\ k \in K /\ Len(s) \in Nat
  <2>1. s \in Seq(0..(k - 1))  BY DEF ListsNodes
  <2>2. 0..(k - 1) \subseteq K /\ k \in K  OBVIOUS
  <2> QED  BY <2>1, <2>2
<1>2. /\ s \o <<k>> \in Seq(K) /\ Len(s \o <<k>>) = Len(s) + 1
      /\ \A i \in 1..Len(s) : (s \o <<k>>)[i] = s[i]
      /\ (s \o <<k>>)[Len(s) + 1] = k
  <2> HIDE DEF K
  <2> QED  BY <1>1
<1>3. \A i \in 1..Len(s) : s[i] \in 0..(k - 1)  BY <1>1
<1>4. ASSUME columns.node_files[k + 1] = f PROVE ListsNodes(s \o <<k>>, f, k + 1)
  <2> DEFINE t == s \o <<k>>
  <2>1. /\ t \in Seq(K) /\ Len(t) = Len(s) + 1 /\ t[Len(s) + 1] = k
        /\ \A i \in 1..Len(s) : t[i] = s[i]
    BY <1>2
  <2> HIDE DEF t
  <2>2. \A i \in 1..Len(t) : i \in 1..Len(s) \/ i = Len(s) + 1  BY <1>1, <2>1
  <2>3. \A i \in 1..Len(t) : columns.node_files[t[i] + 1] = f
    BY <1>4, <2>1, <2>2 DEF ListsNodes
  <2>4. ASSUME NEW i \in 1..Len(t), NEW j \in 1..Len(t), i < j PROVE t[i] < t[j]
    <3>1. i \in 1..Len(s)  BY <1>1, <2>2, <2>4
    <3>2. CASE j \in 1..Len(s)  BY <2>1, <2>4, <3>1, <3>2 DEF ListsNodes
    <3>3. CASE j = Len(s) + 1  BY <1>3, <2>1, <3>1, <3>3
    <3> QED  BY <2>2, <3>2, <3>3
  <2>5. ASSUME NEW n \in K, columns.node_files[n + 1] = f
        PROVE  \E i \in 1..Len(t) : t[i] = n
    <3>1. CASE n = k
      <4>1. Len(s) + 1 \in 1..Len(t)  BY <1>1, <2>1
      <4> QED  BY <2>1, <3>1, <4>1
    <3>2. CASE n # k
      <4>1. n \in 0..(k - 1)  BY <3>2
      <4>2. PICK i \in 1..Len(s) : s[i] = n  BY <2>5, <4>1 DEF ListsNodes
      <4>3. i \in 1..Len(t)  BY <1>1, <2>1
      <4> QED  BY <2>1, <4>2, <4>3
    <3> QED  BY <3>1, <3>2
  <2> QED  BY <2>1, <2>3, <2>4, <2>5 DEF ListsNodes, t
<1>5. ASSUME columns.node_files[k + 1] # f PROVE ListsNodes(s, f, k + 1)
  <2>1. \A n \in K : columns.node_files[n + 1] = f => n \in 0..(k - 1)
    BY <1>5
  <2> QED  BY <1>1, <2>1 DEF ListsNodes
<1> QED  BY <1>4, <1>5

LEMMA InsertFileFiles == ASSUME FwdInv, ColumnsInv, FilesInv, InsertFile PROVE FilesInv'
<1> DEFINE g == columns.node_files[next + 1]
<1>0. NodeId(next) = next
  <2>1. next \in Nodes
    BY NodeCountType DEF FwdInv, BaseInv, InsertFile, OverNodes, Nodes
  <2> QED  BY <2>1, NodeIdIs
<1>1. /\ phase = "files" /\ next < node_count /\ next' = next + 1 /\ UNCHANGED <<phase, columns>>
      /\ fileIndex' = [x \in DOMAIN fileIndex \cup {g} |-> IF x = g THEN Under(g) \o <<next>> ELSE fileIndex[x]]
  BY <1>0 DEF InsertFile, OverNodes, Listed, Under
<1>2. next \in Nat /\ node_count \in Nat /\ node_count' = node_count
  BY <1>1, NodeCountType DEF FwdInv, BaseInv, node_count
<1>3. ListedUpTo(next)  BY <1>1 DEF FilesInv
<1>4. g \in Files
  <2>1. next \in Nodes  BY <1>1, <1>2 DEF Nodes
  <2> QED  BY <2>1 DEF ColumnsInv
<1>5. DOMAIN fileIndex' \subseteq Files  BY <1>1, <1>3, <1>4 DEF ListedUpTo
<1>6. ASSUME NEW f \in Files PROVE ListsNodes(Under(f), f, next)'
  <2>1. ListsNodes(Under(f), f, next)  BY <1>3 DEF ListedUpTo
  <2>2. Under(f)' = IF f = g THEN Under(f) \o <<next>> ELSE Under(f)  BY <1>1 DEF Under
  <2>3. ListsNodes(Under(f)', f, next + 1)
    BY <1>2, <2>1, <2>2, ListsNext
  <2> QED  BY <1>1, <2>3 DEF ListsNodes
<1>7. ListedUpTo(next)'  BY <1>5, <1>6 DEF ListedUpTo
<1> QED  BY <1>1, <1>2, <1>7 DEF FilesInv, CsrPhases

LEMMA NextFiles == ASSUME FwdInv, ColumnsInv, FilesInv, [Next]_vars PROVE FilesInv'
<1> USE DEF OverNodes, PastNodes, Enter
<1>1. columns' = columns /\ node_count' = node_count  BY NextColumns DEF node_count
<1>2. ASSUME fileIndex' = fileIndex,
             \/ phase \in CsrPhases \cup {"labels", "pack", "qn"}
                /\ phase' \in CsrPhases \cup {"labels", "pack", "qn", "panicked"}
             \/ phase = "qn" /\ phase' = "files" /\ next' = 0
             \/ phase = "files" /\ phase' = "group" /\ next = node_count
             \/ phase = "files" /\ phase' = "panicked"
             \/ phase = "group" /\ phase' \in {"group", "panicked"}
             \/ phase = "group" /\ phase' = "done" /\ frozen'.file_index = fileIndex
      PROVE  FilesInv'
  <2>1. node_count \in Nat  BY NodeCountType DEF FwdInv, BaseInv
  <2>2. CASE phase = "qn" /\ phase' = "files" /\ next' = 0
    <3>1. fileIndex = <<>>  BY <2>2 DEF FilesInv
    <3>2. ListedUpTo(0)  BY <3>1, ListedNone
    <3>3. ListedUpTo(next)'  BY <1>1, <1>2, <2>2, <3>2 DEF ListedUpTo, ListsNodes, Under
    <3> QED  BY <1>1, <2>1, <2>2, <3>3 DEF FilesInv, CsrPhases
  <2>3. CASE phase' \in {"group", "done"}
    <3>1. ListedUpTo(node_count)  BY <1>2, <2>3 DEF FilesInv, CsrPhases
    <3>2. ListedUpTo(node_count)'  BY <1>1, <1>2, <3>1 DEF ListedUpTo, ListsNodes, Under
    <3>3. phase' = "done" => frozen'.file_index = fileIndex  BY <1>2 DEF CsrPhases
    <3> QED  BY <1>2, <2>3, <3>2, <3>3 DEF FilesInv, CsrPhases
  <2>4. CASE phase' \in CsrPhases \cup {"labels", "pack", "qn", "panicked"}
    <3>1. phase' # "panicked" => fileIndex = <<>>  BY <1>2, <2>4 DEF FilesInv, CsrPhases
    <3> QED  BY <1>2, <2>4, <3>1 DEF FilesInv, CsrPhases
  <2> QED  BY <1>2, <2>2, <2>3, <2>4
<1>3. CASE CsrStep /\ UNCHANGED idxVars
  <2>1. phase \in CsrPhases /\ phase' \in CsrPhases \cup {"labels", "panicked"}
    BY <1>3, CsrPhase DEF FwdInv, CountPanics
  <2> QED  BY <1>2, <1>3, <2>1 DEF idxVars, mapVars
<1>4. CASE LabelStep
  BY <1>2, <1>4
  DEF LabelStep, InsertLabel, LabelsDone, PackBitmap, PackDone, mapVars, idxVars
<1>5. CASE InsertName  BY <1>2, <1>5 DEF InsertName
<1>6. CASE NamesDone  BY <1>2, <1>6 DEF NamesDone, idxVars, mapVars
<1>7. CASE InsertFile  BY <1>7, InsertFileFiles
<1>8. CASE NameStep
  <2>1. CASE SortPairs  BY <1>2, <2>1 DEF SortPairs, mapVars
  <2>2. CASE OpenGroup  BY <1>2, <2>2 DEF OpenGroup, mapVars
  <2>3. CASE JoinGroup  BY <1>2, <2>3 DEF JoinGroup, mapVars
  <2>4. CASE CloseGroup  BY <1>2, <2>4 DEF CloseGroup, mapVars
  <2>5. CASE ResolvePanics  BY <1>2, <2>5, PanicsAre
  <2> QED  BY <1>8, <2>1, <2>2, <2>3, <2>4, <2>5 DEF NameStep
<1>9. CASE Assemble  BY <1>2, <1>9 DEF Assemble, idxVars, mapVars
<1>10. CASE UNCHANGED vars
  <2>1. UNCHANGED <<phase, next, columns, fileIndex, frozen>>
    BY <1>10 DEF vars, idxVars, mapVars
  <2>2. phase = "files" => ListedUpTo(next)' = ListedUpTo(next)
    BY <2>1 DEF ListedUpTo, ListsNodes, Under
  <2>3. phase \in {"group", "done"} => ListedUpTo(node_count)' = ListedUpTo(node_count)
    BY <1>1, <2>1 DEF ListedUpTo, ListsNodes, Under
  <2> QED  BY <1>1, <2>1, <2>2, <2>3 DEF FilesInv
<1> QED  BY <1>3, <1>4, <1>5, <1>6, <1>7, <1>8, <1>9, <1>10 DEF Next, IndexStep, MapStep

(* Freeze!FilesPartitionNodes, for every graph: nodes_in_file lists each node *)
(* of its file once, in ascending order, and no node of another file.         *)
THEOREM FilesPartitionHolds == Spec => []FilesPartitionNodes
<1>1. FwdInv /\ FilesInv => FilesPartitionNodes
  <2> SUFFICES ASSUME FwdInv, FilesInv, phase = "done", NEW f \in Files
               PROVE  /\ ToSet(nodes_in_file(frozen, f)) = {n \in Nodes : columns.node_files[n + 1] = f}
                      /\ \A i, j \in DOMAIN nodes_in_file(frozen, f) :
                           i < j => nodes_in_file(frozen, f)[i] < nodes_in_file(frozen, f)[j]
    BY DEF FilesPartitionNodes, Frozen
  <2>1. ListsNodes(Under(f), f, node_count) /\ nodes_in_file(frozen, f) = Under(f)
    BY DEF FilesInv, ListedUpTo, nodes_in_file, Under
  <2>2. Under(f) \in Seq(Nodes) /\ DOMAIN Under(f) = 1..Len(Under(f))
    BY <2>1 DEF ListsNodes, Nodes
  <2>3. \A i \in 1..Len(Under(f)) : Under(f)[i] \in Nodes  BY <2>2
  <2>4. ToSet(Under(f)) = {n \in Nodes : columns.node_files[n + 1] = f}
    BY <2>1, <2>2, <2>3 DEF ListsNodes, Nodes, ToSet
  <2> QED  BY <2>1, <2>2, <2>4 DEF ListsNodes
<1>2. FilesInv /\ (FwdInv /\ ColumnsInv) /\ [Next]_vars => FilesInv'  BY NextFiles
<1> QED  BY InitFiles, AlwaysColumns, <1>1, <1>2, PTL DEF Spec

-----------------------------------------------------------------------------
(* The bitmaps of the labels, and where each lies in the packed bytes. *)

LabelIds == 0..(LabelCount - 1)

LEMMA LabelIndex ==
  ASSUME NEW label \in NodeLabels
  PROVE  Discriminant(label) \in LabelIds /\ NodeLabel[Discriminant(label) + 1] = label
<1>1. DOMAIN NodeLabel = 1..13  BY DEF NodeLabel
<1>2. PICK i \in 1..13 : NodeLabel[i] = label  BY <1>1 DEF NodeLabels, Variants
<1>3. i - 1 \in LabelIds /\ NodeLabel[(i - 1) + 1] = label  BY <1>2 DEF LabelCount, LabelIds
<1> QED  BY <1>3 DEF Discriminant, LabelIds

\* The nodes with the label of discriminant l among the first k.
Labelled(l, k) == {n \in 0..(k - 1) : Discriminant(columns.node_labels[n + 1]) = l}

BitmapsUpTo(k) == bitmaps = [l \in LabelIds |-> Labelled(l, k)]

SizeOf(l) == BitmapSize[Cardinality(bitmaps[l])]

\* The first k bitmaps are packed, bitmap i behind its size at at[i].
PackedAt(at, k) ==
  /\ at \in [0..k -> Nat] /\ at[0] = 0
  /\ \A i \in 0..(k - 1) : at[i + 1] = at[i] + SizeBytes + SizeOf(i)
  /\ \A i, j \in 0..k : i < j => at[i] < at[j]
  /\ packed.len = at[k]
  /\ packed.blocks = {[at |-> at[i], size |-> SizeOf(i), nodes |-> bitmaps[i]] : i \in 0..(k - 1)}

LabelsInv ==
  /\ phase \in CsrPhases => BitmapsUpTo(0)
  /\ phase = "labels" => next <= node_count /\ BitmapsUpTo(next)
  /\ phase \in {"pack", "qn", "files", "group", "done"} => BitmapsUpTo(node_count)
  /\ phase \in CsrPhases \cup {"labels"} => packed = [len |-> 0, blocks |-> {}]
  /\ phase = "pack" => next <= LabelCount /\ \E at : PackedAt(at, next)
  /\ phase \in {"qn", "files", "group", "done"} => \E at : PackedAt(at, LabelCount)
  /\ phase = "done" => frozen.label_index = packed

LEMMA InitLabels == Init => LabelsInv
<1> SUFFICES ASSUME Init PROVE LabelsInv
  OBVIOUS
<1>1. phase = "sort" /\ bitmaps = [l \in LabelIds |-> {}] /\ packed = [len |-> 0, blocks |-> {}]
  BY DEF Init, CsrInit, IdxInit, LabelIds
<1>2. \A l : Labelled(l, 0) = {}  BY DEF Labelled
<1> QED  BY <1>1, <1>2 DEF LabelsInv, BitmapsUpTo, CsrPhases

LEMMA InsertLabelLabels == ASSUME FwdInv, ColumnsInv, LabelsInv, InsertLabel PROVE LabelsInv'
<1> DEFINE d == Discriminant(columns.node_labels[next + 1])
<1>0. NodeId(next) = next
  <2>1. next \in Nodes
    BY NodeCountType DEF FwdInv, BaseInv, InsertLabel, OverNodes, Nodes
  <2> QED  BY <2>1, NodeIdIs
<1>1. /\ phase = "labels" /\ next < node_count /\ next' = next + 1
      /\ bitmaps' = [bitmaps EXCEPT ![d] = @ \cup {next}]
      /\ UNCHANGED <<phase, columns, packed>>
  BY <1>0 DEF InsertLabel, OverNodes
<1>2. next \in Nat /\ node_count \in Nat /\ node_count' = node_count
  BY <1>1, NodeCountType DEF FwdInv, BaseInv, node_count
<1>3. BitmapsUpTo(next) /\ packed = [len |-> 0, blocks |-> {}]  BY <1>1 DEF LabelsInv
<1>4. \A l : Labelled(l, next + 1) = IF l = d THEN Labelled(l, next) \cup {next} ELSE Labelled(l, next)
  <2>1. 0..((next + 1) - 1) = 0..(next - 1) \cup {next}  BY <1>2
  <2> QED  BY <2>1 DEF Labelled
<1> HIDE DEF d
<1>5. BitmapsUpTo(next)'
  <2>1. bitmaps' = [l \in LabelIds |-> IF l = d THEN Labelled(l, next) \cup {next} ELSE Labelled(l, next)]
    BY <1>1, <1>3 DEF BitmapsUpTo
  <2>2. bitmaps' = [l \in LabelIds |-> Labelled(l, next + 1)]
    BY <1>4, <2>1
  <2>3. \A l : Labelled(l, next)' = Labelled(l, next + 1)  BY <1>1 DEF Labelled
  <2> QED  BY <2>2, <2>3 DEF BitmapsUpTo
<1> QED  BY <1>1, <1>2, <1>3, <1>5 DEF LabelsInv, CsrPhases

LEMMA SizeOfType ==
  ASSUME FwdInv, ColumnsInv, BitmapsUpTo(node_count), NEW l \in LabelIds
  PROVE  SizeOf(l) \in Nat
<1>1. node_count \in Nat  BY NodeCountType DEF FwdInv, BaseInv
<1>2. bitmaps[l] \in SUBSET (0..(node_count - 1))  BY DEF BitmapsUpTo, Labelled
<1>3. IsFiniteSet(0..(node_count - 1)) /\ Cardinality(0..(node_count - 1)) = node_count
  <2>1. \A b \in Int : /\ IsFiniteSet(0..b)
                      /\ Cardinality(0..b) = IF 0 > b THEN 0 ELSE b - 0 + 1
    BY FS_Interval
  <2>2. node_count - 1 \in Int  BY <1>1
  <2>3. Cardinality(0..(node_count - 1)) =
          IF 0 > node_count - 1 THEN 0 ELSE (node_count - 1) - 0 + 1
    BY <2>1, <2>2
  <2> QED  BY <1>1, <2>1, <2>2, <2>3
<1>4. Cardinality(bitmaps[l]) \in 0..node_count
  <2>1. /\ IsFiniteSet(bitmaps[l])
        /\ Cardinality(bitmaps[l]) <= Cardinality(0..(node_count - 1))
    BY <1>2, <1>3, FS_Subset
  <2>2. Cardinality(bitmaps[l]) \in Nat  BY <2>1, FS_CardinalityType
  <2> QED  BY <1>1, <1>3, <2>1, <2>2
<1>5. PICK g \in Inputs : columns = g.nodes  BY DEF ColumnsInv
<1> QED  BY <1>4, <1>5, BitmapAssumption DEF node_count, SizeOf

LEMMA PackBitmapLabels == ASSUME FwdInv, ColumnsInv, LabelsInv, PackBitmap PROVE LabelsInv'
<1> DEFINE block == [at |-> packed.len, size |-> SizeOf(next), nodes |-> bitmaps[next]]
<1>1. /\ phase = "pack" /\ next < LabelCount /\ next' = next + 1
      /\ packed' = [len |-> packed.len + SizeBytes + SizeOf(next),
                    blocks |-> packed.blocks \cup {block}]
      /\ UNCHANGED <<phase, columns, bitmaps>>
  BY DEF PackBitmap, SizeOf
<1>2. next \in Nat /\ node_count' = node_count /\ LabelCount \in Nat
  BY <1>1 DEF FwdInv, BaseInv, node_count, LabelCount
<1>3. BitmapsUpTo(node_count)  BY <1>1 DEF LabelsInv
<1>4. PICK at : PackedAt(at, next)  BY <1>1 DEF LabelsInv
<1>5. SizeOf(next) \in Nat
  <2>1. next \in LabelIds  BY <1>1, <1>2 DEF LabelIds
  <2> QED  BY <1>3, <2>1, SizeOfType
<1> HIDE DEF block
<1> DEFINE top == packed.len + SizeBytes + SizeOf(next)
           to == [i \in 0..(next + 1) |-> IF i = next + 1 THEN top ELSE at[i]]
<1>6. /\ at \in [0..next -> Nat] /\ packed.len = at[next] /\ at[0] = 0
      /\ \A i \in 0..(next - 1) : at[i + 1] = at[i] + SizeBytes + SizeOf(i)
      /\ \A i, j \in 0..next : i < j => at[i] < at[j]
      /\ packed.blocks = {[at |-> at[i], size |-> SizeOf(i), nodes |-> bitmaps[i]] : i \in 0..(next - 1)}
  BY <1>4 DEF PackedAt
<1>7. top \in Nat /\ at[next] < top
  <2>1. at[next] \in Nat  BY <1>2, <1>6
  <2> QED  BY <1>5, <1>6, <2>1 DEF SizeBytes
<1>8. /\ to \in [0..(next + 1) -> Nat] /\ to[next + 1] = top
      /\ \A i \in 0..next : to[i] = at[i] /\ to[i] \in Nat
  BY <1>2, <1>6, <1>7
<1>9. to[0] = 0  BY <1>2, <1>6, <1>8
<1>10. \A i \in 0..next : to[i + 1] = to[i] + SizeBytes + SizeOf(i)
  <2> SUFFICES ASSUME NEW i \in 0..next PROVE to[i + 1] = to[i] + SizeBytes + SizeOf(i)
    OBVIOUS
  <2>1. CASE i = next  BY <1>2, <1>6, <1>8, <2>1 DEF top
  <2>2. CASE i # next
    <3>1. i \in 0..(next - 1) /\ i + 1 \in 0..next  BY <1>2, <2>2
    <3> HIDE DEF to
    <3> QED  BY <1>6, <1>8, <3>1
  <2> QED  BY <2>1, <2>2
<1> HIDE DEF to, top
<1>11. \A i, j \in 0..(next + 1) : i < j => to[i] < to[j]
  <2> SUFFICES ASSUME NEW i \in 0..(next + 1), NEW j \in 0..(next + 1), i < j PROVE to[i] < to[j]
    OBVIOUS
  <2>1. i \in 0..next  BY <1>2
  <2>2. CASE j \in 0..next  BY <1>6, <1>8, <2>1, <2>2
  <2>3. CASE j = next + 1
    <3>1. next \in 0..next /\ (i < next \/ i = next)  BY <1>2, <2>1
    <3>2. at[i] < at[next] \/ at[i] = at[next]  BY <1>6, <2>1, <3>1
    <3>3. at[i] \in Nat /\ at[next] \in Nat  BY <1>6, <2>1, <3>1
    <3> QED  BY <1>7, <1>8, <2>1, <2>3, <3>2, <3>3
  <2> QED  BY <1>2, <2>2, <2>3
<1>12. packed'.blocks =
         {[at |-> to[i], size |-> SizeOf(i), nodes |-> bitmaps[i]] : i \in 0..next}
  <2>1. 0..next = 0..(next - 1) \cup {next} /\ next \in 0..next /\ 0..(next - 1) \subseteq 0..next
    BY <1>2
  <2>2. block = [at |-> to[next], size |-> SizeOf(next), nodes |-> bitmaps[next]]
    BY <1>6, <1>8, <2>1 DEF block
  <2>3. packed.blocks =
          {[at |-> to[i], size |-> SizeOf(i), nodes |-> bitmaps[i]] : i \in 0..(next - 1)}
    BY <1>6, <1>8, <2>1
  <2> QED  BY <1>1, <2>1, <2>2, <2>3
<1>13. \A i : SizeOf(i)' = SizeOf(i)  BY <1>1 DEF SizeOf
<1>14. next' = next + 1 /\ (next + 1) - 1 = next  BY <1>1, <1>2
<1>15. packed'.len = to[next + 1]  BY <1>1, <1>8 DEF top
<1>16. \E t : PackedAt(t, next)'
  <2>1. packed'.blocks =
          {[at |-> to[i], size |-> SizeOf(i)', nodes |-> bitmaps'[i]] : i \in 0..(next' - 1)}
    BY <1>1, <1>12, <1>13, <1>14
  <2>2. \A i \in 0..(next' - 1) : to[i + 1] = to[i] + SizeBytes + SizeOf(i)'
    BY <1>10, <1>13, <1>14
  <2> QED  BY <1>8, <1>9, <1>11, <1>14, <1>15, <2>1, <2>2 DEF PackedAt
<1>17. BitmapsUpTo(node_count)'  BY <1>1, <1>2, <1>3 DEF BitmapsUpTo, Labelled
<1> QED  BY <1>1, <1>2, <1>16, <1>17 DEF LabelsInv, CsrPhases

LEMMA NextLabels == ASSUME FwdInv, ColumnsInv, LabelsInv, [Next]_vars PROVE LabelsInv'
<1> USE DEF OverNodes, PastNodes, Enter
<1>1. columns' = columns /\ node_count' = node_count  BY NextColumns DEF node_count
<1>2. ASSUME UNCHANGED labelVars,
             \/ phase \in CsrPhases /\ phase' \in CsrPhases
             \/ phase \in CsrPhases /\ phase' = "labels" /\ next' = 0
             \/ phase = "labels" /\ phase' = "pack" /\ next = node_count /\ next' = 0
             \/ phase = "pack" /\ phase' = "qn" /\ next = LabelCount
             \/ phase \in {"qn", "files", "group"} /\ phase' \in {"qn", "files", "group"}
             \/ phase = "group" /\ phase' = "done" /\ frozen'.label_index = packed
             \/ phase' = "panicked"
      PROVE  LabelsInv'
  <2>1. node_count \in Nat /\ LabelCount \in Nat
    BY NodeCountType DEF FwdInv, BaseInv, LabelCount
  <2>2. bitmaps' = bitmaps /\ packed' = packed  BY <1>2 DEF labelVars
  <2>3. \A l, k : Labelled(l, k)' = Labelled(l, k)  BY <1>1 DEF Labelled
  <2>4. CASE phase \in CsrPhases /\ phase' \in CsrPhases
    <3>1. BitmapsUpTo(0) /\ packed = [len |-> 0, blocks |-> {}]  BY <2>4 DEF LabelsInv
    <3>2. BitmapsUpTo(0)'  BY <2>2, <2>3, <3>1 DEF BitmapsUpTo
    <3> QED  BY <2>2, <2>4, <3>1, <3>2 DEF LabelsInv, CsrPhases
  <2>5. CASE phase \in CsrPhases /\ phase' = "labels" /\ next' = 0
    <3>1. BitmapsUpTo(0) /\ packed = [len |-> 0, blocks |-> {}]  BY <2>5 DEF LabelsInv
    <3>2. BitmapsUpTo(next)'  BY <2>2, <2>3, <2>5, <3>1 DEF BitmapsUpTo, Labelled
    <3> QED  BY <1>1, <2>1, <2>2, <2>5, <3>1, <3>2 DEF LabelsInv, CsrPhases
  <2>6. ASSUME phase \notin CsrPhases, BitmapsUpTo(node_count) PROVE BitmapsUpTo(node_count)'
    BY <1>1, <2>2, <2>3, <2>6 DEF BitmapsUpTo, Labelled
  <2>7. CASE phase = "labels" /\ phase' = "pack" /\ next = node_count /\ next' = 0
    <3>1. BitmapsUpTo(node_count) /\ packed = [len |-> 0, blocks |-> {}]  BY <2>7 DEF LabelsInv
    <3>2. PackedAt([i \in 0..0 |-> 0], next)'
      <4> DEFINE z == [i \in 0..0 |-> 0]
      <4>1. /\ z \in [0..0 -> Nat] /\ z[0] = 0 /\ \A i, j \in 0..0 : ~(i < j)
            /\ 0..(0 - 1) = {}
        OBVIOUS
      <4> HIDE DEF z
      <4>2. packed'.len = 0 /\ packed'.blocks = {}  BY <2>2, <3>1
      <4>3. PackedAt(z, next)'  BY <2>7, <4>1, <4>2 DEF PackedAt
      <4> QED  BY <4>3 DEF z
    <3>3. \E at : PackedAt(at, next)'  BY <3>2
    <3> QED  BY <2>1, <2>6, <2>7, <3>1, <3>3 DEF LabelsInv, CsrPhases
  <2>8. CASE /\ phase' \in {"qn", "files", "group", "done"}
             /\ phase \in {"pack", "qn", "files", "group"}
    <3>1. BitmapsUpTo(node_count)  BY <2>8 DEF LabelsInv
    <3>2. \E at : PackedAt(at, LabelCount)  BY <1>2, <2>8 DEF LabelsInv, CsrPhases
    <3>3. PICK at : PackedAt(at, LabelCount)  BY <3>2
    <3>4. PackedAt(at, LabelCount)'  BY <2>2, <3>3 DEF PackedAt, SizeOf
    <3>5. phase \notin CsrPhases  BY <2>8 DEF CsrPhases
    <3>6. phase' = "done" => frozen'.label_index = packed'
      BY <1>2, <2>2, <2>8 DEF CsrPhases
    <3> QED  BY <2>6, <2>8, <3>1, <3>4, <3>5, <3>6 DEF LabelsInv, CsrPhases
  <2>9. CASE phase' = "panicked"  BY <2>9 DEF LabelsInv, CsrPhases
  <2> QED  BY <1>2, <2>4, <2>5, <2>7, <2>8, <2>9
<1>3. CASE CsrStep /\ UNCHANGED idxVars
  <2>1. /\ phase \in CsrPhases /\ phase' \in CsrPhases \cup {"labels", "panicked"}
        /\ phase' = "labels" => next' = 0
    <3>1. phase \in CsrPhases /\ phase' \in CsrPhases \cup {"labels", "panicked"}
      BY <1>3, CsrPhase DEF FwdInv, CountPanics
    <3>2. phase' = "labels" => PlaceDone
      BY <1>3
      DEF CsrStep, SortEdges, ForwardStep, ReverseStep, SkipToSource, PushForward, CloseRows,
          ForwardDone, AdvanceNode, PushEdge, CountIncoming, CountPanics, CountDone, PrefixSum,
          PrefixDone, Place, Over, Past
    <3> QED  BY <3>1, <3>2 DEF PlaceDone
  <2> QED  BY <1>2, <1>3, <2>1 DEF idxVars
<1>4. CASE InsertLabel  BY <1>4, InsertLabelLabels
<1>5. CASE PackBitmap  BY <1>5, PackBitmapLabels
<1>6. CASE LabelsDone  BY <1>2, <1>6 DEF LabelsDone, idxVars
<1>7. CASE PackDone  BY <1>2, <1>7 DEF PackDone, idxVars
<1>8. CASE MapStep \/ SortPairs
  BY <1>2, <1>8 DEF MapStep, InsertName, NamesDone, InsertFile, SortPairs, idxVars
<1>9. CASE OpenGroup \/ ResolvePanics
  <2>1. CASE OpenGroup  BY <1>2, <2>1 DEF OpenGroup
  <2>2. CASE ResolvePanics
    <3>1. UNCHANGED labelVars /\ phase' = "panicked"  BY <2>2, PanicsAre DEF labelVars
    <3> QED  BY <1>2, <3>1
  <2> QED  BY <1>9, <2>1, <2>2
<1>10. CASE JoinGroup  BY <1>2, <1>10 DEF JoinGroup
<1>11. CASE CloseGroup  BY <1>2, <1>11 DEF CloseGroup
<1>12. CASE Assemble  BY <1>2, <1>12 DEF Assemble, idxVars
<1>13. CASE UNCHANGED vars
  BY <1>13
  DEF vars, idxVars, labelVars, LabelsInv, BitmapsUpTo, Labelled, PackedAt, SizeOf, node_count
<1> QED
  BY <1>3, <1>4, <1>5, <1>6, <1>7, <1>8, <1>9, <1>10, <1>11, <1>12, <1>13
  DEF Next, IndexStep, LabelStep, NameStep

\* Induction over the natural numbers, from the well-foundedness of the finite sets
\* under strict inclusion.
LEMMA Induct ==
  ASSUME NEW S \in SUBSET Nat, 0 \in S, \A n \in S : n + 1 \in S
  PROVE  S = Nat
<1> DEFINE R == StrictSubsetOrdering(Nat)
           U == FiniteSubsetsOf(Nat)
           T == {0..n : n \in Nat \ S}
<1>1. IsWellFoundedOn(R, U)
  BY FS_StrictSubsetOrderingWellFounded
<1>2. T \subseteq U
  <2>1. \A n \in Nat : IsFiniteSet(0..n) /\ 0..n \subseteq Nat  BY FS_Interval
  <2> QED  BY <2>1 DEF FiniteSubsetsOf
<1>3. ASSUME NEW n \in Nat \ S PROVE FALSE
  <2>1. T # {}  BY <1>3
  <2>2. \E x \in T : \A y \in T : ~ (<<y, x>> \in R)
    <3> HIDE DEF R, U, T
    <3> QED  BY <1>1, <1>2, <2>1, WFMin
  <2>3. PICK m \in Nat \ S : \A k \in Nat \ S : <<0..k, 0..m>> \notin R
    BY <2>2
  <2>4. m # 0 /\ m - 1 \in Nat \ S
    <3>1. m # 0  OBVIOUS
    <3>2. m - 1 \in Nat /\ (m - 1) + 1 = m  BY <3>1
    <3> QED  BY <3>1, <3>2
  <2>5. <<0..(m - 1), 0..m>> \in R
    <3>1. 0..(m - 1) \in SUBSET Nat /\ 0..m \in SUBSET Nat /\ 0..(m - 1) \subseteq 0..m
      BY <2>4
    <3>2. m \in 0..m /\ m \notin 0..(m - 1)  OBVIOUS
    <3> QED  BY <3>1, <3>2 DEF StrictSubsetOrdering
  <2> QED  BY <2>3, <2>4, <2>5
<1> QED  BY <1>3

\* The block that starts where bitmap i lies.
LEMMA BlockOf ==
  ASSUME NEW at, PackedAt(at, LabelCount), NEW g, g.label_index = packed, NEW i \in LabelIds
  PROVE  BlockAt(g, at[i]) = [at |-> at[i], size |-> SizeOf(i), nodes |-> bitmaps[i]]
<1> DEFINE block(j) == [at |-> at[j], size |-> SizeOf(j), nodes |-> bitmaps[j]]
<1>1. g.label_index.blocks = {block(j) : j \in LabelIds}
  BY DEF PackedAt, LabelIds
<1>2. \A j \in LabelIds : at[j] = at[i] => j = i
  <2> SUFFICES ASSUME NEW j \in LabelIds, j # i PROVE at[j] # at[i]
    OBVIOUS
  <2>1. j \in 0..LabelCount /\ i \in 0..LabelCount /\ (i < j \/ j < i)
    BY DEF LabelIds, LabelCount
  <2>2. at[i] \in Nat /\ at[j] \in Nat  BY <2>1 DEF PackedAt
  <2>3. at[i] < at[j] \/ at[j] < at[i]  BY <2>1 DEF PackedAt
  <2> QED  BY <2>2, <2>3
<1>3. \A j : block(j).at = at[j]  OBVIOUS
<1> HIDE DEF block
<1>4. block(i) \in g.label_index.blocks /\ block(i).at = at[i]  BY <1>1, <1>3
<1>5. \A b \in g.label_index.blocks : b.at = at[i] => b = block(i)  BY <1>1, <1>2, <1>3
<1> QED  BY <1>4, <1>5 DEF BlockAt, block

\* The walk of nodes_with_label stops where the bitmap of its label lies.
LEMMA WalkEnds ==
  ASSUME NEW at, PackedAt(at, LabelCount), NEW g, g.label_index = packed, NEW label \in NodeLabels
  PROVE  nodes_with_label(g, label) = bitmaps[Discriminant(label)]
<1> DEFINE d == Discriminant(label)
           Steps(f) == f = [i \in 0..d |-> IF i = 0 THEN 0 ELSE BlockEnd(g, f[i - 1])]
           offset == CHOOSE f : Steps(f)
<1>1. d \in LabelIds /\ d \in Nat /\ \A i \in 0..d : i \in LabelIds /\ i \in 0..LabelCount
  BY LabelIndex DEF LabelIds, LabelCount
<1>2. \A i \in LabelIds : BlockEnd(g, at[i]) = at[i + 1]
  <2> SUFFICES ASSUME NEW i \in LabelIds PROVE BlockEnd(g, at[i]) = at[i + 1]
    OBVIOUS
  <2>1. BlockAt(g, at[i]) = [at |-> at[i], size |-> SizeOf(i), nodes |-> bitmaps[i]]
    BY BlockOf
  <2>2. at[i + 1] = at[i] + SizeBytes + SizeOf(i)  BY DEF PackedAt, LabelIds
  <2> QED  BY <2>1, <2>2 DEF BlockEnd, SizeBytes
<1>3. nodes_with_label(g, label) = BlockAt(g, offset[d]).nodes
  BY DEF nodes_with_label, Skipped
<1> HIDE DEF d
<1>4. Steps([i \in 0..d |-> at[i]])
  <2> DEFINE w == [i \in 0..d |-> at[i]]
  <2>1. \A i \in 0..d : w[i] = IF i = 0 THEN 0 ELSE BlockEnd(g, w[i - 1])
    <3> SUFFICES ASSUME NEW i \in 0..d PROVE w[i] = IF i = 0 THEN 0 ELSE BlockEnd(g, w[i - 1])
      OBVIOUS
    <3>1. CASE i = 0  BY <3>1 DEF PackedAt
    <3>2. CASE i # 0
      <4>1. i - 1 \in 0..d /\ i - 1 \in LabelIds /\ (i - 1) + 1 = i  BY <1>1, <3>2
      <4>2. BlockEnd(g, at[i - 1]) = at[i]  BY <1>2, <4>1
      <4> QED  BY <3>2, <4>1, <4>2
    <3> QED  BY <3>1, <3>2
  <2> QED  BY <2>1
<1>5. Steps(offset)  BY <1>4
<1> HIDE DEF offset
<1>6. \A i \in 0..d : offset[i] = IF i = 0 THEN 0 ELSE BlockEnd(g, offset[i - 1])
  BY <1>5
<1>7. \A i \in Nat : i \in 0..d => offset[i] = at[i]
  <2> DEFINE S == {i \in Nat : i \in 0..d => offset[i] = at[i]}
  <2>1. 0 \in S  BY <1>1, <1>6 DEF PackedAt
  <2>2. ASSUME NEW i \in S PROVE i + 1 \in S
    <3> SUFFICES ASSUME i + 1 \in 0..d PROVE offset[i + 1] = at[i + 1]
      OBVIOUS
    <3>1. i \in 0..d /\ i \in LabelIds /\ i + 1 # 0 /\ (i + 1) - 1 = i  BY <1>1
    <3>2. offset[i] = at[i]  BY <3>1
    <3> QED  BY <1>2, <1>6, <3>1, <3>2
  <2> HIDE DEF S
  <2>3. S = Nat
    <3>1. S \in SUBSET Nat  BY DEF S
    <3> QED  BY <2>1, <2>2, <3>1, Induct
  <2> QED  BY <2>3 DEF S
<1>8. offset[d] = at[d]  BY <1>1, <1>7
<1>9. BlockAt(g, at[d]) = [at |-> at[d], size |-> SizeOf(d), nodes |-> bitmaps[d]]
  BY <1>1, BlockOf
<1> QED  BY <1>3, <1>8, <1>9 DEF d

(* Freeze!LabelWalkExact, for every graph and whatever size a bitmap takes    *)
(* once serialized: nodes_with_label answers the nodes of its label.          *)
THEOREM LabelWalkHolds == Spec => []LabelWalkExact
<1>1. FwdInv /\ ColumnsInv /\ LabelsInv => LabelWalkExact
  <2> SUFFICES ASSUME FwdInv, ColumnsInv, LabelsInv, phase = "done", NEW label \in NodeLabels
               PROVE  nodes_with_label(frozen, label)
                        = {n \in Nodes : columns.node_labels[n + 1] = label}
    BY DEF LabelWalkExact, Frozen
  <2>1. PICK at : PackedAt(at, LabelCount)  BY DEF LabelsInv
  <2>2. nodes_with_label(frozen, label) = bitmaps[Discriminant(label)]
    BY <2>1, WalkEnds DEF LabelsInv
  <2>3. bitmaps[Discriminant(label)]
          = {n \in Nodes : Discriminant(columns.node_labels[n + 1]) = Discriminant(label)}
    BY LabelIndex DEF LabelsInv, BitmapsUpTo, Labelled, Nodes
  <2>4. \A n \in Nodes : Discriminant(columns.node_labels[n + 1]) = Discriminant(label)
                           <=> columns.node_labels[n + 1] = label
    BY LabelIndex DEF ColumnsInv
  <2> QED  BY <2>2, <2>3, <2>4
<1>2. LabelsInv /\ (FwdInv /\ ColumnsInv) /\ [Next]_vars => LabelsInv'  BY NextLabels
<1> QED  BY InitLabels, AlwaysColumns, <1>1, <1>2, PTL DEF Spec

-----------------------------------------------------------------------------
(* The bare-name index: every node is in the side table once, in the list of  *)
(* the string its name resolves to.                                           *)

KeyOf(n) == Resolve[columns.node_names[n + 1]]

\* The pairs name every node.
PairsInv ==
  /\ pairs \in [1..node_count -> NamedNodes] /\ InOrder(pairs)
  /\ \A n \in Nodes : \E j \in 1..node_count : pairs[j] = <<KeyOf(n), n>>

\* A list of nodes of one key.
OfKey(s, k) == s \in Seq(Nodes) /\ \A i \in 1..Len(s) : KeyOf(s[i]) = k

InList(n, s) == \E i \in 1..Len(s) : s[i] = n

\* Slot t of the side table is under the key of entry t of the FST.
TableInv ==
  /\ Len(fst) = Len(sideTable)
  /\ \A t \in 1..Len(fst) : fst[t].slot = t - 1 /\ OfKey(sideTable[t], fst[t].key)
  /\ \A t, u \in 1..Len(fst) : t < u => fst[t].key < fst[u].key

\* Where node n of the pairs consumed is.
Kept(n) ==
  \/ group # NoGroup /\ InList(n, group.nodes)
  \/ \E t \in 1..Len(sideTable) : InList(n, sideTable[t])

GroupedInv ==
  /\ group # NoGroup => group.slot = Len(sideTable) /\ OfKey(group.nodes, group.key)
  /\ \A j \in 1..next : Kept(pairs[j][2])

\* The keys of the nodes in the table, of all nodes.
IndexedInv == \A n \in Nodes : \E t \in 1..Len(sideTable) : InList(n, sideTable[t])

BareInv ==
  /\ phase = "group" => PairsInv /\ TableInv /\ GroupedInv
  /\ phase = "done" =>
       /\ fst \in Seq(Keyed) /\ TableInv /\ IndexedInv
       /\ frozen.bare_name_fst = fst /\ frozen.bare_name_nodes = sideTable

LEMMA InitBare == Init => BareInv
  BY DEF Init, CsrInit, BareInv

\* As many places as nodes: places with different nodes hold every node.
LEMMA PlacesCover ==
  ASSUME NEW m \in Nat, NEW f \in [1..m -> 0..(m - 1)],
         \A i, j \in 1..m : i # j => f[i] # f[j], NEW n \in 0..(m - 1)
  PROVE  \E i \in 1..m : f[i] = n
<1> DEFINE S == 1..m
           T == 0..(m - 1)
<1>1. IsFiniteSet(S) /\ IsFiniteSet(T) /\ Cardinality(S) = Cardinality(T)
  <2>1. \A a, b \in Int : /\ IsFiniteSet(a..b)
                         /\ Cardinality(a..b) = IF a > b THEN 0 ELSE b - a + 1
    BY FS_Interval
  <2>2. m - 1 \in Int /\ 0 \in Int /\ 1 \in Int /\ m \in Int  OBVIOUS
  <2>3. Cardinality(S) = IF 1 > m THEN 0 ELSE m - 1 + 1  BY <2>1, <2>2
  <2>4. Cardinality(T) = IF 0 > m - 1 THEN 0 ELSE (m - 1) - 0 + 1  BY <2>1, <2>2
  <2> QED  BY <2>1, <2>2, <2>3, <2>4
<1> HIDE DEF S, T
<1>2. SUFFICES ASSUME \A i \in S : f[i] # n PROVE FALSE
  BY DEF S
<1>3. f \in [S -> T \ {n}]  BY <1>2 DEF S, T
<1>4. IsFiniteSet(T \ {n}) /\ Cardinality(T \ {n}) < Cardinality(S)
  <2>1. n \in T  BY DEF T
  <2>2. /\ IsFiniteSet(T \ {n})
        /\ Cardinality(T \ {n}) = IF n \in T THEN Cardinality(T) - 1 ELSE Cardinality(T)
    BY <1>1, FS_RemoveElement
  <2>3. Cardinality(T) \in Nat  BY <1>1, FS_CardinalityType
  <2> QED  BY <1>1, <2>1, <2>2, <2>3
<1>5. \E i, j \in S : i # j /\ f[i] = f[j]
  BY <1>1, <1>3, <1>4, FS_PigeonHole
<1> QED  BY <1>5 DEF S

LEMMA KeyType ==
  ASSUME FwdInv, NamesResolve, NEW n \in Nodes
  PROVE  KeyOf(n) \in Nat /\ n \in Nat
<1>1. node_count \in Nat  BY NodeCountType DEF FwdInv, BaseInv
<1> QED  BY <1>1, ResolveAssumption DEF NamesResolve, KeyOf, Nodes

LEMMA NamedNodesAre == ASSUME ColumnsInv PROVE NamedNodes = {<<KeyOf(n), n>> : n \in Nodes}
  BY NodeIdIs DEF NamedNodes, KeyOf

LEMMA SortPairsBare == ASSUME FwdInv, ColumnsInv, KeysInv, SortPairs PROVE BareInv'
<1>1. /\ phase = "files" /\ phase' = "group" /\ next' = 0 /\ columns' = columns
      /\ UNCHANGED <<group, sideTable, fst>>
  BY DEF SortPairs, PastNodes, Enter
<1>2. PICK s \in [1..node_count -> NamedNodes] : InOrder(s) /\ pairs' = s
  BY DEF SortPairs
<1>3. group = NoGroup /\ sideTable = <<>> /\ fst = <<>>  BY <1>1 DEF KeysInv
<1>4. node_count \in Nat /\ node_count' = node_count /\ Nodes' = Nodes
  BY <1>1, NodeCountType DEF FwdInv, BaseInv, node_count, Nodes
<1>5. \A j \in 1..node_count : \E n \in Nodes : s[j] = <<KeyOf(n), n>>
  <2>1. NamedNodes = {<<KeyOf(n), n>> : n \in Nodes}  BY NamedNodesAre
  <2> QED  BY <2>1
<1>6. \A j \in 1..node_count : s[j][2] \in Nodes /\ s[j] = <<KeyOf(s[j][2]), s[j][2]>>
  BY <1>5
<1>7. \A i, j \in 1..node_count : i # j => s[i][2] # s[j][2]
  <2>1. ASSUME NEW i \in 1..node_count, NEW j \in 1..node_count, i < j PROVE s[i][2] # s[j][2]
    <3>1. Before(s[i], s[j])
      <4>1. i \in DOMAIN s /\ j \in DOMAIN s  OBVIOUS
      <4> QED  BY <1>2, <2>1, <4>1 DEF InOrder
    <3>2. s[i][2] = s[j][2] => s[i] = s[j]  BY <1>6
    <3>3. s[i][1] \in Nat /\ s[i][2] \in Nat
      <4>1. KeyOf(s[i][2]) \in Nat /\ s[i][2] \in Nat  BY <1>6, KeyType DEF SortPairs
      <4> QED  BY <1>6, <4>1
    <3>4. ~Before(s[i], s[i])  BY <3>3 DEF Before
    <3> QED  BY <3>1, <3>2, <3>4
  <2> QED  BY <2>1
<1>8. \A n \in Nodes : \E j \in 1..node_count : s[j] = <<KeyOf(n), n>>
  <2> SUFFICES ASSUME NEW n \in Nodes PROVE \E j \in 1..node_count : s[j] = <<KeyOf(n), n>>
    OBVIOUS
  <2> DEFINE f == [j \in 1..node_count |-> s[j][2]]
  <2>1. f \in [1..node_count -> 0..(node_count - 1)]  BY <1>6 DEF Nodes
  <2>2. \A i, j \in 1..node_count : i # j => f[i] # f[j]  BY <1>7
  <2>3. n \in 0..(node_count - 1) /\ \A j \in 1..node_count : f[j] = s[j][2]  BY DEF Nodes
  <2> HIDE DEF f
  <2>4. PICK j \in 1..node_count : f[j] = n  BY <1>4, <2>1, <2>2, <2>3, PlacesCover
  <2> QED  BY <1>6, <2>3, <2>4
<1>9. PairsInv'
  <2>1. NamedNodes' = NamedNodes /\ \A n : KeyOf(n)' = KeyOf(n)
    BY <1>1, <1>4 DEF NamedNodes, KeyOf, NodeId
  <2> QED  BY <1>2, <1>4, <1>8, <2>1 DEF PairsInv, InOrder, Before
<1>10. TableInv' /\ GroupedInv'
  <2>1. Len(<<>>) = 0  OBVIOUS
  <2> QED  BY <1>1, <1>3, <2>1 DEF TableInv, GroupedInv
<1> QED  BY <1>1, <1>9, <1>10 DEF BareInv

\* What depends on the columns alone.
LEMMA BareKept ==
  ASSUME columns' = columns
  PROVE  /\ Nodes' = Nodes /\ \A s, k : OfKey(s, k)' = OfKey(s, k)
         /\ pairs' = pairs => PairsInv' = PairsInv
         /\ fst' = fst /\ sideTable' = sideTable => TableInv' = TableInv
<1>1. node_count' = node_count /\ Nodes' = Nodes  BY DEF node_count, Nodes
<1>2. \A n : KeyOf(n)' = KeyOf(n)  BY DEF KeyOf
<1>3. \A s, k : OfKey(s, k)' = OfKey(s, k)  BY <1>1, <1>2 DEF OfKey
<1>4. NamedNodes' = NamedNodes  BY <1>1 DEF NamedNodes, NodeId
<1>5. ASSUME pairs' = pairs PROVE PairsInv' = PairsInv
  <2>1. InOrder(pairs)' = InOrder(pairs)  BY <1>5 DEF InOrder, Before
  <2> QED  BY <1>1, <1>2, <1>4, <1>5, <2>1 DEF PairsInv
<1>6. ASSUME fst' = fst, sideTable' = sideTable PROVE TableInv' = TableInv
  <2>1. \A t : OfKey(sideTable[t], fst[t].key)' = OfKey(sideTable[t], fst[t].key)
    BY <1>1, <1>2, <1>6 DEF OfKey
  <2> QED  BY <1>6, <2>1 DEF TableInv
<1> QED  BY <1>1, <1>3, <1>5, <1>6

LEMMA OpenGroupBare == ASSUME FwdInv, KeysInv, BareInv, OpenGroup PROVE BareInv'
<1>1. /\ phase = "group" /\ next < node_count /\ group = NoGroup
      /\ group' = [key |-> pairs[next + 1][1], slot |-> Len(sideTable), nodes |-> <<>>]
      /\ UNCHANGED <<phase, next, columns, pairs, sideTable, fst>>
  BY DEF OpenGroup, OverNodes, NextSlot
<1>2. PairsInv /\ TableInv /\ GroupedInv  BY <1>1 DEF BareInv
<1>3. PairsInv' /\ TableInv'
  BY <1>1, <1>2, BareKept
<1>4. GroupedInv'
  <2>1. <<>> \in Seq(Nodes) /\ Len(<<>>) = 0  OBVIOUS
  <2>2. group'.slot = Len(sideTable) /\ group'.nodes = <<>>  BY <1>1
  <2>3. OfKey(group.nodes, group.key)'  BY <2>1, <2>2 DEF OfKey
  <2>4. \A j \in 1..next : Kept(pairs[j][2])'
    <3>1. \A n : Kept(n) => Kept(n)'  BY <1>1 DEF Kept, InList
    <3> QED  BY <1>1, <1>2, <3>1 DEF GroupedInv
  <2> QED  BY <1>1, <2>2, <2>3, <2>4 DEF GroupedInv
<1> QED  BY <1>1, <1>3, <1>4 DEF BareInv

LEMMA KeyedType == ASSUME NEW s \in Seq(Keyed), NEW t \in 1..Len(s) PROVE s[t].key \in Nat
<1>1. s[t] \in Keyed  OBVIOUS
<1> QED  BY <1>1 DEF Keyed

\* The list of a group takes the next node.
LEMMA ListNext ==
  ASSUME NEW s, NEW k, OfKey(s, k), NEW n \in Nodes, KeyOf(n) = k
  PROVE  /\ OfKey(Append(s, n), k) /\ InList(n, Append(s, n))
         /\ \A m : InList(m, s) => InList(m, Append(s, n))
<1> DEFINE t == Append(s, n)
<1>1. /\ t \in Seq(Nodes) /\ Len(t) = Len(s) + 1 /\ t[Len(s) + 1] = n
      /\ \A i \in 1..Len(s) : t[i] = s[i]
  BY AppendFacts DEF OfKey
<1>2. Len(s) \in Nat  BY DEF OfKey
<1> HIDE DEF t
<1>3. \A i \in 1..Len(t) : i \in 1..Len(s) \/ i = Len(s) + 1  BY <1>1, <1>2
<1>4. OfKey(t, k)  BY <1>1, <1>3 DEF OfKey
<1>5. Len(s) + 1 \in 1..Len(t) /\ \A i \in 1..Len(s) : i \in 1..Len(t)  BY <1>1, <1>2
<1>6. InList(n, t) /\ \A m : InList(m, s) => InList(m, t)  BY <1>1, <1>5 DEF InList
<1> QED  BY <1>4, <1>6 DEF t

LEMMA JoinGroupBare == ASSUME FwdInv, ColumnsInv, KeysInv, BareInv, JoinGroup PROVE BareInv'
<1>1. /\ phase = "group" /\ group # NoGroup /\ next < node_count
      /\ pairs[next + 1][1] = group.key
      /\ group' = [group EXCEPT !.nodes = Append(@, pairs[next + 1][2])]
      /\ next' = next + 1
      /\ UNCHANGED <<phase, columns, pairs, sideTable, fst>>
  BY DEF JoinGroup, Joins
<1>2. GroupInv /\ PairsInv /\ TableInv /\ GroupedInv  BY <1>1 DEF BareInv, KeysInv
<1>3. next \in Nat /\ node_count \in Nat
  BY NodeCountType DEF FwdInv, BaseInv
<1>4. group \in [key : Nat, slot : Nat, nodes : Seq(Nat)]  BY <1>1, <1>2 DEF GroupInv
<1> DEFINE n == pairs[next + 1][2]
<1>5. n \in Nodes /\ KeyOf(n) = group.key
  <2>1. pairs[next + 1] \in NamedNodes
    <3>1. next + 1 \in 1..node_count  BY <1>1, <1>3
    <3> QED  BY <1>2, <3>1 DEF PairsInv
  <2>2. PICK m \in Nodes : pairs[next + 1] = <<KeyOf(m), m>>
    <3>1. NamedNodes = {<<KeyOf(m), m>> : m \in Nodes}  BY NamedNodesAre
    <3> QED  BY <2>1, <3>1
  <2>3. pairs[next + 1][1] = KeyOf(m) /\ n = m  BY <2>2
  <2> QED  BY <1>1, <2>3
<1> HIDE DEF n
<1>6. /\ group'.nodes = Append(group.nodes, n) /\ group'.key = group.key
      /\ group'.slot = group.slot /\ group' \in [key : Nat, slot : Nat, nodes : Seq(Nat)]
  <2>1. Append(group.nodes, n) \in Seq(Nat)
    <3>1. n \in Nat /\ group.nodes \in Seq(Nat)  BY <1>3, <1>4, <1>5 DEF Nodes
    <3> QED  BY <3>1, AppendFacts
  <2> QED  BY <1>1, <1>4, <2>1 DEF n
<1>7. /\ OfKey(group'.nodes, group.key) /\ InList(n, group'.nodes)
      /\ \A m : InList(m, group.nodes) => InList(m, group'.nodes)
  BY <1>1, <1>2, <1>5, <1>6, ListNext DEF GroupedInv
<1>8. group' # NoGroup
  BY <1>6, NoGroupAssumption
<1>9. GroupedInv'
  <2>1. \A m : Kept(m) => Kept(m)'  BY <1>1, <1>7, <1>8 DEF Kept, InList
  <2>2. \A m : m = n => Kept(m)'  BY <1>7, <1>8 DEF Kept, InList
  <2>3. 1..next' = 1..next \cup {next + 1}  BY <1>1, <1>3
  <2>4. \A j \in 1..next' : Kept(pairs[j][2])'
    <3> SUFFICES ASSUME NEW j \in 1..next' PROVE Kept(pairs[j][2])'
      OBVIOUS
    <3>1. pairs'[j][2] = pairs[j][2]  BY <1>1
    <3>2. \A m : m = pairs[j][2] => Kept(m)'
      BY <1>2, <2>1, <2>2, <2>3 DEF GroupedInv, n
    <3> QED  BY <3>1, <3>2 DEF Kept
  <2>5. OfKey(group.nodes, group.key)'  BY <1>1, <1>6, <1>7, BareKept
  <2> QED  BY <1>1, <1>2, <1>6, <2>4, <2>5 DEF GroupedInv
<1> QED  BY <1>1, <1>2, <1>9, BareKept DEF BareInv

LEMMA CloseGroupBare == ASSUME FwdInv, ColumnsInv, KeysInv, BareInv, CloseGroup PROVE BareInv'
<1>1. /\ phase = "group" /\ group # NoGroup /\ ~Joins
      /\ sideTable' = Append(sideTable, group.nodes)
      /\ group' = NoGroup
      /\ UNCHANGED <<next, columns, pairs>>
  BY DEF CloseGroup
<1>2. GroupInv /\ PairsInv /\ TableInv /\ GroupedInv  BY <1>1 DEF BareInv, KeysInv
<1>3. /\ group \in [key : Nat, slot : Nat, nodes : Seq(Nat)] /\ fst \in Seq(Keyed)
      /\ sideTable \in Seq(Seq(Nat)) /\ Accepted(group.key)
  BY <1>1, <1>2 DEF GroupInv
<1> DEFINE entry == [key |-> group.key, slot |-> group.slot]
           top == Len(fst) + 1
<1>4. phase' = phase /\ fst' = Append(fst, entry)
  BY <1>3 DEF CloseGroup
<1>5. entry \in Keyed /\ entry.key = group.key /\ entry.slot = group.slot  BY <1>3 DEF Keyed
<1> HIDE DEF entry
<1>6. /\ fst' \in Seq(Keyed) /\ Len(fst') = top /\ fst'[top] = entry
      /\ \A t \in 1..Len(fst) : fst'[t] = fst[t]
  BY <1>3, <1>4, <1>5, AppendFacts
<1>7. /\ Len(sideTable') = top /\ sideTable'[top] = group.nodes
      /\ \A t \in 1..Len(fst) : sideTable'[t] = sideTable[t]
  <2>1. group.nodes \in Seq(Nat) /\ Len(sideTable) = Len(fst)  BY <1>2, <1>3 DEF TableInv
  <2> QED  BY <1>1, <1>3, <2>1, AppendFacts
<1>8. Len(fst) \in Nat /\ 1..top = 1..Len(fst) \cup {top} /\ top \notin 1..Len(fst) /\ top - 1 = Len(fst)
  BY <1>3
<1>9. \A t \in 1..Len(fst) : fst[t].key \in Nat /\ fst[t].key < group.key
  <2> SUFFICES ASSUME NEW t \in 1..Len(fst) PROVE fst[t].key \in Nat /\ fst[t].key < group.key
    OBVIOUS
  <2>1. Len(fst) \in 1..Len(fst) /\ fst # <<>>  BY <1>3
  <2>2. \A u \in 1..Len(fst) : fst[u].key \in Nat  BY <1>3, KeyedType
  <2>3. fst[Len(fst)].key < group.key  BY <1>3, <2>1 DEF Accepted
  <2>4. t = Len(fst) \/ fst[t].key < fst[Len(fst)].key
    <3>1. t = Len(fst) \/ t < Len(fst)  BY <1>3
    <3> QED  BY <1>2, <2>1, <3>1 DEF TableInv
  <2>5. group.key \in Nat  BY <1>3
  <2> QED  BY <2>1, <2>2, <2>3, <2>4, <2>5
<1>10. TableInv'
  <2>1. ASSUME NEW t \in 1..top
        PROVE  fst'[t].slot = t - 1 /\ OfKey(sideTable'[t], fst'[t].key)
    <3>1. CASE t \in 1..Len(fst)  BY <1>2, <1>6, <1>7, <3>1 DEF TableInv
    <3>2. CASE t = top
      BY <1>1, <1>2, <1>5, <1>6, <1>7, <1>8, <3>2 DEF TableInv, GroupedInv
    <3> QED  BY <1>8, <3>1, <3>2
  <2>2. ASSUME NEW t \in 1..top, NEW u \in 1..top, t < u PROVE fst'[t].key < fst'[u].key
    <3>1. t \in 1..Len(fst)  BY <1>8, <2>2
    <3>2. CASE u \in 1..Len(fst)  BY <1>2, <1>6, <2>2, <3>1, <3>2 DEF TableInv
    <3>3. CASE u = top  BY <1>5, <1>6, <1>9, <3>1, <3>3
    <3> QED  BY <1>8, <3>2, <3>3
  <2>3. \A s, k : OfKey(s, k)' = OfKey(s, k)  BY <1>1, BareKept
  <2>4. \A t \in 1..top : OfKey(sideTable[t], fst[t].key)'
    <3>1. \A t : OfKey(sideTable[t], fst[t].key)' = OfKey(sideTable'[t], fst'[t].key)
      BY <1>1, BareKept DEF OfKey, KeyOf
    <3> QED  BY <2>1, <3>1
  <2> QED  BY <1>6, <1>7, <2>1, <2>2, <2>4 DEF TableInv
<1>11. GroupedInv'
  <2>1. ASSUME NEW n, Kept(n) PROVE Kept(n)'
    <3>1. CASE InList(n, group.nodes)
      <4>1. top \in 1..Len(sideTable') /\ InList(n, sideTable'[top])
        BY <1>7, <1>8, <3>1
      <4> QED  BY <4>1 DEF Kept, InList
    <3>2. CASE \E t \in 1..Len(sideTable) : InList(n, sideTable[t])
      <4>1. PICK t \in 1..Len(fst) : InList(n, sideTable[t])  BY <1>2, <3>2 DEF TableInv
      <4>2. t \in 1..Len(sideTable') /\ InList(n, sideTable'[t])  BY <1>7, <1>8, <4>1
      <4> QED  BY <4>2 DEF Kept, InList
    <3> QED  BY <2>1, <3>1, <3>2 DEF Kept
  <2>2. \A j \in 1..next : Kept(pairs[j][2])'  BY <1>1, <1>2, <2>1 DEF GroupedInv
  <2> QED  BY <1>1, <2>2 DEF GroupedInv
<1> QED  BY <1>1, <1>2, <1>4, <1>10, <1>11, BareKept DEF BareInv

LEMMA AssembleBare == ASSUME FwdInv, ColumnsInv, KeysInv, BareInv, Assemble PROVE BareInv'
<1>1. /\ phase = "group" /\ next = node_count /\ group = NoGroup /\ phase' = "done"
      /\ UNCHANGED <<columns, sideTable, fst>>
      /\ frozen'.bare_name_fst = fst /\ frozen'.bare_name_nodes = sideTable
  BY DEF Assemble, PastNodes, idxVars, nameVars
<1>2. GroupInv /\ PairsInv /\ TableInv /\ GroupedInv  BY <1>1 DEF BareInv, KeysInv
<1>3. IndexedInv
  <2> SUFFICES ASSUME NEW n \in Nodes
               PROVE  \E t \in 1..Len(sideTable) : InList(n, sideTable[t])
    BY DEF IndexedInv
  <2>1. PICK j \in 1..node_count : pairs[j] = <<KeyOf(n), n>>  BY <1>2 DEF PairsInv
  <2>2. pairs[j][2] = n  BY <2>1
  <2> QED  BY <1>1, <1>2, <2>2 DEF GroupedInv, Kept
<1>4. TableInv' = TableInv /\ Nodes' = Nodes  BY <1>1, BareKept
<1>5. IndexedInv'  BY <1>1, <1>3, <1>4 DEF IndexedInv, InList
<1> QED  BY <1>1, <1>2, <1>4, <1>5 DEF BareInv, GroupInv

LEMMA NextBare == ASSUME FwdInv, ColumnsInv, KeysInv, BareInv, [Next]_vars PROVE BareInv'
<1> USE DEF OverNodes, PastNodes, Enter
<1>1. ASSUME phase' \notin {"group", "done"} PROVE BareInv'
  BY <1>1 DEF BareInv
<1>2. CASE CsrStep
  BY <1>1, <1>2, CsrPhase DEF FwdInv, CsrPhases, CountPanics
<1>3. CASE LabelStep \/ MapStep
  BY <1>1, <1>3
  DEF LabelStep, InsertLabel, LabelsDone, PackBitmap, PackDone, MapStep, InsertName, NamesDone,
      InsertFile
<1>4. CASE NameStep
  <2>1. CASE ResolvePanics  BY <1>1, <2>1, PanicsAre
  <2> QED
    BY <1>4, <2>1, SortPairsBare, OpenGroupBare, JoinGroupBare, CloseGroupBare DEF NameStep
<1>5. CASE Assemble  BY <1>5, AssembleBare
<1>6. CASE UNCHANGED vars
  <2>1. UNCHANGED <<phase, next, columns, pairs, group, sideTable, fst, frozen>>
    BY <1>6 DEF vars, idxVars, nameVars
  <2>2. PairsInv' = PairsInv /\ TableInv' = TableInv /\ Nodes' = Nodes
        /\ \A s, k : OfKey(s, k)' = OfKey(s, k)
    BY <2>1, BareKept
  <2>3. GroupedInv' = GroupedInv /\ IndexedInv' = IndexedInv
    <3>1. OfKey(group.nodes, group.key)' = OfKey(group.nodes, group.key)
      BY <2>1, <2>2 DEF OfKey, KeyOf
    <3> QED  BY <2>1, <2>2, <3>1 DEF GroupedInv, IndexedInv, Kept, InList
  <2> QED  BY <2>1, <2>2, <2>3 DEF BareInv
<1> QED  BY <1>2, <1>3, <1>4, <1>5, <1>6 DEF Next, IndexStep

LEMMA AlwaysKeys == Spec => [](FwdInv /\ ColumnsInv /\ KeysInv)
<1>1. KeysInv /\ (FwdInv /\ ColumnsInv) /\ [Next]_vars => KeysInv'  BY NextKeys
<1> QED  BY InitKeys, AlwaysColumns, <1>1, PTL DEF Spec

(* Freeze!BareNamesExact, for every graph and whatever the names resolve to:  *)
(* the FST has one slot for the string of a name, and the side table holds    *)
(* there the nodes whose names resolve to it, under whichever handle.         *)
THEOREM BareNamesHold == Spec => []BareNamesExact
<1>1. FwdInv /\ ColumnsInv /\ KeysInv /\ BareInv => BareNamesExact
  <2> SUFFICES ASSUME FwdInv, ColumnsInv, BareInv, phase = "done", NEW h \in DOMAIN Resolve
               PROVE  LET keyed == bare_name_slots(frozen, Resolve[h]) IN
                        /\ Cardinality(keyed) <= 1
                        /\ UNION {ToSet(bare_name_nodes(frozen, slot)) : slot \in keyed}
                             = {n \in Nodes : Resolve[columns.node_names[n + 1]] = Resolve[h]}
    BY DEF BareNamesExact, Frozen
  <2> DEFINE k == Resolve[h]
             keyed == bare_name_slots(frozen, k)
  <2>1. /\ fst \in Seq(Keyed) /\ TableInv /\ IndexedInv
        /\ frozen.bare_name_fst = fst /\ frozen.bare_name_nodes = sideTable
    BY DEF BareInv
  <2>2. keyed = {fst[t].slot : t \in {u \in 1..Len(fst) : fst[u].key = k}}
    BY <2>1 DEF bare_name_slots
  <2>3. \A t \in 1..Len(fst) : fst[t].key \in Nat  BY <2>1, KeyedType
  <2> HIDE DEF keyed, k
  <2>4. keyed = {} \/ \E s : keyed = {s}
    <3>1. \A t, u \in 1..Len(fst) : fst[t].key = k /\ fst[u].key = k => t = u
      <4>1. \A t, u \in 1..Len(fst) : t < u \/ u < t \/ t = u  BY <2>1
      <4> QED  BY <2>1, <2>3, <4>1 DEF TableInv
    <3> QED  BY <2>2, <3>1
  <2>5. Cardinality(keyed) <= 1
    <3>1. CASE keyed = {}  BY <3>1, FS_EmptySet
    <3>2. CASE \E s : keyed = {s}
      <4>1. PICK s : keyed = {s}  BY <3>2
      <4>2. Cardinality({s}) = 1  BY FS_Singleton
      <4> QED  BY <4>1, <4>2
    <3> QED  BY <2>4, <3>1, <3>2
  <2>6. \A t \in 1..Len(fst) : /\ bare_name_nodes(frozen, fst[t].slot) = sideTable[t]
                               /\ sideTable[t] \in Seq(Nodes)
                               /\ ToSet(sideTable[t]) = {n \in Nodes : InList(n, sideTable[t])}
    <3> SUFFICES ASSUME NEW t \in 1..Len(fst)
                 PROVE  /\ bare_name_nodes(frozen, fst[t].slot) = sideTable[t]
                        /\ sideTable[t] \in Seq(Nodes)
                        /\ ToSet(sideTable[t]) = {n \in Nodes : InList(n, sideTable[t])}
      OBVIOUS
    <3>1. fst[t].slot = t - 1 /\ (t - 1) + 1 = t /\ sideTable[t] \in Seq(Nodes)
      BY <2>1 DEF TableInv, OfKey
    <3>2. DOMAIN sideTable[t] = 1..Len(sideTable[t])
          /\ \A i \in 1..Len(sideTable[t]) : sideTable[t][i] \in Nodes
      BY <3>1
    <3>3. bare_name_nodes(frozen, fst[t].slot) = sideTable[t]
      BY <2>1, <3>1 DEF bare_name_nodes
    <3> QED  BY <3>1, <3>2, <3>3 DEF ToSet, InList
  <2>7. ASSUME NEW n, \E s \in keyed : n \in ToSet(bare_name_nodes(frozen, s))
        PROVE  n \in Nodes /\ KeyOf(n) = k
    <3>1. PICK t \in 1..Len(fst) : fst[t].key = k /\ n \in ToSet(bare_name_nodes(frozen, fst[t].slot))
      BY <2>2, <2>7
    <3>2. n \in Nodes /\ InList(n, sideTable[t])  BY <2>6, <3>1
    <3> QED  BY <2>1, <3>1, <3>2 DEF TableInv, OfKey, InList
  <2>8. ASSUME NEW n \in Nodes, KeyOf(n) = k
        PROVE  \E s \in keyed : n \in ToSet(bare_name_nodes(frozen, s))
    <3>1. PICK t \in 1..Len(fst) : InList(n, sideTable[t])
      BY <2>1 DEF IndexedInv, TableInv
    <3>2. fst[t].key = k  BY <2>1, <2>8, <3>1 DEF TableInv, OfKey, InList
    <3> QED  BY <2>2, <2>6, <3>1, <3>2
  <2> QED  BY <2>5, <2>7, <2>8 DEF KeyOf, k, keyed
<1>2. BareInv /\ (FwdInv /\ ColumnsInv /\ KeysInv) /\ [Next]_vars => BareInv'  BY NextBare
<1> QED  BY InitBare, AlwaysKeys, <1>1, <1>2, PTL DEF Spec

-----------------------------------------------------------------------------
(* Every loop of freeze ends. *)

\* A group is opened at a node that joins it.
OpenedInv == phase = "group" /\ group # NoGroup /\ group.nodes = <<>> => Joins

LEMMA JoinedNotEmpty ==
  ASSUME FwdInv, KeysInv, JoinGroup
  PROVE  group' # NoGroup /\ group'.nodes # <<>>
<1>1. /\ phase = "group" /\ group # NoGroup /\ next < node_count
      /\ group' = [group EXCEPT !.nodes = Append(@, pairs[next + 1][2])]
  BY DEF JoinGroup, Joins
<1>2. GroupInv /\ node_count \in Nat /\ next \in Nat
  BY <1>1, NodeCountType DEF KeysInv, FwdInv, BaseInv
<1>3. group \in [key : Nat, slot : Nat, nodes : Seq(Nat)]  BY <1>1, <1>2 DEF GroupInv
<1>4. group.nodes \in Seq(Nat) /\ pairs[next + 1][2] \in Nat
  BY <1>1, <1>2, <1>3, PairsAscend
<1>5. /\ Append(group.nodes, pairs[next + 1][2]) \in Seq(Nat)
      /\ Len(Append(group.nodes, pairs[next + 1][2])) = Len(group.nodes) + 1
  BY <1>4, AppendFacts
<1>6. group'.nodes = Append(group.nodes, pairs[next + 1][2])
      /\ group' \in [key : Nat, slot : Nat, nodes : Seq(Nat)]
  BY <1>1, <1>3, <1>5
<1>7. group'.nodes # <<>>
  <2>1. Len(group.nodes) \in Nat /\ Len(<<>>) = 0  BY <1>4
  <2>2. Len(group'.nodes) # Len(<<>>)  BY <1>5, <1>6, <2>1
  <2> QED  BY <2>2
<1> QED  BY <1>6, <1>7, NoGroupAssumption

LEMMA NextOpened == ASSUME FwdInv, KeysInv, OpenedInv, [Next]_vars PROVE OpenedInv'
<1> USE DEF OverNodes, PastNodes, Enter
<1>1. ASSUME phase' # "group" PROVE OpenedInv'
  BY <1>1 DEF OpenedInv
<1>2. CASE CsrStep
  BY <1>1, <1>2, CsrPhase DEF FwdInv, CsrPhases, CountPanics
<1>3. CASE LabelStep \/ MapStep
  BY <1>1, <1>3
  DEF LabelStep, InsertLabel, LabelsDone, PackBitmap, PackDone, MapStep, InsertName, NamesDone,
      InsertFile
<1>4. CASE ResolvePanics  BY <1>1, <1>4, PanicsAre
<1>5. CASE SortPairs
  <2>1. group' = NoGroup  BY <1>5 DEF SortPairs, KeysInv
  <2> QED  BY <2>1 DEF OpenedInv
<1>6. CASE OpenGroup
  <2>1. /\ next < node_count /\ group' = [key |-> pairs[next + 1][1], slot |-> Len(sideTable), nodes |-> <<>>]
        /\ UNCHANGED <<next, columns, pairs>>
    BY <1>6 DEF OpenGroup, NextSlot
  <2>2. group'.key = pairs[next + 1][1]  BY <2>1
  <2>3. Joins'  BY <2>1, <2>2 DEF Joins, node_count
  <2> QED  BY <2>3 DEF OpenedInv
<1>7. CASE JoinGroup  BY <1>7, JoinedNotEmpty DEF OpenedInv
<1>8. CASE CloseGroup  BY <1>8 DEF CloseGroup, OpenedInv
<1>9. CASE Assemble  BY <1>1, <1>9 DEF Assemble
<1>10. CASE UNCHANGED vars
  <2>1. UNCHANGED <<phase, next, columns, pairs, group>>  BY <1>10 DEF vars, idxVars, nameVars
  <2> QED  BY <2>1 DEF OpenedInv, Joins, node_count
<1> QED  BY <1>2, <1>3, <1>4, <1>5, <1>6, <1>7, <1>8, <1>9, <1>10 DEF Next, IndexStep, NameStep

OnToLater == Stage[phase] < Stage[phase']

Closer == phase' = phase /\ Left' \in Nat /\ Left' < Left

LEMMA StageIs ==
  /\ Stage["sort"] = 0 /\ Stage["forward"] = 1 /\ Stage["count"] = 2 /\ Stage["prefix"] = 3
  /\ Stage["place"] = 4 /\ Stage["labels"] = 5 /\ Stage["pack"] = 6 /\ Stage["qn"] = 7
  /\ Stage["files"] = 8 /\ Stage["group"] = 9 /\ Stage["done"] = 10 /\ Stage["panicked"] = 10
  BY DEF Stage

\* No row beyond the last is closed.
LEMMA LastRowIs ==
  ASSUME FwdInv
  PROVE  /\ LastRow \in Nat /\ node_count <= LastRow
         /\ phase # "sort" => \A i \in 1..Len(edges) : edges[i].src <= LastRow
<1>1. node_count \in Nat /\ edges \in Seq(Edge) /\ Len(edges) \in Nat
  BY NodeCountType DEF FwdInv, BaseInv
<1>2. \A i \in 1..Len(edges) : edges[i].src \in Nat  BY <1>1, EdgeFields
<1>3. edges # <<>> <=> Len(edges) \in 1..Len(edges)
  BY <1>1
<1>4. LastRow \in Nat /\ node_count <= LastRow
  <2>1. CASE edges # <<>> /\ edges[Len(edges)].src > node_count
    <3>1. LastRow = edges[Len(edges)].src  BY <2>1 DEF LastRow
    <3> QED  BY <1>1, <1>2, <1>3, <2>1, <3>1
  <2>2. CASE ~(edges # <<>> /\ edges[Len(edges)].src > node_count)
    <3>1. LastRow = node_count  BY <2>2 DEF LastRow
    <3> QED  BY <1>1, <3>1
  <2> QED  BY <2>1, <2>2
<1>5. ASSUME phase # "sort", NEW i \in 1..Len(edges) PROVE edges[i].src <= LastRow
  <2>1. edges # <<>> /\ Len(edges) \in 1..Len(edges)  BY <1>1, <1>3
  <2>2. edges[i].src <= edges[Len(edges)].src
    <3>1. i = Len(edges) \/ i < Len(edges)  BY <1>1
    <3>2. SortedBySource(edges)  BY <1>5 DEF FwdInv, ProgressInv
    <3> QED  BY <1>2, <2>1, <3>1, <3>2 DEF SortedBySource
  <2>3. edges[Len(edges)].src <= LastRow
    <3>1. CASE edges[Len(edges)].src > node_count  BY <1>2, <2>1, <3>1 DEF LastRow
    <3>2. CASE ~(edges[Len(edges)].src > node_count)  BY <1>1, <1>2, <1>4, <2>1, <3>2
    <3> QED  BY <3>1, <3>2
  <2> QED  BY <1>2, <1>4, <2>1, <2>2, <2>3
<1> QED  BY <1>4, <1>5

LEMMA ForwardCloser ==
  ASSUME FwdInv, SentinelInv, SkipToSource \/ PushForward \/ CloseRows
  PROVE  Closer
<1>1. /\ phase = "forward" /\ phase' = "forward" /\ edges' = edges /\ columns' = columns
      /\ next <= Len(edges)
  BY DEF SkipToSource, PushForward, CloseRows, AdvanceNode, PushEdge, Over, Past, FwdInv, BaseInv
<1>2. /\ next \in Nat /\ current \in Nat /\ node_count \in Nat /\ Len(edges) \in Nat
  BY NodeCountType DEF FwdInv, BaseInv, RowsInv
<1>3. /\ LastRow \in Nat /\ node_count <= LastRow /\ LastRow' = LastRow
      /\ \A i \in 1..Len(edges) : edges[i].src \in Nat /\ edges[i].src <= LastRow
  BY <1>1, LastRowIs, EdgeFields DEF FwdInv, BaseInv, LastRow, node_count
<1>4. current <= LastRow  BY <1>2, <1>3 DEF SentinelInv, Reached
<1>5. Left = (Len(edges) - next) + (LastRow - current)  BY <1>1 DEF Left
<1>6. Left' = (Len(edges) - next') + (LastRow - current')  BY <1>1, <1>3 DEF Left
<1>7. CASE SkipToSource
  <2>1. next < Len(edges) /\ next' = next /\ current' = current + 1 /\ ~(current >= edges[next + 1].src)
    BY <1>7 DEF SkipToSource, AdvanceNode, Over, AtSource, Here
  <2>2. edges[next + 1].src \in Nat /\ edges[next + 1].src <= LastRow
    <3>1. next + 1 \in 1..Len(edges)  BY <1>2, <2>1
    <3> QED  BY <1>3, <3>1
  <2>3. current + 1 <= LastRow  BY <1>2, <1>3, <2>1, <2>2
  <2> HIDE DEF Left, LastRow, node_count
  <2> QED  BY <1>1, <1>2, <1>3, <1>5, <1>6, <2>1, <2>3 DEF Closer
<1>8. CASE PushForward
  <2>1. next < Len(edges) /\ next' = next + 1 /\ current' = current
    BY <1>8 DEF PushForward, PushEdge, Over
  <2> QED  BY <1>1, <1>2, <1>3, <1>4, <1>5, <1>6, <2>1 DEF Closer
<1>9. CASE CloseRows
  <2>1. next' = next /\ current' = current + 1 /\ ~(current >= node_count)
    BY <1>9 DEF CloseRows, AdvanceNode, RowsClosed
  <2>2. current + 1 <= LastRow  BY <1>2, <1>3, <2>1
  <2> QED  BY <1>1, <1>2, <1>3, <1>5, <1>6, <2>1, <2>2 DEF Closer
<1> QED  BY <1>7, <1>8, <1>9

LEMMA CsrCloser == ASSUME FwdInv, SentinelInv, CsrStep PROVE OnToLater \/ Closer
<1> USE DEF Over, Past, Enter
<1>1. /\ next \in Nat /\ node_count \in Nat /\ Len(edges) \in Nat
  BY NodeCountType DEF FwdInv, BaseInv
<1>2. CASE SortEdges \/ ForwardDone
  BY <1>2, StageIs DEF SortEdges, ForwardDone, OnToLater
<1>3. CASE SkipToSource \/ PushForward \/ CloseRows  BY <1>3, ForwardCloser
<1>4. CASE CountIncoming \/ Place
  <2>1. /\ phase \in {"count", "place"} /\ phase' = phase /\ next < Len(edges) /\ next' = next + 1
        /\ edges' = edges
    BY <1>4 DEF CountIncoming, Place
  <2>2. Left = Len(edges) - next /\ Left' = Len(edges) - (next + 1)  BY <2>1 DEF Left
  <2> QED  BY <1>1, <2>1, <2>2 DEF Closer
<1>5. CASE PrefixSum
  <2>1. /\ phase = "prefix" /\ phase' = phase /\ next < node_count /\ next' = next + 1
        /\ columns' = columns
    BY <1>5 DEF PrefixSum
  <2>2. Left = node_count - next /\ Left' = node_count - (next + 1)  BY <2>1 DEF Left, node_count
  <2> QED  BY <1>1, <2>1, <2>2 DEF Closer
<1>6. CASE CountPanics \/ CountDone \/ PrefixDone \/ PlaceDone
  BY <1>6, StageIs DEF CountPanics, CountDone, PrefixDone, PlaceDone, OnToLater
<1> QED  BY <1>2, <1>3, <1>4, <1>5, <1>6 DEF CsrStep, ForwardStep, ReverseStep

LEMMA GroupCloser ==
  ASSUME FwdInv, KeysInv, OpenedInv, OpenGroup \/ JoinGroup \/ CloseGroup
  PROVE  OnToLater \/ Closer
<1>1. /\ next \in Nat /\ node_count \in Nat /\ phase = "group" /\ columns' = columns
  BY NodeCountType DEF FwdInv, BaseInv, OpenGroup, JoinGroup, CloseGroup, OverNodes
<1>2. Left = 3 * (node_count - next) + GroupLeft  BY <1>1 DEF Left
<1>3. phase' = phase => Left' = 3 * (node_count - next') + GroupLeft'
  BY <1>1 DEF Left, node_count
<1>4. GroupInv  BY <1>1 DEF KeysInv
<1>5. CASE OpenGroup
  <2>1. /\ next < node_count /\ group = NoGroup /\ phase' = phase /\ next' = next
        /\ group' = [key |-> pairs[next + 1][1], slot |-> Len(sideTable), nodes |-> <<>>]
    BY <1>5 DEF OpenGroup, OverNodes, NextSlot
  <2>2. GroupLeft = 1  BY <2>1 DEF GroupLeft
  <2>3. GroupLeft' = 0
    <3>1. pairs[next + 1][1] \in Nat  BY <1>1, <1>4, <2>1, PairsAscend
    <3>2. Len(sideTable) \in Nat /\ <<>> \in Seq(Nat)  BY <1>4 DEF GroupInv
    <3>3. group' \in [key : Nat, slot : Nat, nodes : Seq(Nat)]  BY <2>1, <3>1, <3>2
    <3>4. group' # NoGroup /\ group'.nodes = <<>>  BY <2>1, <3>3, NoGroupAssumption
    <3> QED  BY <3>4 DEF GroupLeft
  <2> QED  BY <1>1, <1>2, <1>3, <2>1, <2>2, <2>3 DEF Closer
<1>6. CASE JoinGroup
  <2>1. next < node_count /\ group # NoGroup /\ phase' = phase /\ next' = next + 1
    BY <1>6 DEF JoinGroup, Joins
  <2>2. GroupLeft \in {0, 2}  BY <2>1 DEF GroupLeft
  <2>3. GroupLeft' = 2  BY <1>6, JoinedNotEmpty DEF GroupLeft
  <2> QED  BY <1>1, <1>2, <1>3, <2>1, <2>2, <2>3 DEF Closer
<1>7. CASE CloseGroup
  <2>1. /\ group # NoGroup /\ ~Joins /\ next' = next /\ group' = NoGroup
        /\ phase' = phase \/ phase' = "panicked"
    BY <1>7 DEF CloseGroup
  <2>2. GroupLeft = 2  BY <1>1, <2>1 DEF OpenedInv, GroupLeft
  <2>3. GroupLeft' = 1  BY <2>1 DEF GroupLeft
  <2>4. CASE phase' = phase
    <3>1. next <= node_count  BY <1>4 DEF GroupInv
    <3> QED  BY <1>1, <1>2, <1>3, <2>1, <2>2, <2>3, <2>4, <3>1 DEF Closer
  <2>5. CASE phase' = "panicked"  BY <1>1, <2>5, StageIs DEF OnToLater
  <2> QED  BY <2>1, <2>4, <2>5
<1> QED  BY <1>5, <1>6, <1>7

LEMMA IndexCloser ==
  ASSUME FwdInv, KeysInv, OpenedInv, IndexStep
  PROVE  OnToLater \/ Closer
<1> USE DEF OverNodes, PastNodes, Enter
<1>1. next \in Nat /\ node_count \in Nat /\ LabelCount \in Nat
  BY NodeCountType DEF FwdInv, BaseInv, LabelCount
<1>2. CASE InsertLabel \/ InsertName \/ InsertFile
  <2>1. /\ phase \in {"labels", "qn", "files"} /\ phase' = phase /\ next < node_count
        /\ next' = next + 1 /\ columns' = columns
    BY <1>2 DEF InsertLabel, InsertName, InsertFile
  <2>2. Left = node_count - next /\ Left' = node_count - (next + 1)  BY <2>1 DEF Left, node_count
  <2> QED  BY <1>1, <2>1, <2>2 DEF Closer
<1>3. CASE PackBitmap
  <2>1. phase = "pack" /\ phase' = phase /\ next < LabelCount /\ next' = next + 1
    BY <1>3 DEF PackBitmap
  <2>2. Left = LabelCount - next /\ Left' = LabelCount - (next + 1)  BY <2>1 DEF Left
  <2> QED  BY <1>1, <2>1, <2>2 DEF Closer
<1>4. CASE LabelsDone \/ PackDone \/ NamesDone \/ SortPairs
  BY <1>4, StageIs DEF LabelsDone, PackDone, NamesDone, SortPairs, OnToLater
<1>5. CASE ResolvePanics  BY <1>5, PanicsAre, StageIs DEF OnToLater
<1>6. CASE OpenGroup \/ JoinGroup \/ CloseGroup  BY <1>6, GroupCloser
<1> QED  BY <1>2, <1>3, <1>4, <1>5, <1>6 DEF IndexStep, LabelStep, MapStep, NameStep

(* Freeze!EveryLoopEnds, for every graph: each step of freeze brings the loop *)
(* it is in closer to its end, or ends it.                                    *)
THEOREM EveryLoopEndsHolds == Spec => EveryLoopEnds
<1> DEFINE I == FwdInv /\ SentinelInv /\ KeysInv /\ OpenedInv
<1>1. OpenedInv /\ (FwdInv /\ ColumnsInv /\ KeysInv) /\ [Next]_vars => OpenedInv'  BY NextOpened
<1>2. Init => OpenedInv  BY DEF Init, CsrInit, OpenedInv
<1>3. Spec => []I  BY AlwaysSentinel, AlwaysKeys, <1>1, <1>2, PTL DEF Spec
<1>4. I /\ [Next]_vars => [OnToLater \/ Closer]_vars
  <2> SUFFICES ASSUME I, Next PROVE OnToLater \/ Closer
    OBVIOUS
  <2>1. CASE Assemble  BY <2>1, StageIs DEF Assemble, PastNodes, OnToLater
  <2> QED  BY <2>1, CsrCloser, IndexCloser DEF Next
<1> HIDE DEF I
<1> QED  BY <1>3, <1>4, PTL DEF Spec, EveryLoopEnds, OnToLater, Closer

-----------------------------------------------------------------------------
(* The types of what freeze builds. *)

Group == [key : Nat, slot : Nat, nodes : Seq(Nodes)]
Block == [at : Nat, size : Nat, nodes : SUBSET Nodes]

CsrTypesInv ==
  /\ counts \in [Nodes -> Nat]
  /\ revOffsets \in Seq(Nat)
  /\ phase = "place" => writePos \in [0..node_count -> Nat]
  /\ slots \in [0..(Len(edges) - 1) -> Entry \cup {Uninit}]

LabelTypesInv ==
  /\ bitmaps \in [LabelIds -> SUBSET Nodes]
  /\ packed \in [len : Nat, blocks : SUBSET Block]

MapTypesInv ==
  /\ DOMAIN qnIndex \subseteq Names /\ \A h \in DOMAIN qnIndex : qnIndex[h] \in Nodes
  /\ DOMAIN fileIndex \subseteq Files /\ \A f \in DOMAIN fileIndex : fileIndex[f] \in Seq(Nodes)

NameTypesInv ==
  /\ pairs \in Seq(Nat \X Nodes)
  /\ group = NoGroup \/ group \in Group
  /\ sideTable \in Seq(Seq(Nodes))
  /\ fst \in Seq(Keyed)

FrozenInv == phase # "done" => frozen = Pending

TypesInv == CsrTypesInv /\ LabelTypesInv /\ MapTypesInv /\ NameTypesInv /\ FrozenInv

\* What the other invariants say that the types rest on.
ProvedInv == FwdInv /\ RevInv /\ ColumnsInv /\ LabelsInv /\ KeysInv /\ BareInv

LEMMA InitTypes == Init => TypesInv
<1> SUFFICES ASSUME Init PROVE TypesInv
  OBVIOUS
<1> USE DEF Init, CsrInit, IdxInit
<1>1. CsrTypesInv
  <2>1. <<0>> \in Seq(Nat)  OBVIOUS
  <2> QED  BY <2>1 DEF CsrTypesInv
<1>2. LabelTypesInv  BY DEF LabelTypesInv, LabelIds
<1>3. MapTypesInv
  <2>1. DOMAIN <<>> = {}  OBVIOUS
  <2> QED  BY <2>1 DEF MapTypesInv
<1>4. NameTypesInv  BY DEF NameTypesInv
<1>5. FrozenInv  BY DEF FrozenInv
<1> QED  BY <1>1, <1>2, <1>3, <1>4, <1>5 DEF TypesInv

LEMMA CsrTypesSteps ==
  ASSUME ProvedInv, CsrTypesInv, CsrStep
  PROVE  CsrTypesInv'
<1> USE DEF ProvedInv, CsrTypesInv
<1>1. node_count \in Nat /\ edges \in Seq(Edge) /\ next \in Nat
  BY NodeCountType DEF FwdInv, BaseInv
<1>2. columns' = columns /\ node_count' = node_count /\ Nodes' = Nodes
  BY NextColumns DEF node_count, Nodes, Next, CsrStep, SortEdges, ForwardStep, ReverseStep,
     SkipToSource, PushForward, CloseRows, ForwardDone, AdvanceNode, PushEdge, CountIncoming,
     CountPanics, CountDone, PrefixSum, PrefixDone, Place, PlaceDone
<1>3. CASE SortEdges
  BY <1>2, <1>3, SortFwd DEF SortEdges, revVars
<1>4. CASE ForwardStep
  BY <1>2, <1>4
  DEF ForwardStep, SkipToSource, PushForward, CloseRows, ForwardDone, AdvanceNode, PushEdge,
      Over, Past, Enter, revVars, csrVars
<1>5. CASE CountIncoming
  <2>1. /\ counts' = [counts EXCEPT ![Here.tgt] = @ + 1] /\ phase' = "count"
        /\ UNCHANGED <<edges, revOffsets, slots>>
    BY <1>5 DEF CountIncoming, Over
  <2>2. counts' = [n \in Nodes |-> IF n = Here.tgt THEN counts[n] + 1 ELSE counts[n]]
    BY <2>1
  <2>3. counts' \in [Nodes -> Nat]  BY <2>2
  <2> QED  BY <1>2, <2>1, <2>3
<1>6. CASE CountPanics \/ CountDone \/ PlaceDone
  BY <1>2, <1>6 DEF CountPanics, CountDone, PlaceDone, Over, Past, Enter, csrVars, revVars
<1>7. CASE PrefixSum
  <2>1. /\ phase = "prefix" /\ phase' = "prefix" /\ next < node_count
        /\ revOffsets' = Append(revOffsets, revOffsets[next + 1] + counts[next])
        /\ UNCHANGED <<edges, counts, slots>>
    BY <1>7 DEF PrefixSum
  <2>2. next + 1 \in 1..Len(revOffsets) /\ next \in Nodes
    BY <1>1, <2>1 DEF RevInv, Summed, Nodes
  <2>3. revOffsets[next + 1] + counts[next] \in Nat  BY <2>2
  <2>4. revOffsets' \in Seq(Nat)  BY <2>1, <2>3, AppendFacts
  <2> QED  BY <1>2, <2>1, <2>4
<1>8. CASE PrefixDone
  <2>1. /\ phase = "prefix" /\ next = node_count /\ phase' = "place"
        /\ writePos' = [n \in 0..node_count |-> revOffsets[n + 1]]
        /\ UNCHANGED <<edges, counts, revOffsets, slots>>
    BY <1>8 DEF PrefixDone, WriteStarts, Enter
  <2>2. Len(revOffsets) = node_count + 1  BY <2>1 DEF RevInv, Summed
  <2>3. \A n \in 0..node_count : n + 1 \in 1..Len(revOffsets)  BY <1>1, <2>2
  <2>4. \A n \in 0..node_count : revOffsets[n + 1] \in Nat  BY <2>3
  <2> QED  BY <1>2, <2>1, <2>4
<1>9. CASE Place
  <2>1. /\ Over("place") /\ phase = "place" /\ phase' = "place"
        /\ slots' = [slots EXCEPT ![SlotOf(Here)] = [node |-> Here.src, type |-> Here.type]]
        /\ writePos' = [writePos EXCEPT ![Here.tgt] = @ + 1]
        /\ UNCHANGED <<edges, counts, revOffsets>>
    BY <1>9 DEF Place, Advance, Over
  <2>2. Here \in Edge  BY <2>1, PlaceFresh, EdgeFields
  <2>3. [node |-> Here.src, type |-> Here.type] \in Entry  BY <2>2 DEF Edge, Entry
  <2>4. writePos' \in [0..node_count -> Nat]
    <3>1. writePos' = [n \in 0..node_count |-> IF n = Here.tgt THEN writePos[n] + 1 ELSE writePos[n]]
      BY <2>1
    <3>2. \A n \in 0..node_count : writePos[n] \in Nat  BY <2>1
    <3>3. \A n \in 0..node_count :
            (IF n = Here.tgt THEN writePos[n] + 1 ELSE writePos[n]) \in Nat
      BY <3>2
    <3> QED  BY <3>1, <3>3
  <2>5. slots' \in [0..(Len(edges) - 1) -> Entry \cup {Uninit}]  BY <2>1, <2>3
  <2> QED  BY <1>2, <2>1, <2>4, <2>5
<1> QED  BY <1>3, <1>4, <1>5, <1>6, <1>7, <1>8, <1>9 DEF CsrStep, ReverseStep

LEMMA LabelTypesSteps ==
  ASSUME ProvedInv, LabelTypesInv, LabelStep
  PROVE  LabelTypesInv'
<1> USE DEF ProvedInv, LabelTypesInv
<1>1. node_count \in Nat /\ next \in Nat
  BY NodeCountType DEF FwdInv, BaseInv
<1>2. columns' = columns /\ Nodes' = Nodes /\ Block' = Block
  BY DEF LabelStep, InsertLabel, LabelsDone, PackBitmap, PackDone, Nodes, node_count, Block
<1>3. CASE InsertLabel
  <2>1. /\ next < node_count /\ packed' = packed
        /\ bitmaps' = [bitmaps EXCEPT ![Discriminant(columns.node_labels[next + 1])]
                                      = @ \cup {NodeId(next)}]
    BY <1>3 DEF InsertLabel, OverNodes
  <2>2. next \in Nodes /\ NodeId(next) = next
    <3>1. next \in Nodes  BY <1>1, <2>1 DEF Nodes
    <3> QED  BY <3>1, NodeIdIs
  <2>3. bitmaps' \in [LabelIds -> SUBSET Nodes]
    <3> DEFINE d == Discriminant(columns.node_labels[next + 1])
    <3>1. bitmaps' = [l \in LabelIds |-> IF l = d THEN bitmaps[l] \cup {next} ELSE bitmaps[l]]
      BY <2>1, <2>2
    <3> HIDE DEF d
    <3>2. \A l \in LabelIds : bitmaps[l] \in SUBSET Nodes  OBVIOUS
    <3> QED  BY <2>2, <3>1, <3>2
  <2> QED  BY <1>2, <2>1, <2>3
<1>4. CASE PackBitmap
  <2> DEFINE block == [at |-> packed.len, size |-> SizeOf(next), nodes |-> bitmaps[next]]
  <2>1. /\ phase = "pack" /\ next < LabelCount /\ bitmaps' = bitmaps
        /\ packed' = [len |-> packed.len + SizeBytes + SizeOf(next),
                      blocks |-> packed.blocks \cup {block}]
    BY <1>4 DEF PackBitmap, SizeOf
  <2>2. next \in LabelIds  BY <1>1, <2>1 DEF LabelIds, LabelCount
  <2>3. SizeOf(next) \in Nat
    <3>1. BitmapsUpTo(node_count)  BY <2>1 DEF LabelsInv
    <3> QED  BY <2>2, <3>1, SizeOfType
  <2>4. packed.len \in Nat /\ packed.blocks \in SUBSET Block /\ bitmaps[next] \in SUBSET Nodes
    BY <2>2
  <2>5. block \in Block  BY <2>3, <2>4 DEF Block
  <2> HIDE DEF block
  <2>6. packed'.len \in Nat /\ packed'.blocks \in SUBSET Block
    BY <2>1, <2>3, <2>4, <2>5 DEF SizeBytes
  <2>7. packed' \in [len : Nat, blocks : SUBSET Block]  BY <2>1, <2>6
  <2> QED  BY <1>2, <2>1, <2>7
<1>5. CASE LabelsDone \/ PackDone
  BY <1>2, <1>5 DEF LabelsDone, PackDone, idxVars, labelVars, Block
<1> QED  BY <1>3, <1>4, <1>5 DEF LabelStep

LEMMA MapTypesSteps ==
  ASSUME ProvedInv, MapTypesInv, MapStep
  PROVE  MapTypesInv'
<1> USE DEF ProvedInv, MapTypesInv
<1>1. node_count \in Nat /\ next \in Nat
  BY NodeCountType DEF FwdInv, BaseInv
<1>2. columns' = columns /\ Nodes' = Nodes
  BY DEF MapStep, InsertName, NamesDone, InsertFile, Nodes, node_count
<1>3. CASE InsertName
  <2>1. /\ next < node_count /\ fileIndex' = fileIndex
        /\ qnIndex' = Insert(qnIndex, columns.node_names[next + 1], NodeId(next))
    BY <1>3 DEF InsertName, OverNodes
  <2>2. NodeId(next) \in Nodes /\ columns.node_names[next + 1] \in Names
    <3>1. next \in Nodes  BY <1>1, <2>1 DEF Nodes
    <3> QED  BY <3>1, NodeIdIs DEF ColumnsInv
  <2> QED  BY <1>2, <2>1, <2>2 DEF Insert
<1>4. CASE InsertFile
  <2> DEFINE g == columns.node_files[next + 1]
  <2>1. /\ next < node_count /\ qnIndex' = qnIndex
        /\ fileIndex' = [x \in DOMAIN fileIndex \cup {g} |->
                           IF x = g THEN Under(g) \o <<NodeId(next)>> ELSE fileIndex[x]]
    BY <1>4 DEF InsertFile, OverNodes, Listed, Under
  <2>2. NodeId(next) \in Nodes /\ g \in Files
    <3>1. next \in Nodes  BY <1>1, <2>1 DEF Nodes
    <3> QED  BY <3>1, NodeIdIs DEF ColumnsInv
  <2>3. Under(g) \in Seq(Nodes)  BY DEF Under
  <2>4. Under(g) \o <<NodeId(next)>> \in Seq(Nodes)  BY <2>2, <2>3
  <2> HIDE DEF g
  <2> QED  BY <1>2, <2>1, <2>2, <2>4
<1>5. CASE NamesDone
  BY <1>2, <1>5 DEF NamesDone, idxVars, mapVars
<1> QED  BY <1>3, <1>4, <1>5 DEF MapStep

LEMMA NameTypesSteps ==
  ASSUME ProvedInv, NameTypesInv, NameStep
  PROVE  NameTypesInv'
<1> USE DEF ProvedInv, NameTypesInv
<1>1. node_count \in Nat /\ next \in Nat
  BY NodeCountType DEF FwdInv, BaseInv
<1>2. columns' = columns /\ Nodes' = Nodes /\ Group' = Group
  BY PanicsAre DEF NameStep, SortPairs, OpenGroup, JoinGroup, CloseGroup, Nodes, node_count, Group
<1>3. CASE SortPairs
  <2>1. PICK s \in [1..node_count -> NamedNodes] : pairs' = s  BY <1>3 DEF SortPairs
  <2>2. NamedNodes \subseteq Nat \X Nodes
    <3>1. \A n \in Nodes : KeyOf(n) \in Nat  BY <1>3, KeyType DEF SortPairs
    <3> QED  BY <3>1, NamedNodesAre
  <2>3. pairs' \in Seq(Nat \X Nodes)  BY <1>1, <2>1, <2>2
  <2> QED  BY <1>2, <1>3, <2>3 DEF SortPairs
<1>4. CASE OpenGroup
  <2>1. /\ phase = "group" /\ next < node_count
        /\ group' = [key |-> pairs[next + 1][1], slot |-> Len(sideTable), nodes |-> <<>>]
        /\ UNCHANGED <<pairs, sideTable, fst>>
    BY <1>4 DEF OpenGroup, OverNodes, NextSlot
  <2>2. pairs[next + 1][1] \in Nat
    BY <1>1, <2>1, PairsAscend DEF KeysInv
  <2>3. group' \in Group  BY <2>1, <2>2 DEF Group
  <2> QED  BY <1>2, <2>1, <2>3
<1>5. CASE JoinGroup
  <2>1. /\ phase = "group" /\ group # NoGroup /\ next < node_count
        /\ group' = [group EXCEPT !.nodes = Append(@, pairs[next + 1][2])]
        /\ UNCHANGED <<pairs, sideTable, fst>>
    BY <1>5 DEF JoinGroup, Joins
  <2>2. pairs[next + 1] \in Nat \X Nodes
    <3>1. next + 1 \in 1..node_count /\ pairs \in [1..node_count -> NamedNodes]
      BY <1>1, <2>1 DEF BareInv, PairsInv
    <3>2. next + 1 \in 1..Len(pairs)  BY <1>1, <3>1
    <3> QED  BY <3>2
  <2>3. pairs[next + 1][2] \in Nodes  BY <2>2
  <2>4. group.nodes \in Seq(Nodes)  BY <2>1 DEF Group
  <2>5. Append(group.nodes, pairs[next + 1][2]) \in Seq(Nodes)  BY <2>3, <2>4, AppendFacts
  <2>6. group' \in Group  BY <2>1, <2>5 DEF Group
  <2> QED  BY <1>2, <2>1, <2>6
<1>6. CASE CloseGroup
  <2>1. /\ group # NoGroup /\ sideTable' = Append(sideTable, group.nodes) /\ group' = NoGroup
        /\ pairs' = pairs
        /\ fst' = Append(fst, [key |-> group.key, slot |-> group.slot]) \/ fst' = fst
    BY <1>6 DEF CloseGroup
  <2>2. group.nodes \in Seq(Nodes) /\ [key |-> group.key, slot |-> group.slot] \in Keyed
    BY <2>1 DEF Group, Keyed
  <2>3. sideTable' \in Seq(Seq(Nodes))  BY <2>1, <2>2, AppendFacts
  <2>4. fst' \in Seq(Keyed)
    <3>1. Append(fst, [key |-> group.key, slot |-> group.slot]) \in Seq(Keyed)
      BY <2>2, AppendFacts
    <3> QED  BY <2>1, <3>1
  <2> QED  BY <1>2, <2>1, <2>3, <2>4
<1>7. CASE ResolvePanics
  BY <1>2, <1>7, PanicsAre
<1> QED  BY <1>3, <1>4, <1>5, <1>6, <1>7 DEF NameStep

\* The parts of the state that each half of freeze leaves alone.
LEMMA TypesKept ==
  ASSUME columns' = columns
  PROVE  /\ UNCHANGED <<phase, next, csrVars>> => CsrTypesInv' = CsrTypesInv
         /\ UNCHANGED labelVars => LabelTypesInv' = LabelTypesInv
         /\ UNCHANGED mapVars => MapTypesInv' = MapTypesInv
         /\ UNCHANGED nameVars => NameTypesInv' = NameTypesInv
  BY DEF CsrTypesInv, LabelTypesInv, MapTypesInv, NameTypesInv, csrVars, revVars, labelVars, mapVars,
     nameVars, Nodes, node_count, Group, Block

LEMMA NextTypes == ASSUME ProvedInv, TypesInv, [Next]_vars PROVE TypesInv'
<1> USE DEF TypesInv
<1>1. columns' = columns  BY NextColumns DEF ProvedInv
<1>2. CASE CsrStep /\ UNCHANGED <<idxVars, frozen>>
  <2>1. CsrTypesInv'  BY <1>2, CsrTypesSteps
  <2>2. LabelTypesInv' /\ MapTypesInv' /\ NameTypesInv'  BY <1>1, <1>2, TypesKept DEF idxVars
  <2>3. FrozenInv'
    BY <1>2, CsrPhase DEF FrozenInv, ProvedInv, FwdInv, CsrPhases
  <2> QED  BY <2>1, <2>2, <2>3
<1>3. CASE IndexStep /\ UNCHANGED <<csrVars, frozen>>
  <2>1. /\ phase \in IndexPhases /\ phase' \in IndexPhases \cup {"panicked"}
    BY <1>3, IndexPhase DEF ProvedInv, FwdInv
  <2>2. CsrTypesInv'
    BY <1>1, <1>3, <2>1
    DEF CsrTypesInv, csrVars, revVars, Nodes, node_count, IndexPhases
  <2>3. FrozenInv'  BY <1>3, <2>1 DEF FrozenInv, IndexPhases
  <2>4. CASE LabelStep
    <3>1. UNCHANGED <<mapVars, nameVars>>
      BY <2>4 DEF LabelStep, InsertLabel, LabelsDone, PackBitmap, PackDone, idxVars
    <3> QED  BY <1>1, <2>2, <2>3, <2>4, <3>1, LabelTypesSteps, TypesKept
  <2>5. CASE MapStep
    <3>1. UNCHANGED <<labelVars, nameVars>>
      BY <2>5 DEF MapStep, InsertName, NamesDone, InsertFile, idxVars
    <3> QED  BY <1>1, <2>2, <2>3, <2>5, <3>1, MapTypesSteps, TypesKept
  <2>6. CASE NameStep
    <3>1. UNCHANGED <<labelVars, mapVars>>
      BY <2>6, PanicsAre DEF NameStep, SortPairs, OpenGroup, JoinGroup, CloseGroup, labelVars, mapVars
    <3> QED  BY <1>1, <2>2, <2>3, <2>6, <3>1, NameTypesSteps, TypesKept
  <2> QED  BY <1>3, <2>4, <2>5, <2>6 DEF IndexStep
<1>4. CASE Assemble
  <2>1. phase' = "done" /\ UNCHANGED <<csrVars, idxVars>>  BY <1>4 DEF Assemble
  <2>2. CsrTypesInv'
    BY <1>1, <2>1 DEF CsrTypesInv, csrVars, revVars, Nodes, node_count
  <2>3. LabelTypesInv' /\ MapTypesInv' /\ NameTypesInv'  BY <1>1, <2>1, TypesKept DEF idxVars
  <2>4. FrozenInv'  BY <2>1 DEF FrozenInv
  <2> QED  BY <2>2, <2>3, <2>4
<1>5. CASE UNCHANGED vars
  BY <1>1, <1>5, TypesKept DEF vars, idxVars, FrozenInv
<1> QED  BY <1>2, <1>3, <1>4, <1>5 DEF Next

(* Freeze!TypeOK, for every graph.                                            *)
THEOREM FreezeTypeOK == Spec => []TypeOK
<1>1. ProvedInv /\ TypesInv => TypeOK
  <2> SUFFICES ASSUME ProvedInv, TypesInv PROVE TypeOK
    OBVIOUS
  <2>1. /\ phase \in CsrPhases \cup IndexPhases \cup {"done", "panicked"}
        /\ next \in Nat /\ columns \in NodeParts
    BY DEF ProvedInv, FwdInv, BaseInv, Phases
  <2>2. CsrTypeOK
    BY DEF CsrTypeOK, ProvedInv, FwdInv, BaseInv, RowsInv, TypesInv, CsrTypesInv
  <2>3. IdxTypeOK
    BY DEF IdxTypeOK, TypesInv, LabelTypesInv, MapTypesInv, NameTypesInv, LabelIds, Group, Block, Keyed
  <2>4. phase = "done" => frozen.rev_edges \in [0..(edge_count(frozen) - 1) -> Entry]
    <3> SUFFICES ASSUME phase = "done" PROVE frozen.rev_edges \in [0..(edge_count(frozen) - 1) -> Entry]
      OBVIOUS
    <3>1. /\ frozen.rev_edges = slots /\ edge_count(frozen) = Len(edges) /\ AllWritten
      BY DEF ProvedInv, RevInv, FwdInv, ProgressInv, edge_count
    <3>2. slots \in [0..(Len(edges) - 1) -> Entry \cup {Uninit}]  BY DEF TypesInv, CsrTypesInv
    <3> QED  BY <3>1, <3>2 DEF AllWritten
  <2> QED  BY <2>1, <2>2, <2>3, <2>4 DEF TypeOK, TypesInv, FrozenInv
<1>2. Spec => []ProvedInv
  <2>1. LabelsInv /\ (FwdInv /\ ColumnsInv) /\ [Next]_vars => LabelsInv'  BY NextLabels
  <2>2. BareInv /\ (FwdInv /\ ColumnsInv /\ KeysInv) /\ [Next]_vars => BareInv'  BY NextBare
  <2> QED
    BY InitLabels, InitBare, AlwaysRev, AlwaysKeys, <2>1, <2>2, PTL DEF Spec, ProvedInv
<1>3. TypesInv /\ ProvedInv /\ [Next]_vars => TypesInv'  BY NextTypes
<1> QED  BY InitTypes, <1>1, <1>2, <1>3, PTL DEF Spec

-----------------------------------------------------------------------------
(* Counting the edges of the layouts: as many places hold a value there as in *)
(* the edges that were added.                                                 *)

\* One-to-one places hold a value as often.
LEMMA CountThrough ==
  ASSUME NEW K, NEW L, IsFiniteSet(K), NEW f \in [K -> L],
         \A i, j \in K : i # j => f[i] # f[j],
         \A l \in L : \E i \in K : f[i] = l
  PROVE  Cardinality(K) = Cardinality(L)
<1>1. f \in Bijection(K, L)  BY DEF Bijection, Injection, Surjection, IsInjective
<1>2. ExistsBijection(K, L)  BY <1>1 DEF ExistsBijection
<1> QED  BY <1>2, FS_Bijection

Places(s, x) == {i \in DOMAIN s : s[i] = x}

LEMMA BagIs ==
  ASSUME NEW s
  PROVE  /\ DOMAIN ToBag(s) = {s[i] : i \in DOMAIN s}
         /\ ToBag(s) = [x \in {s[i] : i \in DOMAIN s} |-> Cardinality(Places(s, x))]
  BY DEF ToBag, Range, Places

LEMMA BagType ==
  ASSUME NEW S, NEW s \in Seq(S)
  PROVE  IsABag(ToBag(s)) /\ BagToSet(ToBag(s)) \subseteq S
<1>1. DOMAIN s = 1..Len(s) /\ Len(s) \in Nat /\ \A i \in 1..Len(s) : s[i] \in S  OBVIOUS
<1>2. ASSUME NEW x \in {s[i] : i \in DOMAIN s}
      PROVE  Cardinality(Places(s, x)) \in {n \in Nat : n > 0}
  <2>1. Places(s, x) \in SUBSET (1..Len(s)) /\ Places(s, x) # {}  BY <1>1, <1>2 DEF Places
  <2>2. IsFiniteSet(Places(s, x)) /\ Cardinality(Places(s, x)) \in Nat
    BY <1>1, <2>1, IntervalFinite
  <2>3. Cardinality(Places(s, x)) # 0  BY <2>1, <2>2, FS_EmptySet
  <2> QED  BY <2>2, <2>3
<1>3. BagToSet(ToBag(s)) \subseteq S
  <2>1. {s[i] : i \in DOMAIN s} \subseteq S  BY <1>1
  <2>2. BagToSet(ToBag(s)) = DOMAIN ToBag(s)  BY DEF BagToSet
  <2> QED  BY <2>1, <2>2, BagIs
<1>4. IsABag(ToBag(s))  BY <1>2, BagIs DEF IsABag
<1> QED  BY <1>3, <1>4

\* Sorting only moves the edges.
LEMMA SortKeepsBag == ASSUME FwdInv, SortEdges PROVE ToBag(edges') = ToBag(edges)
<1> DEFINE m == Len(edges)
<1>1. PICK p \in [1..m -> 1..m] :
        StableOrder(edges, p) /\ edges' = [i \in 1..m |-> edges[p[i]]]
  BY DEF SortEdges
<1>2. m \in Nat /\ \A i \in 1..m : edges[i].src \in Nat /\ edges[i].tgt \in Nat
  BY EdgeFields DEF FwdInv, BaseInv
<1>3. DOMAIN edges = 1..m /\ DOMAIN edges' = 1..m  BY <1>1 DEF FwdInv, BaseInv
<1> HIDE DEF m
<1>4. \A i, j \in 1..m : i # j => p[i] # p[j]
  <2>1. ASSUME NEW i \in 1..m, NEW j \in 1..m, i < j PROVE p[i] # p[j]
    <3>1. \/ Precedes(edges[p[i]], edges[p[j]])
          \/ SameKey(edges[p[i]], edges[p[j]]) /\ p[i] < p[j]
      BY <1>1, <2>1 DEF StableOrder, m
    <3>2. p[i] \in 1..m /\ \A k \in 1..m : ~Precedes(edges[k], edges[k])
      BY <1>2 DEF Precedes
    <3> QED  BY <3>1, <3>2
  <2> QED  BY <1>2, <2>1
<1>5. \A k \in 1..m : \E i \in 1..m : p[i] = k
  <2> SUFFICES ASSUME NEW k \in 1..m PROVE \E i \in 1..m : p[i] = k
    OBVIOUS
  <2> DEFINE f == [i \in 1..m |-> p[i] - 1]
  <2>1. f \in [1..m -> 0..(m - 1)]  BY <1>2
  <2>2. \A i, j \in 1..m : i # j => f[i] # f[j]  BY <1>2, <1>4
  <2>3. k - 1 \in 0..(m - 1) /\ \A i \in 1..m : f[i] = p[i] - 1  BY <1>2
  <2> HIDE DEF f
  <2>4. PICK i \in 1..m : f[i] = k - 1  BY <1>2, <2>1, <2>2, <2>3, PlacesCover
  <2>5. p[i] = k  BY <1>2, <2>3, <2>4
  <2> QED  BY <2>5
<1>6. {edges'[i] : i \in 1..m} = {edges[i] : i \in 1..m}
  BY <1>1, <1>5
<1>7. ASSUME NEW x PROVE Cardinality(Places(edges', x)) = Cardinality(Places(edges, x))
  <2> DEFINE K == Places(edges', x)
             L == Places(edges, x)
             f == [i \in K |-> p[i]]
  <2>1. \A i \in K : i \in 1..m /\ edges[p[i]] = x  BY <1>1, <1>3 DEF Places
  <2>2. f \in [K -> L]  BY <1>3, <2>1 DEF Places
  <2>3. \A i, j \in K : i # j => f[i] # f[j]  BY <1>4, <2>1
  <2>4. \A l \in L : \E i \in K : f[i] = l
    <3> SUFFICES ASSUME NEW l \in L PROVE \E i \in K : f[i] = l
      OBVIOUS
    <3>1. l \in 1..m /\ edges[l] = x  BY <1>3 DEF Places
    <3>2. PICK i \in 1..m : p[i] = l  BY <1>5, <3>1
    <3>3. i \in K  BY <1>1, <1>3, <3>1, <3>2 DEF Places
    <3> QED  BY <3>2, <3>3
  <2>5. IsFiniteSet(K)
    <3>1. K \in SUBSET (1..m)  BY <2>1
    <3> QED  BY <1>2, <3>1, IntervalFinite
  <2> HIDE DEF K, L, f
  <2>6. Cardinality(K) = Cardinality(L)  BY <2>2, <2>3, <2>4, <2>5, CountThrough
  <2> QED  BY <2>6 DEF K, L
<1> QED  BY <1>3, <1>6, <1>7, BagIs

-----------------------------------------------------------------------------
(* The store that is promised. *)

\* Everything is moved into the frozen graph.
MovedInv ==
  phase = "done" =>
    /\ frozen.node_labels = columns.node_labels /\ frozen.node_names = columns.node_names
    /\ frozen.node_files = columns.node_files /\ frozen.node_lines = columns.node_lines
    /\ frozen.node_columns = columns.node_columns
    /\ frozen.forward_offsets = offsets /\ frozen.forward_edges = forward

Pairs(es) == [i \in DOMAIN es |-> <<es[i].node, es[i].type>>]

\* The list es holds at place f[j] the end of edge j, for each edge in J, and
\* no more; an edge is known by its end, and D are the ends.
ListsEnds(es, J, D, f, End, With) ==
  /\ D = {End[edges[j]] : j \in J}
  /\ J \in SUBSET (1..Len(edges))
  /\ f \in [J -> DOMAIN es]
  /\ \A i, j \in J : i # j => f[i] # f[j]
  /\ \A k \in DOMAIN es : \E j \in J : f[j] = k
  /\ \A j \in J : Pairs(es)[f[j]] = End[edges[j]]
  /\ \A j \in J : With[End[edges[j]]] = edges[j]
  /\ \A i \in J : \A j \in 1..Len(edges) : edges[j] = edges[i] => j \in J

\* A list is the bag of these ends, each as often as its edge was added.
AsOften(es, D, With) == ToBag(Pairs(es)) = [x \in D |-> ToBag(edges)[With[x]]]

LEMMA EndsBag ==
  ASSUME NEW es, NEW J, NEW D, NEW End, NEW With, NEW f, edges \in Seq(Edge),
         ListsEnds(es, J, D, f, End, With)
  PROVE  AsOften(es, D, With)
<1>0. /\ J \in SUBSET (1..Len(edges)) /\ D = {End[edges[j]] : j \in J}
      /\ f \in [J -> DOMAIN es]
      /\ \A i, j \in J : i # j => f[i] # f[j]
      /\ \A k \in DOMAIN es : \E j \in J : f[j] = k
      /\ \A j \in J : Pairs(es)[f[j]] = End[edges[j]]
      /\ \A j \in J : With[End[edges[j]]] = edges[j]
      /\ \A i \in J : \A j \in 1..Len(edges) : edges[j] = edges[i] => j \in J
  BY DEF ListsEnds
<1> USE <1>0
<1> DEFINE s == Pairs(es)
<1>1. DOMAIN s = DOMAIN es  BY DEF Pairs
<1>2. DOMAIN edges = 1..Len(edges) /\ Len(edges) \in Nat  OBVIOUS
<1> HIDE DEF s
<1>3. {s[k] : k \in DOMAIN s} = {End[edges[j]] : j \in J}
  <2>1. \A j \in J : f[j] \in DOMAIN s /\ s[f[j]] = End[edges[j]]  BY <1>1 DEF s
  <2>2. \A k \in DOMAIN s : \E j \in J : s[k] = End[edges[j]]  BY <1>1, <2>1
  <2> QED  BY <2>1, <2>2
<1>4. ASSUME NEW i \in J
      PROVE  Cardinality(Places(s, End[edges[i]])) = ToBag(edges)[With[End[edges[i]]]]
  <2> DEFINE x == End[edges[i]]
             K == Places(edges, With[x])
             L == Places(s, x)
             g == [j \in K |-> f[j]]
  <2>1. i \in 1..Len(edges) /\ edges[i] = With[x]  OBVIOUS
  <2>2. K = {j \in 1..Len(edges) : edges[j] = With[x]}  BY <1>2 DEF Places
  <2>3. K \in SUBSET J /\ \A j \in K : End[edges[j]] = x
    <3>1. \A j \in K : j \in 1..Len(edges) /\ edges[j] = edges[i]  BY <2>1, <2>2
    <3>2. \A j \in K : j \in J  BY <3>1
    <3> QED  BY <3>1, <3>2
  <2>4. L = {k \in DOMAIN es : s[k] = x}  BY <1>1 DEF Places
  <2>5. ToBag(edges)[With[x]] = Cardinality(K)
    <3>1. With[x] \in {edges[j] : j \in DOMAIN edges}  BY <1>2, <2>1
    <3>2. ToBag(edges) = [y \in {edges[j] : j \in DOMAIN edges} |-> Cardinality(Places(edges, y))]
      BY BagIs
    <3> QED  BY <3>1, <3>2
  <2>6. g \in [K -> L]  BY <2>3, <2>4 DEF s
  <2>7. \A j \in J : End[edges[j]] = x => j \in K
    BY <2>1, <2>2
  <2> HIDE DEF K, L, x
  <2>8. \A j, l \in K : j # l => g[j] # g[l]  BY <2>3
  <2>9. \A k \in L : \E j \in K : g[j] = k
    <3> SUFFICES ASSUME NEW k \in L PROVE \E j \in K : g[j] = k
      OBVIOUS
    <3>1. PICK j \in J : f[j] = k  BY <2>4
    <3>2. End[edges[j]] = x  BY <2>4, <3>1 DEF s
    <3> QED  BY <2>7, <3>1, <3>2
  <2>10. IsFiniteSet(K)
    <3>1. K \in SUBSET (1..Len(edges))  BY <2>3
    <3> QED  BY <1>2, <3>1, IntervalFinite
  <2> HIDE DEF g
  <2>11. Cardinality(K) = Cardinality(L)  BY <2>6, <2>8, <2>9, <2>10, CountThrough
  <2> QED  BY <2>5, <2>11 DEF L, x
<1>5. ToBag(s) = [x \in {s[k] : k \in DOMAIN s} |-> Cardinality(Places(s, x))]  BY BagIs
<1>6. \A x \in D : Cardinality(Places(s, x)) = ToBag(edges)[With[x]]
  BY <1>4
<1>7. {s[k] : k \in DOMAIN s} = D  BY <1>3
<1> HIDE DEF s
<1>8. ToBag(s) = [x \in D |-> Cardinality(Places(s, x))]  BY <1>5, <1>7
<1>9. ToBag(s) = [x \in D |-> ToBag(edges)[With[x]]]  BY <1>6, <1>8
<1> QED  BY <1>9 DEF s, AsOften, AsOften

\* The edges out of a node, in its forward row.
LEMMA ForwardBag ==
  ASSUME FwdInv, MovedInv, phase = "done", NEW n \in Nodes
  PROVE  ToBag(Pairs(forward_edges(frozen, n))) = Store!Out(n)
<1> DEFINE J == {j \in 1..Len(edges) : edges[j].src = n}
           a == offsets[n + 1]
           b == offsets[n + 2]
           es == forward_edges(frozen, n)
           f == [j \in J |-> j - a]
           End == [e \in Edge |-> <<e.tgt, e.type>>]
           With == [x \in Nat \X EdgeTypes |-> [src |-> n, tgt |-> x[1], type |-> x[2]]]
<1>1. /\ n \in Nat /\ n \in 0..current /\ n + 1 \in 0..current /\ (n + 1) + 1 = n + 2
      /\ current \in Nat /\ Len(edges) \in Nat /\ Len(forward) = Len(edges)
      /\ edges \in Seq(Edge) /\ forward \in Seq(Entry) /\ offsets \in Seq(Nat)
      /\ Len(offsets) = current + 1
  BY NodeCountType DEF FwdInv, BaseInv, RowsInv, ProgressInv, Nodes
<1>0. n \in Nat /\ Len(edges) \in Nat  BY <1>1
<1>2. /\ a \in Nat /\ b \in Nat /\ a <= Len(edges) /\ b <= Len(edges)
      /\ \A i \in 1..Len(edges) : i <= a <=> edges[i].src < n
      /\ \A i \in 1..Len(edges) : i <= b <=> edges[i].src < n + 1
  <2>1. n + 1 \in 1..Len(offsets) /\ n + 2 \in 1..Len(offsets)  BY <1>1
  <2>2. a \in Nat /\ b \in Nat  BY <1>1, <2>1
  <2> QED  BY <1>1, <2>2 DEF FwdInv, RowsInv
<1>3. \A i \in 1..Len(edges) : /\ edges[i] \in Edge /\ edges[i].src \in Nat
                               /\ edges[i].tgt \in Nat /\ edges[i].type \in EdgeTypes
                               /\ forward[i] = ToEntry(edges[i])
                               /\ edges[i] = [src |-> edges[i].src, tgt |-> edges[i].tgt, type |-> edges[i].type]
  <2>1. \A i \in 1..Len(edges) : edges[i] \in Edge  BY <1>1
  <2> QED  BY <1>1, <2>1 DEF Edge, FwdInv, RowsInv
<1> HIDE DEF a, b
<1>4. a <= b
  <2>1. CASE a = 0  BY <1>2, <2>1
  <2>2. CASE a # 0
    <3>1. a \in 1..Len(edges)  BY <1>2, <2>2
    <3>2. edges[a].src \in Nat /\ edges[a].src < n
      <4>1. a <= a /\ (a <= a <=> edges[a].src < n)  BY <1>2, <3>1
      <4> QED  BY <1>3, <3>1, <4>1
    <3>3. edges[a].src < n + 1  BY <1>0, <3>2
    <3> QED  BY <1>2, <3>1, <3>3
  <2> QED  BY <2>1, <2>2
<1>5. /\ es = SubSeq(forward, a + 1, b) /\ DOMAIN es = 1..(b - a)
      /\ \A k \in 1..(b - a) : es[k] = forward[a + k]
  <2>1. es = SubSeq(forward, a + 1, b)
    BY DEF forward_edges, forward_edge_range, MovedInv, a, b
  <2>2. /\ Len(SubSeq(forward, a + 1, b)) = b - a
        /\ DOMAIN SubSeq(forward, a + 1, b) = 1..(b - a)
        /\ \A k \in 1..(b - a) : SubSeq(forward, a + 1, b)[k] = forward[a + k]
    BY <1>1, <1>2, <1>4
  <2> QED  BY <2>1, <2>2
<1> HIDE DEF es
<1>6. J = {j \in 1..Len(edges) : a < j /\ j <= b}
  <2>1. ASSUME NEW j \in 1..Len(edges) PROVE edges[j].src = n <=> a < j /\ j <= b
    <3>1. /\ edges[j].src \in Nat /\ (j <= a <=> edges[j].src < n)
          /\ (j <= b <=> edges[j].src < n + 1)
      BY <1>2, <1>3
    <3> QED  BY <1>0, <1>2, <3>1
  <2> QED  BY <2>1
<1>7. f \in [J -> DOMAIN es]
  <2>1. \A j \in J : j - a \in 1..(b - a)  BY <1>0, <1>2, <1>4, <1>6
  <2> QED  BY <1>5, <2>1
<1>8. \A i, j \in J : i # j => f[i] # f[j]  BY <1>2
<1>9. \A k \in DOMAIN es : \E j \in J : f[j] = k
  <2>1. ASSUME NEW k \in 1..(b - a) PROVE a + k \in J /\ f[a + k] = k
    <3>1. a + k \in 1..Len(edges) /\ a < a + k /\ a + k <= b /\ (a + k) - a = k
      BY <1>0, <1>2, <1>4
    <3>2. a + k \in J  BY <1>6, <3>1
    <3> QED  BY <3>1, <3>2
  <2> QED  BY <1>5, <2>1
<1>10. \A j \in J : Pairs(es)[f[j]] = <<edges[j].tgt, edges[j].type>>
  <2> SUFFICES ASSUME NEW j \in J PROVE Pairs(es)[f[j]] = <<edges[j].tgt, edges[j].type>>
    OBVIOUS
  <2>1. f[j] \in DOMAIN es /\ f[j] = j - a /\ a + (j - a) = j /\ j \in 1..Len(edges)
    BY <1>2, <1>7
  <2>2. es[f[j]] = ToEntry(edges[j])  BY <1>3, <1>5, <2>1
  <2> QED  BY <2>1, <2>2 DEF Pairs, ToEntry
<1>11. \A j \in J : /\ End[edges[j]] = <<edges[j].tgt, edges[j].type>>
                    /\ End[edges[j]] \in Nat \X EdgeTypes
                    /\ With[End[edges[j]]] = edges[j]
  BY <1>3
<1>12. \A i \in J : \A j \in 1..Len(edges) : edges[j] = edges[i] => j \in J
  OBVIOUS
<1>13. J \in SUBSET (1..Len(edges))  OBVIOUS
<1> HIDE DEF J, f, End, With
<1> DEFINE D == {End[edges[j]] : j \in J}
           B == ToBag(edges)
<1>14. ToBag(Pairs(es)) = [x \in D |-> B[With[x]]]
  <2>1. \A j \in J : Pairs(es)[f[j]] = End[edges[j]]  BY <1>10, <1>11
  <2>2. \A j \in J : With[End[edges[j]]] = edges[j]  BY <1>11
  <2>3. edges \in Seq(Edge)  BY <1>1
  <2>4. ListsEnds(es, J, D, f, End, With)
    BY <1>7, <1>8, <1>9, <1>12, <1>13, <2>1, <2>2 DEF ListsEnds
  <2> HIDE DEF D
  <2>5. AsOften(es, D, With)  BY <2>3, <2>4, EndsBag
  <2> QED  BY <2>5 DEF AsOften
<1>15. {<<e.tgt, e.type>> : e \in {g \in BagToSet(ToBag(edges)) : g.src = n}} = {End[edges[j]] : j \in J}
  <2>1. BagToSet(ToBag(edges)) = {edges[j] : j \in 1..Len(edges)}
    <3>1. DOMAIN edges = 1..Len(edges)  BY <1>1
    <3>2. DOMAIN ToBag(edges) = {edges[j] : j \in DOMAIN edges}  BY BagIs
    <3>3. BagToSet(ToBag(edges)) = DOMAIN ToBag(edges)  BY DEF BagToSet
    <3> QED  BY <3>1, <3>2, <3>3
  <2>2. {g \in BagToSet(ToBag(edges)) : g.src = n} = {edges[j] : j \in J}
    BY <2>1 DEF J
  <2>3. \A j \in J : End[edges[j]] = <<edges[j].tgt, edges[j].type>>  BY <1>11
  <2>4. {End[edges[j]] : j \in J} = {<<edges[j].tgt, edges[j].type>> : j \in J}  BY <2>3
  <2>5. {<<e.tgt, e.type>> : e \in {edges[j] : j \in J}} = {<<edges[j].tgt, edges[j].type>> : j \in J}
    OBVIOUS
  <2> QED  BY <2>2, <2>4, <2>5
<1>16. \A x \in {End[edges[j]] : j \in J} : With[x] = [src |-> n, tgt |-> x[1], type |-> x[2]]
  <2>1. \A x \in {End[edges[j]] : j \in J} : x \in Nat \X EdgeTypes  BY <1>11
  <2> QED  BY <2>1 DEF With
<1>17. Store!Out(n) = [x \in D |-> B[[src |-> n, tgt |-> x[1], type |-> x[2]]]]
  <2>1. Store!BagToSet(B) = BagToSet(B)  BY DEF BagToSet, Store!BagToSet
  <2> QED  BY <1>15, <2>1 DEF Store!Out
<1> HIDE DEF D, B
<1>19. ToBag(Pairs(es)) = [x \in D |-> B[[src |-> n, tgt |-> x[1], type |-> x[2]]]]
  BY <1>14, <1>16 DEF D
<1> QED  BY <1>17, <1>19 DEF es

\* A one-to-one map between finite sets as large as each other covers its range.
LEMMA AllTaken ==
  ASSUME NEW K, NEW c \in Nat, IsFiniteSet(K), Cardinality(K) = c,
         NEW f \in [K -> 1..c], \A i, j \in K : i # j => f[i] # f[j]
  PROVE  \A k \in 1..c : \E i \in K : f[i] = k
<1> DEFINE L == {f[i] : i \in K}
<1>1. L \in SUBSET (1..c) /\ f \in [K -> L]  OBVIOUS
<1>2. \A l \in L : \E i \in K : f[i] = l  OBVIOUS
<1> HIDE DEF L
<1>3. Cardinality(L) = c  BY <1>1, <1>2, CountThrough
<1>4. IsFiniteSet(1..c) /\ Cardinality(1..c) = c
  <2>1. IsFiniteSet(1..c) /\ Cardinality(1..c) = IF 1 > c THEN 0 ELSE c - 1 + 1
    BY FS_Interval
  <2> QED  BY <2>1
<1>5. L = 1..c  BY <1>1, <1>3, <1>4, FS_Subset
<1> QED  BY <1>2, <1>5

\* The rank of an edge among those into its target.
LEMMA RanksDiffer ==
  ASSUME NEW n, Len(edges) \in Nat
  PROVE  /\ \A j \in Incoming(n, Len(edges)) :
              Cardinality(Incoming(n, j)) \in 1..Cardinality(Incoming(n, Len(edges)))
         /\ \A i, j \in Incoming(n, Len(edges)) :
              i # j => Cardinality(Incoming(n, i)) # Cardinality(Incoming(n, j))
<1>1. ASSUME NEW j \in 0..Len(edges)
      PROVE  IsFiniteSet(Incoming(n, j)) /\ Cardinality(Incoming(n, j)) \in Nat
  <2>1. Incoming(n, j) \in SUBSET (1..j)  BY DEF Incoming
  <2> QED  BY <2>1, IntervalFinite
<1>2. ASSUME NEW i \in 0..Len(edges), NEW j \in Incoming(n, Len(edges)), i < j
      PROVE  Cardinality(Incoming(n, i)) < Cardinality(Incoming(n, j))
  <2>1. j \in 0..Len(edges) /\ j \in Incoming(n, j) /\ j \notin Incoming(n, i)
    BY <1>2 DEF Incoming
  <2>2. Incoming(n, i) \in SUBSET Incoming(n, j)  BY <1>2, <2>1 DEF Incoming
  <2> QED  BY <1>1, <2>1, <2>2, FS_Subset
<1>3. ASSUME NEW j \in Incoming(n, Len(edges))
      PROVE  Cardinality(Incoming(n, j)) \in 1..Cardinality(Incoming(n, Len(edges)))
  <2>1. j \in 0..Len(edges) /\ 0 < j /\ Len(edges) \in 0..Len(edges)  BY DEF Incoming
  <2>2. Cardinality(Incoming(n, 0)) < Cardinality(Incoming(n, j))  BY <1>2, <2>1
  <2>3. Incoming(n, j) \in SUBSET Incoming(n, Len(edges))  BY <2>1 DEF Incoming
  <2>4. Cardinality(Incoming(n, j)) <= Cardinality(Incoming(n, Len(edges)))
    BY <1>1, <2>1, <2>3, FS_Subset
  <2> QED  BY <1>1, <2>1, <2>2, <2>4
<1>4. ASSUME NEW i \in Incoming(n, Len(edges)), NEW j \in Incoming(n, Len(edges)), i # j
      PROVE  Cardinality(Incoming(n, i)) # Cardinality(Incoming(n, j))
  <2>1. i \in 0..Len(edges) /\ j \in 0..Len(edges) /\ (i < j \/ j < i)
    BY <1>4 DEF Incoming
  <2> QED  BY <1>1, <1>2, <2>1
<1> QED  BY <1>3, <1>4

\* The edges into a node, in its reverse row.
LEMMA ReverseBag ==
  ASSUME FwdInv, RevInv, RowsPlacedInv, phase = "done", NEW n \in Nodes
  PROVE  ToBag(Pairs(reverse_edges(frozen, n))) = Store!In(n)
<1> DEFINE J == Incoming(n, Len(edges))
           c == Cardinality(J)
           es == reverse_edges(frozen, n)
           f == [j \in J |-> Cardinality(Incoming(n, j))]
           End == [e \in Edge |-> <<e.src, e.type>>]
           With == [x \in Nat \X EdgeTypes |-> [src |-> x[1], tgt |-> n, type |-> x[2]]]
<1>1. edges \in Seq(Edge) /\ Len(edges) \in Nat  BY DEF FwdInv, BaseInv
<1>2. \A i \in 1..Len(edges) : /\ edges[i] \in Edge /\ edges[i].src \in Nat
                               /\ edges[i].tgt \in Nat /\ edges[i].type \in EdgeTypes
                               /\ edges[i] = [src |-> edges[i].src, tgt |-> edges[i].tgt, type |-> edges[i].type]
  <2>1. \A i \in 1..Len(edges) : edges[i] \in Edge  BY <1>1
  <2> QED  BY <2>1 DEF Edge
<1>3. J \in SUBSET (1..Len(edges)) /\ \A j \in 1..Len(edges) : j \in J <=> edges[j].tgt = n
  BY DEF Incoming
<1>4. IsFiniteSet(J) /\ c \in Nat  BY <1>1, <1>3, IntervalFinite
<1>5. DOMAIN es = 1..c  BY ReverseRow
<1> HIDE DEF J, es
<1>6. f \in [J -> 1..c] /\ \A i, j \in J : i # j => f[i] # f[j]
  BY <1>1, RanksDiffer DEF J
<1> HIDE DEF c
<1>7. \A k \in 1..c : \E j \in J : f[j] = k
  <2> HIDE DEF f
  <2> QED  BY <1>4, <1>6, AllTaken DEF c
<1>8. ASSUME NEW j \in J PROVE Pairs(es)[f[j]] = <<edges[j].src, edges[j].type>>
  <2>1. f[j] \in DOMAIN es /\ f[j] = Cardinality(Incoming(n, j))  BY <1>5, <1>6
  <2>2. ReverseRowsExact /\ Frozen  BY RowsExact DEF Frozen
  <2>3. j \in 1..Len(edges) /\ edges[j].tgt = n  BY <1>3
  <2>4. es[f[j]] = [node |-> edges[j].src, type |-> edges[j].type]
    BY <2>1, <2>2, <2>3 DEF ReverseRowsExact, es
  <2> QED  BY <2>1, <2>4 DEF Pairs
<1>9. \A j \in J : /\ End[edges[j]] = <<edges[j].src, edges[j].type>>
                   /\ End[edges[j]] \in Nat \X EdgeTypes
                   /\ With[End[edges[j]]] = edges[j]
  BY <1>2, <1>3
<1>10. \A i \in J : \A j \in 1..Len(edges) : edges[j] = edges[i] => j \in J
  BY <1>3
<1> HIDE DEF f, End, With
<1> DEFINE D == {End[edges[j]] : j \in J}
           B == ToBag(edges)
<1>11. ToBag(Pairs(es)) = [x \in D |-> B[With[x]]]
  <2>1. \A j \in J : Pairs(es)[f[j]] = End[edges[j]]  BY <1>8, <1>9
  <2>2. \A j \in J : With[End[edges[j]]] = edges[j]  BY <1>9
  <2>3. ListsEnds(es, J, D, f, End, With)
    BY <1>3, <1>5, <1>6, <1>7, <1>10, <2>1, <2>2 DEF ListsEnds
  <2>4. edges \in Seq(Edge)  BY <1>1
  <2> HIDE DEF D
  <2>5. AsOften(es, D, With)  BY <2>3, <2>4, EndsBag
  <2> QED  BY <2>5 DEF AsOften
<1>12. {<<e.src, e.type>> : e \in {g \in BagToSet(ToBag(edges)) : g.tgt = n}} = D
  <2>1. BagToSet(ToBag(edges)) = {edges[j] : j \in 1..Len(edges)}
    <3>1. DOMAIN edges = 1..Len(edges)  BY <1>1
    <3>2. DOMAIN ToBag(edges) = {edges[j] : j \in DOMAIN edges}  BY BagIs
    <3>3. BagToSet(ToBag(edges)) = DOMAIN ToBag(edges)  BY DEF BagToSet
    <3> QED  BY <3>1, <3>2, <3>3
  <2>2. {g \in BagToSet(ToBag(edges)) : g.tgt = n} = {edges[j] : j \in J}
    BY <1>3, <2>1
  <2>3. {End[edges[j]] : j \in J} = {<<edges[j].src, edges[j].type>> : j \in J}  BY <1>9
  <2>4. {<<e.src, e.type>> : e \in {edges[j] : j \in J}} = {<<edges[j].src, edges[j].type>> : j \in J}
    OBVIOUS
  <2> QED  BY <2>2, <2>3, <2>4
<1>13. \A x \in D : With[x] = [src |-> x[1], tgt |-> n, type |-> x[2]]
  <2>1. \A x \in D : x \in Nat \X EdgeTypes  BY <1>9
  <2> QED  BY <2>1 DEF With
<1>14. Store!In(n) = [x \in D |-> B[[src |-> x[1], tgt |-> n, type |-> x[2]]]]
  <2>1. Store!BagToSet(B) = BagToSet(B)  BY DEF BagToSet, Store!BagToSet
  <2> QED  BY <1>12, <2>1 DEF Store!In
<1> HIDE DEF D, B
<1>15. ToBag(Pairs(es)) = [x \in D |-> B[[src |-> x[1], tgt |-> n, type |-> x[2]]]]
  BY <1>11, <1>13
<1> QED  BY <1>14, <1>15 DEF es

\* What the accessors answer is what the store promises.
Promised == [n \in Nodes |-> [row |-> Store!Row(n), out |-> Store!Out(n), in |-> Store!In(n)]]

PromisedInv == phase = "done" => Answers = Promised

LEMMA AnswersPromised ==
  ASSUME FwdInv, RevInv, RowsPlacedInv, MovedInv PROVE PromisedInv
<1> SUFFICES ASSUME phase = "done" PROVE Answers = Promised
  BY DEF PromisedInv
<1>1. 0..(node_count_of(frozen) - 1) = Nodes
  BY DEF MovedInv, node_count_of, Nodes, node_count
<1>2. ASSUME NEW n \in Nodes
      PROVE  /\ node_row(frozen, n) = Store!Row(n)
             /\ ToBag(Pairs(forward_edges(frozen, n))) = Store!Out(n)
             /\ ToBag(Pairs(reverse_edges(frozen, n))) = Store!In(n)
  BY ForwardBag, ReverseBag DEF MovedInv, node_row, Store!Row
<1>3. Answers = [n \in Nodes |-> [row |-> node_row(frozen, n),
                                  out |-> ToBag(Pairs(forward_edges(frozen, n))),
                                  in |-> ToBag(Pairs(reverse_edges(frozen, n)))]]
  BY <1>1 DEF Answers, Pairs
<1> QED  BY <1>2, <1>3 DEF Promised

LEMMA InitMoved == Init => MovedInv
  BY DEF Init, CsrInit, MovedInv

\* How a step moves between the phases, and that it keeps rows and edges.
LEMMA StepKeeps ==
  ASSUME FwdInv, [Next]_vars
  PROVE  /\ columns' = columns /\ ToBag(edges') = ToBag(edges)
         /\ \/ UNCHANGED vars
            \/ /\ phase \notin {"done", "panicked"}
               /\ phase' # "done" \/ Assemble
<1>1. columns' = columns  BY NextColumns
<1>2. CASE CsrStep /\ UNCHANGED <<idxVars, frozen>>
  <2>1. phase \in CsrPhases /\ (phase' \in CsrPhases \cup {"labels"} \/ CountPanics)
    BY <1>2, CsrPhase DEF FwdInv
  <2>2. phase \notin {"done", "panicked"} /\ phase' # "done"
    BY <2>1 DEF CsrPhases, CountPanics
  <2>3. ToBag(edges') = ToBag(edges)
    <3>1. CASE SortEdges  BY <3>1, SortKeepsBag
    <3>2. CASE ForwardStep
      <4>1. edges' = edges
        BY <3>2
        DEF ForwardStep, SkipToSource, PushForward, CloseRows, ForwardDone, AdvanceNode, PushEdge, csrVars
      <4> QED  BY <4>1
    <3>3. CASE ReverseStep
      <4>1. edges' = edges
        BY <3>3
        DEF ReverseStep, CountIncoming, CountPanics, CountDone, PrefixSum, PrefixDone, Place, PlaceDone,
            csrVars
      <4> QED  BY <4>1
    <3> QED  BY <1>2, <3>1, <3>2, <3>3 DEF CsrStep
  <2> QED  BY <1>1, <2>2, <2>3
<1>3. CASE IndexStep /\ UNCHANGED <<csrVars, frozen>>
  <2>1. phase \notin {"done", "panicked"} /\ phase' # "done"
    BY <1>3, IndexPhase DEF FwdInv, IndexPhases
  <2>2. edges' = edges  BY <1>3 DEF csrVars
  <2> QED  BY <1>1, <2>1, <2>2
<1>4. CASE Assemble
  <2>1. phase = "group" /\ edges' = edges  BY <1>4 DEF Assemble, PastNodes, csrVars
  <2> QED  BY <1>1, <1>4, <2>1
<1>5. CASE UNCHANGED vars
  <2>1. edges' = edges  BY <1>5 DEF vars, csrVars
  <2> QED  BY <1>1, <1>5, <2>1
<1> QED  BY <1>2, <1>3, <1>4, <1>5 DEF Next

LEMMA NextMoved == ASSUME FwdInv, MovedInv, [Next]_vars PROVE MovedInv'
<1>1. CASE UNCHANGED vars
  BY <1>1 DEF vars, csrVars, fwdVars, MovedInv
<1>2. CASE Assemble
  <2>1. columns' = columns /\ offsets' = offsets /\ forward' = forward
    BY <1>2 DEF Assemble, csrVars, fwdVars
  <2> QED  BY <1>2, <2>1 DEF Assemble, MovedInv
<1>3. CASE phase' # "done"  BY <1>3 DEF MovedInv
<1> QED  BY <1>1, <1>2, <1>3, StepKeeps

LEMMA InitStore == Init => Store!Init
<1> SUFFICES ASSUME Init PROVE Store!Init
  OBVIOUS
<1>1. columns \in NodeParts /\ edges \in Seq(Edge) /\ phase = "sort"
  BY InitFwd DEF FwdInv, BaseInv, Init, CsrInit
<1>2. IsABag(ToBag(edges)) /\ BagToSet(ToBag(edges)) \subseteq Edge  BY <1>1, BagType
<1>3. Store!IsABag(ToBag(edges)) /\ Store!BagToSet(ToBag(edges)) \subseteq Edge
  BY <1>2 DEF IsABag, BagToSet, Store!IsABag, Store!BagToSet
<1> QED  BY <1>1, <1>3 DEF Store!Init, Frozen

LEMMA StepStore ==
  ASSUME FwdInv, [Next]_vars, PromisedInv', KeysInv', NoDanglingTarget', FwdInv'
  PROVE  [Store!Freeze]_(Store!vars)
<1> DEFINE st == IF Frozen THEN Answers ELSE IF phase = "panicked" THEN Panicked ELSE Pending
<1>1. /\ columns' = columns /\ ToBag(edges') = ToBag(edges)
      /\ \/ UNCHANGED vars
         \/ /\ phase \notin {"done", "panicked"}
            /\ phase' # "done" \/ Assemble
  BY StepKeeps
<1>2. ASSUME st' = st PROVE UNCHANGED Store!vars
  BY <1>1, <1>2 DEF Store!vars
<1>3. CASE UNCHANGED vars
  <2>1. phase' = phase /\ frozen' = frozen  BY <1>3 DEF vars
  <2>2. st' = st  BY <2>1 DEF Frozen, Answers
  <2> QED  BY <1>2, <2>2
<1>4. CASE phase \notin {"done", "panicked"} /\ phase' \notin {"done", "panicked"}
  <2>1. st = Pending /\ st' = Pending  BY <1>4 DEF Frozen
  <2> QED  BY <1>2, <2>1
<1>5. /\ Store!BagToSet(ToBag(edges)) = {edges'[i] : i \in 1..Len(edges')}
      /\ Store!Nodes = Nodes'
  <2>1. DOMAIN edges' = 1..Len(edges')  BY DEF FwdInv, BaseInv
  <2>2. DOMAIN ToBag(edges') = {edges'[i] : i \in DOMAIN edges'}  BY BagIs
  <2> QED  BY <1>1, <2>1, <2>2 DEF Store!BagToSet, Store!Nodes, Nodes, node_count
<1>6. CASE phase \notin {"done", "panicked"} /\ phase' = "panicked"
  <2>1. st = Pending /\ st' = Panicked  BY <1>6 DEF Frozen
  <2>2. \/ \E n \in Store!Nodes : columns.node_names[n + 1] \notin DOMAIN Resolve
        \/ \E i \in 1..Len(edges') : edges'[i].tgt \notin Nodes'
    BY <1>1, <1>5, <1>6 DEF KeysInv, NamesResolve, Dangling
  <2>3. ~Store!Storable  BY <1>5, <2>2 DEF Store!Storable
  <2>4. Store!Freeze  BY <1>1, <2>1, <2>3 DEF Store!Freeze
  <2> QED  BY <2>4
<1>7. CASE phase \notin {"done", "panicked"} /\ phase' = "done"
  <2>1. st = Pending /\ st' = Answers'  BY <1>7 DEF Frozen
  <2>2. \A i \in 1..Len(edges') : edges'[i].tgt \in Nodes'  BY <1>7 DEF NoDanglingTarget
  <2>3. Store!Storable
    <3>1. \A n \in Store!Nodes : columns.node_names[n + 1] \in DOMAIN Resolve
      BY <1>1, <1>5, <1>7 DEF KeysInv, NamesResolve
    <3> QED  BY <1>5, <2>2, <3>1 DEF Store!Storable
  <2>4. Answers' = Promised'  BY <1>7 DEF PromisedInv
  <2>5. Promised' = [n \in Store!Nodes |->
                       [row |-> Store!Row(n), out |-> Store!Out(n), in |-> Store!In(n)]]
    BY <1>1, <1>5 DEF Promised, Store!Row, Store!Out, Store!In
  <2>6. Store!Freeze  BY <1>1, <2>1, <2>3, <2>4, <2>5 DEF Store!Freeze
  <2> QED  BY <2>6
<1> QED  BY <1>1, <1>3, <1>4, <1>6, <1>7

(* Freeze!ImplementsGraphStore, for every graph: freeze is one step of the    *)
(* store that is promised, whose accessors answer each node's row, the edges  *)
(* out of it and the edges into it, each as often as it was added; only a     *)
(* dangling target or a name that does not resolve makes it a panic.          *)
THEOREM FreezeImplementsStore == Spec => ImplementsGraphStore
<1>1. Spec => [](FwdInv /\ PromisedInv /\ KeysInv /\ NoDanglingTarget)
  <2>1. MovedInv /\ FwdInv /\ [Next]_vars => MovedInv'  BY NextMoved
  <2>2. RowsPlacedInv /\ (FwdInv /\ RevInv) /\ [Next]_vars => RowsPlacedInv'  BY NextRowsPlaced
  <2>3. FwdInv /\ RevInv /\ RowsPlacedInv /\ MovedInv => PromisedInv  BY AnswersPromised
  <2> QED
    BY InitMoved, InitRowsPlaced, AlwaysRev, AlwaysKeys, NoDanglingTargetHolds,
       <2>1, <2>2, <2>3, PTL DEF Spec
<1> DEFINE I == FwdInv /\ PromisedInv /\ KeysInv /\ NoDanglingTarget
<1>2. I /\ I' /\ [Next]_vars => [Store!Freeze]_(Store!vars)  BY StepStore
<1> HIDE DEF I
<1>3. Spec => []I  BY <1>1 DEF I
<1> QED  BY InitStore, <1>2, <1>3, PTL DEF Spec, ImplementsGraphStore, Store!Spec
=============================================================================
