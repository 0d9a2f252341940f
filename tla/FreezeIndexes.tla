--------------------------- MODULE FreezeIndexes ---------------------------
(***************************************************************************)
(* The secondary indexes that MutableGraph::freeze builds once the edges   *)
(* are laid out (ci-graph/src/frozen_graph.rs): one bitmap of nodes per    *)
(* label, packed behind its size into one byte vector, the map from name   *)
(* handles to nodes, the map from file handles to nodes, and the bare-name *)
(* index that groups nodes by the string their name resolves to.           *)
(*                                                                         *)
(* Strings are numbers in their byte order.  A packed byte vector is       *)
(* abstracted to its length and to the blocks in it, each at its offset.   *)
(***************************************************************************)
EXTENDS FreezeParts, FiniteSets

CONSTANTS
  Resolve,       \* FrozenInterner::resolve, on the handles in its buffer
  BitmapSize,    \* serialized size of a bitmap, by its cardinality
  NoGroup        \* no group of equal names is open

SizeBytes == 4

ASSUME ResolveAssumption == DOMAIN Resolve \subseteq Names /\ Resolve \in [DOMAIN Resolve -> Nat]
ASSUME NoGroupAssumption == NoGroup \notin [key : Nat, slot : Nat, nodes : Seq(Nat)]
ASSUME BitmapAssumption ==
  \A g \in Inputs : \A n \in 0..Len(g.nodes.node_labels) : n \in DOMAIN BitmapSize /\ BitmapSize[n] \in Nat

VARIABLES
  bitmaps,     \* label_bitmaps
  packed,      \* label_index_bytes
  qnIndex, fileIndex,
  pairs,       \* resolved names with their nodes, in ascending order
  group,       \* the group of equal names being collected
  sideTable,   \* bare_name_nodes
  fst          \* keys and slots fed to the FST builder

labelVars == <<bitmaps, packed>>
mapVars == <<qnIndex, fileIndex>>
nameVars == <<pairs, group, sideTable, fst>>
idxVars == <<labelVars, mapVars, nameVars>>

IdxInit ==
  /\ bitmaps = [l \in 0..(LabelCount - 1) |-> {}]
  /\ packed = [len |-> 0, blocks |-> {}]
  /\ qnIndex = <<>>
  /\ fileIndex = <<>>
  /\ pairs = <<>>
  /\ group = NoGroup
  /\ sideTable = <<>>
  /\ fst = <<>>

\* A loop over the nodes.
OverNodes(p) == phase = p /\ next < node_count
PastNodes(p) == phase = p /\ next = node_count

-----------------------------------------------------------------------------
\* Variant of NodeId: nodes are counted from one.
NodeIdFromOne(i) == i + 1

\* idx as u32: the identifier of the node at a place counted from zero.
NodeId(i) == i % IdSpace

InsertLabel ==
  /\ OverNodes("labels")
  /\ bitmaps' = [bitmaps EXCEPT ![Discriminant(columns.node_labels[next + 1])] = @ \cup {NodeId(next)}]
  /\ next' = next + 1
  /\ UNCHANGED <<phase, columns, packed, mapVars, nameVars>>

LabelsDone ==
  /\ PastNodes("labels")
  /\ Enter("pack")
  /\ UNCHANGED <<columns, idxVars>>

PackBitmap ==
  /\ phase = "pack" /\ next < LabelCount
  /\ LET size == BitmapSize[Cardinality(bitmaps[next])] IN
     packed' = [len |-> packed.len + SizeBytes + size,
                blocks |-> packed.blocks
                  \cup {[at |-> packed.len, size |-> size, nodes |-> bitmaps[next]]}]
  /\ next' = next + 1
  /\ UNCHANGED <<phase, columns, bitmaps, mapVars, nameVars>>

PackDone ==
  /\ phase = "pack" /\ next = LabelCount
  /\ Enter("qn")
  /\ UNCHANGED <<columns, idxVars>>

-----------------------------------------------------------------------------
\* Variant of Insert: entry().or_insert() keeps the first value.
InsertFirst(map, k, v) ==
  [x \in DOMAIN map \cup {k} |-> IF x \in DOMAIN map THEN map[x] ELSE v]

\* HashMap::insert of a value under a key
Insert(map, k, v) == [x \in DOMAIN map \cup {k} |-> IF x = k THEN v ELSE map[x]]

InsertName ==
  /\ OverNodes("qn")
  /\ qnIndex' = Insert(qnIndex, columns.node_names[next + 1], NodeId(next))
  /\ next' = next + 1
  /\ UNCHANGED <<phase, columns, labelVars, fileIndex, nameVars>>

NamesDone ==
  /\ PastNodes("qn")
  /\ Enter("files")
  /\ UNCHANGED <<columns, idxVars>>

\* Variant of Listed: the last node replaces the ones before it.
ListedAlone(f) == <<NodeId(next)>>

\* entry().or_default().push()
Listed(f) == (IF f \in DOMAIN fileIndex THEN fileIndex[f] ELSE <<>>) \o <<NodeId(next)>>

InsertFile ==
  /\ OverNodes("files")
  /\ LET f == columns.node_files[next + 1] IN
     fileIndex' = [x \in DOMAIN fileIndex \cup {f} |-> IF x = f THEN Listed(f) ELSE fileIndex[x]]
  /\ next' = next + 1
  /\ UNCHANGED <<phase, columns, labelVars, qnIndex, nameVars>>

-----------------------------------------------------------------------------
(* build_bare_name_index *)

Before(a, b) == a[1] < b[1] \/ (a[1] = b[1] /\ a[2] < b[2])

\* Every name is a handle of the interner that freeze is given.
NamesResolve == \A n \in Nodes : columns.node_names[n + 1] \in DOMAIN Resolve

NamedNodes == {<<Resolve[columns.node_names[n + 1]], NodeId(n)>> : n \in Nodes}

\* resolve of a handle that lies outside the buffer: a slice out of range.
ResolvePanics ==
  /\ PastNodes("files") /\ ~NamesResolve
  /\ phase' = "panicked"
  /\ UNCHANGED <<next, columns, idxVars>>

\* Variant of InOrder: pairs are ordered by their nodes alone.
ByNode(s) == \A i, j \in DOMAIN s : i < j => s[i][2] < s[j][2]

InOrder(s) == \A i, j \in DOMAIN s : i < j => Before(s[i], s[j])

\* sort_unstable_by: the nodes differ, so there is only one order.
SortPairs ==
  /\ PastNodes("files") /\ NamesResolve
  /\ Enter("group")
  /\ \E s \in [1..node_count -> NamedNodes] : InOrder(s) /\ pairs' = s
  /\ UNCHANGED <<columns, labelVars, mapVars, group, sideTable, fst>>

\* Variant of NextSlot: the slot is that of the group before.
LastSlot == IF sideTable = <<>> THEN 0 ELSE Len(sideTable) - 1

NextSlot == Len(sideTable)

OpenGroup ==
  /\ OverNodes("group") /\ group = NoGroup
  /\ group' = [key |-> pairs[next + 1][1], slot |-> NextSlot, nodes |-> <<>>]
  /\ UNCHANGED <<phase, next, columns, labelVars, mapVars, pairs, sideTable, fst>>

Joins == next < node_count /\ pairs[next + 1][1] = group.key

\* Variant of JoinGroup: the node is collected and the loop stays at it.
JoinInPlace ==
  /\ phase = "group" /\ group # NoGroup /\ Joins
  /\ group' = [group EXCEPT !.nodes = Append(@, pairs[next + 1][2])]
  /\ UNCHANGED <<phase, next, columns, labelVars, mapVars, pairs, sideTable, fst>>

JoinGroup ==
  /\ phase = "group" /\ group # NoGroup /\ Joins
  /\ group' = [group EXCEPT !.nodes = Append(@, pairs[next + 1][2])]
  /\ next' = next + 1
  /\ UNCHANGED <<phase, columns, labelVars, mapVars, pairs, sideTable, fst>>

\* The builder refuses a key that is not greater than the last: a panic.
Accepted(key) == fst = <<>> \/ fst[Len(fst)].key < key

CloseGroup ==
  /\ phase = "group" /\ group # NoGroup /\ ~Joins
  /\ sideTable' = Append(sideTable, group.nodes)
  /\ IF Accepted(group.key)
     THEN /\ fst' = Append(fst, [key |-> group.key, slot |-> group.slot])
          /\ phase' = phase
     ELSE fst' = fst /\ phase' = "panicked"
  /\ group' = NoGroup
  /\ UNCHANGED <<next, columns, labelVars, mapVars, pairs>>

LabelStep == InsertLabel \/ LabelsDone \/ PackBitmap \/ PackDone
MapStep == InsertName \/ NamesDone \/ InsertFile
NameStep == ResolvePanics \/ SortPairs \/ OpenGroup \/ JoinGroup \/ CloseGroup

IndexStep == LabelStep \/ MapStep \/ NameStep

IndexPhases == {"labels", "pack", "qn", "files", "group"}
=============================================================================
