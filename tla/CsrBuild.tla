------------------------------ MODULE CsrBuild ------------------------------
(***************************************************************************)
(* The adjacency half of MutableGraph::freeze (ci-graph/src/               *)
(* frozen_graph.rs): the edges are sorted by source and target and laid    *)
(* out twice in compressed sparse rows, forward by one pass that fills in  *)
(* offsets as the source advances, and in reverse by a counting sort that  *)
(* writes into uninitialized memory through a running write position.      *)
(*                                                                         *)
(* Vectors that grow by push are sequences; entry i of the code is entry   *)
(* i + 1 here.  Vectors that are indexed in place are functions from 0.    *)
(* Two vectors that are always written together are one of pairs.          *)
(* add_edge checks no identifier, so an endpoint may name no node.         *)
(***************************************************************************)
EXTENDS FreezeParts

CONSTANT Uninit   \* a slot of MaybeUninit memory not written yet

Edge == [src : Nat, tgt : Nat, type : EdgeTypes]
Entry == [node : Nat, type : EdgeTypes]

ASSUME UninitAssumption == Uninit \notin Entry

VARIABLES
  edges,                 \* the scratch vector of edges (kept as history once dropped)
  current,               \* current_node of the forward pass
  offsets, forward,      \* forward_offsets, and targets with types
  counts, revOffsets,    \* in_counts and rev_offsets
  writePos, slots        \* write_pos, and sources with types

fwdVars == <<current, offsets, forward>>
revVars == <<counts, revOffsets, writePos, slots>>
csrVars == <<edges, fwdVars, revVars>>

\* The three edge columns, zipped.
EdgesOf(e) == [i \in DOMAIN e.edge_sources |->
  [src |-> e.edge_sources[i], tgt |-> e.edge_targets[i], type |-> e.edge_types[i]]]

CsrInit ==
  /\ phase = "sort"
  /\ next = 0
  /\ \E g \in Inputs : columns = g.nodes /\ edges = EdgesOf(g.edges)
  /\ current = 0
  /\ offsets = <<0>>
  /\ forward = <<>>
  /\ counts = [n \in Nodes |-> 0]
  /\ revOffsets = <<0>>
  /\ writePos = <<>>
  /\ slots = [i \in 0..(Len(edges) - 1) |-> Uninit]

\* A loop over the edges, with the edge it is at.
Over(p) == phase = p /\ next < Len(edges)
Past(p) == phase = p /\ next = Len(edges)
Here == edges[next + 1]

-----------------------------------------------------------------------------
Precedes(e, f) == e.src < f.src \/ (e.src = f.src /\ e.tgt < f.tgt)

SameKey(e, f) == e.src = f.src /\ e.tgt = f.tgt

\* The order sort_by_key leaves the edges in: sorted, equal keys as they were.
StableOrder(es, p) ==
  \A i, j \in 1..Len(es) : i < j =>
    Precedes(es[p[i]], es[p[j]]) \/ (SameKey(es[p[i]], es[p[j]]) /\ p[i] < p[j])

SortEdges ==
  /\ phase = "sort"
  /\ \E p \in [1..Len(edges) -> 1..Len(edges)] :
       /\ StableOrder(edges, p)
       /\ edges' = [i \in 1..Len(edges) |-> edges[p[i]]]
  /\ phase' = "forward"
  /\ UNCHANGED <<columns, next, fwdVars, revVars>>

-----------------------------------------------------------------------------
(* build_forward_csr *)

AdvanceNode ==
  /\ current' = current + 1
  /\ offsets' = Append(offsets, Len(forward))
  /\ UNCHANGED <<phase, next, columns, edges, forward, revVars>>

\* Variant of AtSource: the row before the source is taken for its own.
AtRowBefore == current + 1 >= Here.src

\* The condition of the inner loop, negated: rows are closed up to the source.
AtSource == current >= Here.src

\* Close the rows of the nodes before the next edge's source.
SkipToSource == Over("forward") /\ ~AtSource /\ AdvanceNode

PushEdge ==
  /\ forward' = Append(forward, [node |-> Here.tgt, type |-> Here.type])
  /\ next' = next + 1
  /\ UNCHANGED <<phase, columns, edges, current, offsets, revVars>>

PushForward == Over("forward") /\ AtSource /\ PushEdge

\* Variant of RowsClosed: the row of the last node stays open.
LastRowOpen == current + 1 >= node_count

\* The condition of the last loop, negated.
RowsClosed == current >= node_count

CloseRows == Past("forward") /\ ~RowsClosed /\ AdvanceNode

ForwardDone ==
  /\ Past("forward") /\ RowsClosed
  /\ Enter("count")
  /\ UNCHANGED <<columns, csrVars>>

-----------------------------------------------------------------------------
(* build_reverse_csr *)

\* Variant of CountIncoming: a target out of range is skipped.
CountInRange ==
  /\ Over("count")
  /\ counts' = IF Here.tgt < node_count THEN [counts EXCEPT ![Here.tgt] = @ + 1] ELSE counts
  /\ next' = next + 1
  /\ UNCHANGED <<phase, columns, edges, fwdVars, revOffsets, writePos, slots>>

CountIncoming ==
  /\ Over("count") /\ Here.tgt < node_count
  /\ counts' = [counts EXCEPT ![Here.tgt] = @ + 1]
  /\ next' = next + 1
  /\ UNCHANGED <<phase, columns, edges, fwdVars, revOffsets, writePos, slots>>

\* in_counts[tgt] is out of range.
CountPanics ==
  /\ Over("count") /\ Here.tgt >= node_count
  /\ phase' = "panicked"
  /\ UNCHANGED <<next, columns, csrVars>>

CountDone ==
  /\ Past("count")
  /\ Enter("prefix")
  /\ UNCHANGED <<columns, csrVars>>

PrefixSum ==
  /\ phase = "prefix" /\ next < node_count
  /\ revOffsets' = Append(revOffsets, revOffsets[next + 1] + counts[next])
  /\ next' = next + 1
  /\ UNCHANGED <<phase, columns, edges, fwdVars, counts, writePos, slots>>

\* The offsets, cloned as write positions.
WriteStarts == [n \in 0..node_count |-> revOffsets[n + 1]]

PrefixDone ==
  /\ phase = "prefix" /\ next = node_count
  /\ writePos' = WriteStarts
  /\ Enter("place")
  /\ UNCHANGED <<columns, edges, fwdVars, counts, revOffsets, slots>>

\* Variant of SlotOf: rows are filled from their ends.
SlotFromEnd(e) == revOffsets[e.tgt + 1] + revOffsets[e.tgt + 2] - 1 - writePos[e.tgt]

SlotOf(e) == writePos[e.tgt]

\* Variant of Advance: the write position does not move.
StayPut(e) == writePos

Advance(e) == [writePos EXCEPT ![e.tgt] = @ + 1]

\* The unsafe write through the running position.
Place ==
  /\ Over("place")
  /\ slots' = [slots EXCEPT ![SlotOf(Here)] = [node |-> Here.src, type |-> Here.type]]
  /\ writePos' = Advance(Here)
  /\ next' = next + 1
  /\ UNCHANGED <<phase, columns, edges, fwdVars, counts, revOffsets>>

\* The edges are dropped before the indexes are built.
PlaceDone ==
  /\ Past("place")
  /\ Enter("labels")
  /\ UNCHANGED <<columns, csrVars>>

ForwardStep == SkipToSource \/ PushForward \/ CloseRows \/ ForwardDone
ReverseStep == CountIncoming \/ CountPanics \/ CountDone \/ PrefixSum \/ PrefixDone \/ Place \/ PlaceDone

CsrStep == SortEdges \/ ForwardStep \/ ReverseStep

CsrPhases == {"sort", "forward", "count", "prefix", "place"}
=============================================================================
