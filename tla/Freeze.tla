------------------------------- MODULE Freeze -------------------------------
(***************************************************************************)
(* MutableGraph::freeze from end to end (ci-graph/src/frozen_graph.rs):    *)
(* the edges are laid out, then the indexes are built, then everything is  *)
(* moved into a FrozenGraph.  The properties of the indexes are stated of  *)
(* that graph, through its accessors.                                      *)
(***************************************************************************)
EXTENDS CsrBuild, FreezeIndexes, FrozenGraph, SequencesExt

CONSTANTS Pending, Panicked

VARIABLE frozen   \* the FrozenGraph that freeze returns

vars == <<phase, next, columns, csrVars, idxVars, frozen>>

Init == CsrInit /\ IdxInit /\ frozen = Pending

\* Everything built is moved into the FrozenGraph, with the columns of the nodes.
Assemble ==
  /\ PastNodes("group") /\ group = NoGroup
  /\ frozen' =
       [node_labels |-> columns.node_labels, node_names |-> columns.node_names,
        node_files |-> columns.node_files, node_lines |-> columns.node_lines,
        node_columns |-> columns.node_columns,
        forward_offsets |-> offsets, forward_edges |-> forward,
        rev_offsets |-> revOffsets, rev_edges |-> slots,
        label_index |-> packed, qn_index |-> qnIndex, file_index |-> fileIndex,
        bare_name_fst |-> fst, bare_name_nodes |-> sideTable]
  /\ phase' = "done"
  /\ UNCHANGED <<next, columns, csrVars, idxVars>>

Next ==
  \/ CsrStep /\ UNCHANGED <<idxVars, frozen>>
  \/ IndexStep /\ UNCHANGED <<csrVars, frozen>>
  \/ Assemble

Spec == Init /\ [][Next]_vars

-----------------------------------------------------------------------------
CsrTypeOK ==
  /\ edges \in Seq(Edge)
  /\ current \in Nat
  /\ offsets \in Seq(Nat)
  /\ forward \in Seq(Entry)
  /\ counts \in [Nodes -> Nat]
  /\ revOffsets \in Seq(Nat)
  /\ phase = "place" => writePos \in [0..node_count -> Nat]
  /\ slots \in [0..(Len(edges) - 1) -> Entry \cup {Uninit}]

IdxTypeOK ==
  /\ bitmaps \in [0..(LabelCount - 1) -> SUBSET Nodes]
  /\ packed \in [len : Nat, blocks : SUBSET [at : Nat, size : Nat, nodes : SUBSET Nodes]]
  /\ DOMAIN qnIndex \subseteq Names /\ \A h \in DOMAIN qnIndex : qnIndex[h] \in Nodes
  /\ DOMAIN fileIndex \subseteq Files /\ \A f \in DOMAIN fileIndex : fileIndex[f] \in Seq(Nodes)
  /\ pairs \in Seq(Nat \X Nodes)
  /\ group = NoGroup \/ group \in [key : Nat, slot : Nat, nodes : Seq(Nodes)]
  /\ sideTable \in Seq(Seq(Nodes))
  /\ fst \in Seq([key : Nat, slot : Nat])

TypeOK ==
  /\ phase \in CsrPhases \cup IndexPhases \cup {"done", "panicked"}
  /\ next \in Nat
  /\ columns \in NodeParts
  /\ CsrTypeOK
  /\ IdxTypeOK
  /\ phase # "done" => frozen = Pending
  /\ phase = "done" => frozen.rev_edges \in [0..(edge_count(frozen) - 1) -> Entry]

Frozen == phase = "done"

(* forward_edges(n) yields the edges whose source is n and no others, with  *)
(* their targets and types, in order, also when other edges name nodes that *)
(* do not exist; and "offsets[node_count] = total edge count (sentinel)"    *)
(* (frozen_graph.rs:450), which edge_count asserts, if every source is a    *)
(* node.                                                                    *)
ForwardRowsExact ==
  phase \notin {"sort", "forward"} =>
    /\ Len(forward) = Len(edges)
    /\ node_count + 1 <= Len(offsets)
    /\ \A i \in 1..Len(edges) :
         /\ forward[i] = [node |-> edges[i].tgt, type |-> edges[i].type]
         /\ \A n \in Nodes :
              edges[i].src = n <=> offsets[n + 1] < i /\ i <= offsets[n + 2]
    /\ (\A i \in 1..Len(edges) : edges[i].src \in Nodes) => offsets[node_count + 1] = Len(edges)

(* edge_count is the number of edges added, and its assertion               *)
(* (frozen_graph.rs:114) holds exactly if every source is a node: over one  *)
(* that is not, add_edge and freeze succeed and edge_count panics where     *)
(* debug assertions are compiled in.                                        *)
EdgeCountExact ==
  Frozen =>
    /\ edge_count(frozen) = Len(edges)
    /\ edge_count_asserted(frozen) <=> \A i \in 1..Len(edges) : edges[i].src \in Nodes

(* "pos is within [0, edge_count) by CSR construction invariant"            *)
(* (frozen_graph.rs:523) and "all slots initialized above" (:537): the      *)
(* unsafe write of the next edge hits a slot of the vectors, and one that   *)
(* no earlier edge was written to; when the memory is reinterpreted every   *)
(* slot was written, and so is every one the frozen graph reads.            *)
SlotsWrittenOnce ==
  /\ Over("place") => SlotOf(Here) \in DOMAIN slots /\ slots[SlotOf(Here)] = Uninit
  /\ phase \in IndexPhases => \A s \in 0..(Len(edges) - 1) : slots[s] # Uninit
  /\ Frozen => \A s \in 0..(edge_count(frozen) - 1) : frozen.rev_edges[s] # Uninit

\* The edges into a node among the first i.
Incoming(n, i) == {j \in 1..i : edges[j].tgt = n}

(* reverse_edges(n) yields the sources and types of the edges whose target  *)
(* is n, each once, in the order of the sorted edges: as many as there are, *)
(* and edge i where as many of them as come before it precede it.           *)
ReverseRowsExact ==
  Frozen =>
    /\ \A n \in Nodes :
         Len(reverse_edges(frozen, n)) = Cardinality(Incoming(n, Len(edges)))
    /\ \A i \in 1..Len(edges) :
         reverse_edges(frozen, edges[i].tgt)[Cardinality(Incoming(edges[i].tgt, i))]
           = [node |-> edges[i].src, type |-> edges[i].type]

(* A target that names no node never reaches the frozen graph: freeze panics*)
(* before it allocates or writes the uninitialized memory.                  *)
NoDanglingTarget ==
  phase \notin {"sort", "forward", "count", "panicked"} =>
    \A i \in 1..Len(edges) : edges[i].tgt \in Nodes

(* "The byte buffer stores each bitmap as [4-byteLE-size][serialized-bytes] *)
(* concatenated in NodeLabel order" (frozen_graph.rs:237): the walk over    *)
(* the sizes ends at the bitmap of the label asked for, at labels without   *)
(* nodes too, and every node is in the bitmap of its own label only.        *)
LabelWalkExact ==
  Frozen =>
    \A label \in NodeLabels :
      nodes_with_label(frozen, label) = {n \in Nodes : columns.node_labels[n + 1] = label}

(* "the node with the highest NodeId is returned" (frozen_graph.rs:261) for *)
(* a name handle that several nodes share.                                  *)
HighestNodeWins ==
  Frozen =>
    \A h \in Names :
      lookup_qn(frozen, h) = {n \in Nodes : columns.node_names[n + 1] = h
                                /\ \A m \in Nodes : columns.node_names[m + 1] = h => m <= n}

(* Every node is listed once, in ascending order, under its own file and    *)
(* under no other.                                                          *)
FilesPartitionNodes ==
  Frozen =>
    \A f \in Files :
      LET listed == nodes_in_file(frozen, f) IN
        /\ ToSet(listed) = {n \in Nodes : columns.node_files[n + 1] = f}
        /\ \A i, j \in DOMAIN listed : i < j => listed[i] < listed[j]

(* "bare_name_nodes[slot] holds all NodeIds whose symbol name resolves to   *)
(* the same string" (frozen_graph.rs:95), also when two handles resolve to  *)
(* one string, and the FST has one slot per string.                         *)
BareNamesExact ==
  Frozen =>
    \A h \in DOMAIN Resolve :
      LET keyed == bare_name_slots(frozen, Resolve[h]) IN
        /\ Cardinality(keyed) <= 1
        /\ UNION {ToSet(bare_name_nodes(frozen, slot)) : slot \in keyed}
             = {n \in Nodes : Resolve[columns.node_names[n + 1]] = Resolve[h]}

(* "Keys are already in sorted order so this never fails"                   *)
(* (frozen_graph.rs:592): whatever the names resolve to, the FST builder    *)
(* takes every key; freeze panics only over a dangling target or over a     *)
(* handle that the interner does not know.                                  *)
KeysAscend ==
  phase = "panicked" => ~NamesResolve \/ \E i \in 1..Len(edges) : edges[i].tgt \notin Nodes

-----------------------------------------------------------------------------
\* What the accessors answer, as the store that is promised.
Answers ==
  LET Bag(es) == ToBag([i \in DOMAIN es |-> <<es[i].node, es[i].type>>])
  IN  [n \in 0..(node_count_of(frozen) - 1) |->
         [row |-> node_row(frozen, n), out |-> Bag(forward_edges(frozen, n)),
          in |-> Bag(reverse_edges(frozen, n))]]

Store == INSTANCE GraphStore WITH
  Rows <- NodeParts, Edges <- Edge, Resolvable <- DOMAIN Resolve, rows <- columns, edges <- ToBag(edges),
  store <- IF Frozen THEN Answers ELSE IF phase = "panicked" THEN Panicked ELSE Pending

(* Freezing implements a store that keeps every row and every edge, out of  *)
(* its source and into its target, as often as it was added.                *)
ImplementsGraphStore == Store!Spec

-----------------------------------------------------------------------------
\* The order of the loops.
Stage ==
  [sort |-> 0, forward |-> 1, count |-> 2, prefix |-> 3, place |-> 4, labels |-> 5, pack |-> 6,
   qn |-> 7, files |-> 8, group |-> 9, done |-> 10, panicked |-> 10]

\* The last row that the forward pass closes.
LastRow ==
  IF edges # <<>> /\ edges[Len(edges)].src > node_count THEN edges[Len(edges)].src ELSE node_count

\* What is left of the loops over the groups, besides the nodes: a group to
\* open, one that is open and empty, or one to close.
GroupLeft == IF group = NoGroup THEN 1 ELSE IF group.nodes = <<>> THEN 0 ELSE 2

\* What is left of the loop freeze is in.
Left ==
  CASE phase = "forward" -> (Len(edges) - next) + (LastRow - current)
    [] phase \in {"count", "place"} -> Len(edges) - next
    [] phase \in {"prefix", "labels", "qn", "files"} -> node_count - next
    [] phase = "pack" -> LabelCount - next
    [] phase = "group" -> 3 * (node_count - next) + GroupLeft
    [] OTHER -> 0

(* Every loop of freeze ends: each step brings it closer to its end or goes *)
(* on to a later loop.  The forward pass closes rows up to the largest      *)
(* source (frozen_graph.rs:466), which may lie beyond the nodes, and of the *)
(* two nested loops over the groups (:583) the inner one takes at least one *)
(* node, or the outer one would not advance.                                *)
EveryLoopEnds ==
  [][\/ Stage[phase] < Stage[phase']
     \/ phase' = phase /\ Left' \in Nat /\ Left' < Left]_vars
=============================================================================
