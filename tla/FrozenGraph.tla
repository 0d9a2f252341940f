---------------------------- MODULE FrozenGraph ----------------------------
(***************************************************************************)
(* FrozenGraph and its accessors (ci-graph/src/frozen_graph.rs), as        *)
(* operators on the graph they are called on.  Vectors that grow by push   *)
(* are sequences, and entry i of the code is entry i + 1 of them; the      *)
(* reverse edges are a function from 0.                                    *)
(***************************************************************************)
EXTENDS CoreTypes

node_count_of(g) == Len(g.node_labels)

\* The assertion of edge_count: the last offset is the number of edges.  Where
\* debug assertions are compiled in, edge_count panics if it fails.
edge_count_asserted(g) == g.forward_offsets[Len(g.forward_offsets)] = Len(g.forward_edges)

edge_count(g) == Len(g.forward_edges)

\* Variant of node_row: node_file reads the column of names, handles too.
row_with_name_as_file(g, n) == <<g.node_labels[n + 1], g.node_names[n + 1], g.node_names[n + 1],
                                 g.node_lines[n + 1], g.node_columns[n + 1]>>

\* node_label, node_name, node_file, node_line, node_column
node_row(g, n) == <<g.node_labels[n + 1], g.node_names[n + 1], g.node_files[n + 1],
                    g.node_lines[n + 1], g.node_columns[n + 1]>>

\* forward_edge_range: the first place, and the one after the last
forward_edge_range(g, n) == <<g.forward_offsets[n + 1], g.forward_offsets[n + 2]>>

forward_edges(g, n) ==
  SubSeq(g.forward_edges, forward_edge_range(g, n)[1] + 1, forward_edge_range(g, n)[2])

reverse_edge_range(g, n) == <<g.rev_offsets[n + 1], g.rev_offsets[n + 2]>>

reverse_edges(g, n) ==
  LET range == reverse_edge_range(g, n)
  IN  [i \in 1..(range[2] - range[1]) |-> g.rev_edges[range[1] + i - 1]]

\* The block of the packed bitmaps that starts at an offset, and its end.
BlockAt(g, offset) == CHOOSE b \in g.label_index.blocks : b.at = offset
BlockEnd(g, offset) == offset + 4 + BlockAt(g, offset).size

\* Variant of Skipped: one block too few is skipped.
SkippedBefore(label) == IF Discriminant(label) = 0 THEN 0 ELSE Discriminant(label) - 1

\* How many blocks come before that of a label.
Skipped(label) == Discriminant(label)

\* The walk skips past each preceding bitmap.
nodes_with_label(g, label) ==
  LET offset[i \in 0..Skipped(label)] == IF i = 0 THEN 0 ELSE BlockEnd(g, offset[i - 1])
  IN  BlockAt(g, offset[Skipped(label)]).nodes

\* An Option is a set of at most one value.
lookup_qn(g, name) == IF name \in DOMAIN g.qn_index THEN {g.qn_index[name]} ELSE {}

nodes_in_file(g, file) == IF file \in DOMAIN g.file_index THEN g.file_index[file] ELSE <<>>

\* The slots that the FST maps a string to.
bare_name_slots(g, str) ==
  {g.bare_name_fst[k].slot : k \in {j \in DOMAIN g.bare_name_fst : g.bare_name_fst[j].key = str}}

bare_name_nodes(g, slot) == g.bare_name_nodes[slot + 1]
=============================================================================
