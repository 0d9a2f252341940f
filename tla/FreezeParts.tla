---------------------------- MODULE FreezeParts ----------------------------
(***************************************************************************)
(* What the two halves of MutableGraph::freeze share (ci-graph/src/        *)
(* frozen_graph.rs): the parts of the mutable graph it consumes, and the   *)
(* loop it is in.  Row i of a column of the code is entry i + 1 here.      *)
(*                                                                         *)
(* The bounds are the finite set Inputs of graphs that freeze is given and *)
(* IdSpace, the number of values of a u32 (2^32 in the code): no graph has *)
(* more nodes.                                                             *)
(***************************************************************************)
EXTENDS CoreTypes

CONSTANTS
  Names, Files,  \* handles of symbol names and of paths
  Inputs,        \* graphs to freeze, as into_parts returns them
  IdSpace        \* number of values of a u32

NodeParts == [node_labels : Seq(NodeLabels), node_names : Seq(Names), node_files : Seq(Files),
              node_lines : Seq(Nat), node_columns : Seq(Nat)]
EdgeParts == [edge_sources : Seq(Nat), edge_targets : Seq(Nat), edge_types : Seq(EdgeTypes)]

ASSUME InputsAssumption ==
  /\ Inputs \subseteq [nodes : NodeParts, edges : EdgeParts]
  /\ \A g \in Inputs :
       /\ Len(g.nodes.node_names) = Len(g.nodes.node_labels)
       /\ Len(g.nodes.node_files) = Len(g.nodes.node_labels)
       /\ Len(g.nodes.node_lines) = Len(g.nodes.node_labels)
       /\ Len(g.nodes.node_columns) = Len(g.nodes.node_labels)
       /\ Len(g.edges.edge_targets) = Len(g.edges.edge_sources)
       /\ Len(g.edges.edge_types) = Len(g.edges.edge_sources)

ASSUME IdSpaceAssumption ==
  IdSpace \in Nat \ {0} /\ \A g \in Inputs : Len(g.nodes.node_labels) <= IdSpace

VARIABLES
  phase,   \* the loop freeze is in, "done" or "panicked"
  next,    \* elements that loop has consumed
  columns  \* the columns of the nodes, moved out of the mutable graph

node_count == Len(columns.node_labels)

Nodes == 0..(node_count - 1)

\* The end of a loop: the next one starts from its first element.
Enter(p) == phase' = p /\ next' = 0
=============================================================================
