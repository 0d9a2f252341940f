----------------------------- MODULE GraphStore -----------------------------
(***************************************************************************)
(* What freezing a graph promises: in one step the graph becomes a store   *)
(* whose every node has the row it was added with, and each edge, however  *)
(* often it was added, is that often among the edges out of its source and *)
(* among the edges into its target.  Freezing panics over a target that    *)
(* names no node and over a name that cannot be resolved, and over nothing *)
(* else.                                                                   *)
(***************************************************************************)
EXTENDS Integers, Sequences, Bags

CONSTANTS
  Rows, Edges,
  Resolvable,         \* the names that can be resolved
  Pending, Panicked

VARIABLES
  rows,   \* the columns of the nodes
  edges,  \* the edges added, a bag of [src, tgt, type]
  store   \* what the store answers: row, out and in of each node

vars == <<rows, edges, store>>

Nodes == 0..(Len(rows.node_labels) - 1)

Init ==
  /\ rows \in Rows
  /\ BagToSet(edges) \subseteq Edges /\ IsABag(edges)
  /\ store = Pending

Row(n) == <<rows.node_labels[n + 1], rows.node_names[n + 1], rows.node_files[n + 1],
            rows.node_lines[n + 1], rows.node_columns[n + 1]>>

\* The edges out of and into a node, as bags of the other end and the type.
Out(n) == [o \in {<<e.tgt, e.type>> : e \in {f \in BagToSet(edges) : f.src = n}} |->
             edges[[src |-> n, tgt |-> o[1], type |-> o[2]]]]

In(n) == [i \in {<<e.src, e.type>> : e \in {f \in BagToSet(edges) : f.tgt = n}} |->
            edges[[src |-> i[1], tgt |-> n, type |-> i[2]]]]

Storable ==
  /\ \A e \in BagToSet(edges) : e.tgt \in Nodes
  /\ \A n \in Nodes : rows.node_names[n + 1] \in Resolvable

Freeze ==
  /\ store = Pending
  /\ store' = IF Storable
              THEN [n \in Nodes |-> [row |-> Row(n), out |-> Out(n), in |-> In(n)]]
              ELSE Panicked
  /\ UNCHANGED <<rows, edges>>

Spec == Init /\ [][Freeze]_vars
=============================================================================
