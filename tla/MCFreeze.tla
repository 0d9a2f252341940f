------------------------------ MODULE MCFreeze ------------------------------
(* Small graphs for Freeze.  The handles h1 and h2 resolve to one string; h3 *)
(* resolves to a smaller one and h4 is of another interner.                  *)
EXTENDS Freeze, TLC

CONSTANTS h1, h2, h3, h4, f1, f2

MCNames == {h1, h2, h3, h4}
MCFiles == {f1, f2}
MCResolve == h1 :> 7 @@ h2 :> 7 @@ h3 :> 3
\* An empty bitmap is a header, then two bytes for each node.
MCBitmapSize == [n \in 0..4 |-> 8 + 2 * n]

Ends(ids, types) == ids \X ids \X types

Graph(labels, names, files, es) ==
  [nodes |-> [node_labels |-> labels, node_names |-> names, node_files |-> files,
              node_lines |-> [i \in DOMAIN labels |-> 10 * i],
              node_columns |-> [i \in DOMAIN labels |-> i]],
   edges |-> [edge_sources |-> [i \in DOMAIN es |-> es[i][1]],
              edge_targets |-> [i \in DOMAIN es |-> es[i][2]],
              edge_types |-> [i \in DOMAIN es |-> es[i][3]]]]

\* One table of n nodes under the edges es.
Plain(n, es) == Graph([i \in 1..n |-> "Function"], [i \in 1..n |-> h1], [i \in 1..n |-> f1], es)

\* n nodes and up to e edges of the types, whose endpoints may lie one past the
\* last node.
Dangling(n, e, types) == {Plain(n, es) : es \in BoundedSeq(Ends(0..n, types), e)}

\* n nodes and e edges of one type, every endpoint a node, sources ascending.
Wide(n, e) ==
  {Plain(n, es) : es \in {l \in [1..e -> Ends(0..(n - 1), {"Calls"})] :
                            \A i, j \in 1..e : i < j => l[i][1] <= l[j][1]}}

\* Every table of n nodes with the labels and the names, without edges.
Tables(n, labels, names) ==
  {Graph(ls, ns, fs, <<>>) :
     ls \in [1..n -> labels], ns \in [1..n -> names], fs \in [1..n -> MCFiles]}

MCInputs ==
  Dangling(0, 1, {"Calls"}) \cup Dangling(1, 2, {"Calls"})
    \cup Dangling(2, 2, {"Calls", "Uses"}) \cup Dangling(2, 3, {"Calls"}) \cup Wide(3, 4)
    \cup Tables(2, {"Project", "Function", "Namespace"}, MCNames)
    \cup Tables(3, {"Package", "Namespace"}, MCNames \ {h4})
=============================================================================
