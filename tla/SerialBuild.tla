---------------------------- MODULE SerialBuild ----------------------------
(***************************************************************************)
(* The graph of MutableGraph used the way the pipeline design and the      *)
(* benchmarks use it: results are merged into it from one place at a time, *)
(* so a call starts only when no other runs.  Then a graph is a log of     *)
(* whole rows, which is what concurrent callers do not get.                *)
(***************************************************************************)
EXTENDS MutableGraph

\* Variant of SerialAdd: results are merged by several threads at once.
ConcurrentAdd(t) == AddNode(t) \/ AddEdge(t)

\* add_node and add_edge called in sequence, by whichever thread merges.
SerialAdd(t) == Quiet /\ (AddNode(t) \/ AddEdge(t))

SerialNext ==
  \/ \E t \in Callers : SerialAdd(t) \/ Proceed(t)
  \/ Freeze

SerialSpec == Init /\ [][SerialNext]_vars

-----------------------------------------------------------------------------
(* The identifier a finished call returned is the index of its row in every *)
(* column of its kind (mutable_graph.rs:130 and 155).                       *)
RowsIntact ==
  \A r \in returned : \A c \in ColumnsOf(r.kind) :
    r.id < Len(column[c]) /\ column[c][r.id + 1] = r.arg[c]

\* The rows across the columns; a row counts once its last field is pushed.
LastColumn(k) == IF k = "node" THEN "columns" ELSE "types"

Row(k, i) == [c \in ColumnsOf(k) |-> column[c][i]]

Rows == [k \in Kinds |-> [i \in 1..Len(column[LastColumn(k)]) |-> Row(k, i)]]

(* Every row of the graph that freeze takes is one that a call added: no    *)
(* call is running then, and no row is made of the fields of two calls      *)
(* (mutable_graph.rs:16 promises this of concurrent callers too).           *)
RowsAdded ==
  frozen => \A k \in Kinds : \A i \in DOMAIN Rows[k] :
              \E r \in returned : r.kind = k /\ Rows[k][i] = r.arg

Log == INSTANCE RowLog WITH
  rows <- Rows, acknowledged <- returned, closed <- frozen

(* Built serially the graph implements a log of whole rows: every row       *)
(* appears at once, with the fields of one call, under the identifier that  *)
(* call returns, and freeze finds only acknowledged rows.                   *)
ImplementsRowLog == Log!Spec
=============================================================================
