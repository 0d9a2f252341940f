---------------------------- MODULE MutableGraph ----------------------------
(***************************************************************************)
(* The append-only graph of ci-graph/src/mutable_graph.rs while it is      *)
(* built.  A node row is spread over five columns and an edge row over     *)
(* three.  add_node and add_edge first take an identifier from an atomic   *)
(* counter, then push one field after the other, each under the lock of    *)
(* its own column: no lock is held across two pushes, so calls interleave  *)
(* between any two of them.                                                *)
(*                                                                         *)
(* The bounds are IdSpace, the number of values of the counters (2^32 in   *)
(* the code), and MaxRows, the number of rows at which callers stop.       *)
(***************************************************************************)
EXTENDS Naturals, FiniteSets, Sequences

CONSTANTS
  Callers,   \* threads that share the graph
  NodeArgs,  \* argument rows of add_node, as functions of the node columns
  EdgeArgs,  \* argument rows of add_edge, as functions of the edge columns
  IdSpace,   \* number of values of an AtomicU32
  MaxRows,   \* no call starts when the first column has this many entries
  Idle       \* a caller that is in no call

NodeColumns == {"labels", "names", "files", "lines", "columns"}
EdgeColumns == {"sources", "targets", "types"}
Columns == NodeColumns \cup EdgeColumns
Kinds == {"node", "edge"}

ColumnsOf(k) == IF k = "node" THEN NodeColumns ELSE EdgeColumns
ArgsOf(k) == IF k = "node" THEN NodeArgs ELSE EdgeArgs
KindOf(c) == IF c \in NodeColumns THEN "node" ELSE "edge"

\* The order of the push statements of add_node and of add_edge.
Rank == [labels |-> 1, names |-> 2, files |-> 3, lines |-> 4, columns |-> 5,
         sources |-> 1, targets |-> 2, types |-> 3]

FirstColumn(k) == IF k = "node" THEN "labels" ELSE "sources"
LastRank(k) == IF k = "node" THEN 5 ELSE 3

\* The values column c can hold.
Fields(c) == {a[c] : a \in ArgsOf(KindOf(c))}

Call == [kind : Kinds, arg : NodeArgs \cup EdgeArgs, id : Nat, step : 1..6]
Result == [kind : Kinds, arg : NodeArgs \cup EdgeArgs, id : Nat]

ASSUME ArgsAssumption ==
  /\ \A a \in NodeArgs : a = [c \in NodeColumns |-> a[c]]
  /\ \A a \in EdgeArgs : a = [c \in EdgeColumns |-> a[c]]
ASSUME CallersAssumption == IsFiniteSet(Callers)
ASSUME IdSpaceAssumption == IdSpace \in Nat \ {0} /\ MaxRows \in Nat
ASSUME IdleAssumption == Idle \notin Call

VARIABLES
  column,    \* the eight vectors behind their locks
  nextId,    \* next_node_id and next_edge_id
  call,      \* the call each caller is in, with the push it does next
  returned,  \* history: what each finished call added and the id it returned
  frozen     \* freeze has consumed the graph

vars == <<column, nextId, call, returned, frozen>>

Init ==
  /\ column = [c \in Columns |-> <<>>]
  /\ nextId = [k \in Kinds |-> 0]
  /\ call = [t \in Callers |-> Idle]
  /\ returned = {}
  /\ frozen = FALSE

-----------------------------------------------------------------------------
\* Variant of Claim: the identifier is the length of the first column.
ClaimFromLength(t, k, a) ==
  /\ ~frozen
  /\ call[t] = Idle
  /\ Len(column[FirstColumn(k)]) < MaxRows
  /\ call' = [call EXCEPT ![t] = [kind |-> k, arg |-> a, id |-> Len(column[FirstColumn(k)]), step |-> 1]]
  /\ nextId' = [nextId EXCEPT ![k] = (@ + 1) % IdSpace]
  /\ UNCHANGED <<column, returned, frozen>>

\* Variant of Claim: add_edge advances next_node_id.
ClaimWrongCounter(t, k, a) ==
  /\ ~frozen
  /\ call[t] = Idle
  /\ Len(column[FirstColumn(k)]) < MaxRows
  /\ call' = [call EXCEPT ![t] = [kind |-> k, arg |-> a, id |-> nextId[k], step |-> 1]]
  /\ nextId' = [nextId EXCEPT !["node"] = (@ + 1) % IdSpace]
  /\ UNCHANGED <<column, returned, frozen>>

(* fetch_add: take the counter's value and advance it, wrapping silently.   *)
Claim(t, k, a) ==
  /\ ~frozen
  /\ call[t] = Idle
  /\ Len(column[FirstColumn(k)]) < MaxRows
  /\ call' = [call EXCEPT ![t] = [kind |-> k, arg |-> a, id |-> nextId[k], step |-> 1]]
  /\ nextId' = [nextId EXCEPT ![k] = (@ + 1) % IdSpace]
  /\ UNCHANGED <<column, returned, frozen>>

AddNode(t) == \E a \in NodeArgs : Claim(t, "node", a)
AddEdge(t) == \E a \in EdgeArgs : Claim(t, "edge", a)

\* Variant of Push: a column already pushed is pushed again.
PushAgain(t, c) ==
  /\ call[t] # Idle
  /\ call[t].kind = KindOf(c)
  /\ call[t].step >= Rank[c]
  /\ column' = [column EXCEPT ![c] = Append(@, call[t].arg[c])]
  /\ call' = [call EXCEPT ![t].step = @ + 1]
  /\ UNCHANGED <<nextId, returned, frozen>>

\* Variant of Push: the field is stored at the identifier when it is there.
PushAtId(t, c) ==
  /\ call[t] # Idle
  /\ call[t].kind = KindOf(c)
  /\ call[t].step = Rank[c]
  /\ column' = [column EXCEPT ![c] =
       IF call[t].id < Len(@) THEN [@ EXCEPT ![call[t].id + 1] = call[t].arg[c]]
       ELSE Append(@, call[t].arg[c])]
  /\ call' = [call EXCEPT ![t].step = @ + 1]
  /\ UNCHANGED <<nextId, returned, frozen>>

\* self.<c>.lock().push(field): the next statement of the call t is in.
Push(t, c) ==
  /\ call[t] # Idle
  /\ call[t].kind = KindOf(c)
  /\ call[t].step = Rank[c]
  /\ column' = [column EXCEPT ![c] = Append(@, call[t].arg[c])]
  /\ call' = [call EXCEPT ![t].step = @ + 1]
  /\ UNCHANGED <<nextId, returned, frozen>>

ResultOf(t) == [kind |-> call[t].kind, arg |-> call[t].arg, id |-> call[t].id]

Return(t) ==
  /\ call[t] # Idle
  /\ call[t].step > LastRank(call[t].kind)
  /\ returned' = returned \cup {ResultOf(t)}
  /\ call' = [call EXCEPT ![t] = Idle]
  /\ UNCHANGED <<column, nextId, frozen>>

Quiet == \A t \in Callers : call[t] = Idle

\* Variant of Freeze: the graph is taken while calls are running.
FreezeEarly ==
  /\ ~frozen
  /\ frozen' = TRUE
  /\ UNCHANGED <<column, nextId, call, returned>>

\* freeze takes the graph by value, so it starts only when no call is left.
Freeze ==
  /\ ~frozen
  /\ Quiet
  /\ frozen' = TRUE
  /\ UNCHANGED <<column, nextId, call, returned>>

Proceed(t) == Return(t) \/ \E c \in Columns : Push(t, c)

Next ==
  \/ \E t \in Callers : AddNode(t) \/ AddEdge(t) \/ Proceed(t)
  \/ Freeze

Spec == Init /\ [][Next]_vars

-----------------------------------------------------------------------------
TypeOK ==
  /\ DOMAIN column = Columns
  /\ \A c \in Columns : column[c] \in Seq(Fields(c))
  /\ nextId \in [Kinds -> 0..(IdSpace - 1)]
  /\ call \in [Callers -> Call \cup {Idle}]
  /\ \A t \in Callers : call[t] # Idle =>
       /\ call[t].arg \in ArgsOf(call[t].kind)
       /\ call[t].step <= LastRank(call[t].kind) + 1
  /\ returned \subseteq Result
  /\ \A r \in returned : r.arg \in ArgsOf(r.kind)
  /\ frozen \in BOOLEAN

InCall(k) == {t \in Callers : call[t] # Idle /\ call[t].kind = k}

\* The calls that have still to push column c.
Pending(c) == {t \in InCall(KindOf(c)) : call[t].step <= Rank[c]}

\* The calls, finished or not, that have pushed column c.
Contributors(c) ==
  {r \in returned : r.kind = KindOf(c)}
    \cup {ResultOf(t) : t \in InCall(KindOf(c)) \ Pending(c)}

-----------------------------------------------------------------------------
(* A column holds the field of every call that has pushed it, as often as   *)
(* it was pushed, and nothing else, however the calls interleave: the       *)
(* multiset freeze receives per column is the one that was added.           *)
NothingLostOrInvented ==
  \A c \in Columns : \A v \in Fields(c) :
    Cardinality({i \in DOMAIN column[c] : column[c][i] = v})
      = Cardinality({r \in Contributors(c) : r.arg[c] = v})

(* Each counter equals the length of each of its columns plus the calls     *)
(* still to push it.  When freeze takes the graph the columns of a kind are *)
(* equally long, so its zip of the edge columns drops nothing and           *)
(* node_labels.len() is the number of nodes.                                *)
CountersCoverColumns ==
  \A c \in Columns : nextId[KindOf(c)] = Len(column[c]) + Cardinality(Pending(c))

(* No two calls of a kind get the same identifier while the counter does    *)
(* not wrap: fetch_add hands each value out once.                           *)
IdsUnique ==
  /\ \A r, s \in returned : r.kind = s.kind /\ r.id = s.id => r = s
  /\ \A t \in Callers : call[t] # Idle =>
       \A r \in returned : r.kind = call[t].kind => r.id # call[t].id
  /\ \A t, u \in Callers :
       call[t] # Idle /\ call[u] # Idle /\ t # u /\ call[t].kind = call[u].kind
         => call[t].id # call[u].id
=============================================================================
