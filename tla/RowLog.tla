------------------------------- MODULE RowLog -------------------------------
(***************************************************************************)
(* What a graph under construction promises its callers: a log of whole    *)
(* node rows and a log of whole edge rows.  Adding appends a row in one    *)
(* step, and the identifier that is handed back names that row.            *)
(***************************************************************************)
EXTENDS Naturals, Sequences

CONSTANTS Kinds, ArgsOf(_)

VARIABLES rows, acknowledged, closed

vars == <<rows, acknowledged, closed>>

Init ==
  /\ rows = [k \in Kinds |-> <<>>]
  /\ acknowledged = {}
  /\ closed = FALSE

Add(k, a) ==
  /\ ~closed
  /\ rows' = [rows EXCEPT ![k] = Append(@, a)]
  /\ UNCHANGED <<acknowledged, closed>>

Acknowledge(k, id) ==
  /\ id + 1 \in DOMAIN rows[k]
  /\ acknowledged' = acknowledged \cup {[kind |-> k, arg |-> rows[k][id + 1], id |-> id]}
  /\ UNCHANGED <<rows, closed>>

\* Nothing is added to a closed log, and every row of it was acknowledged.
Close ==
  /\ ~closed
  /\ \A k \in Kinds : \A i \in DOMAIN rows[k] :
       [kind |-> k, arg |-> rows[k][i], id |-> i - 1] \in acknowledged
  /\ closed' = TRUE
  /\ UNCHANGED <<rows, acknowledged>>

Next ==
  \/ \E k \in Kinds : \E a \in ArgsOf(k) : Add(k, a)
  \/ \E k \in Kinds : \E i \in DOMAIN rows[k] : Acknowledge(k, i - 1)
  \/ Close

Spec == Init /\ [][Next]_vars
=============================================================================
