-------------------------- MODULE MCMutableGraph --------------------------
(* Small instances of MutableGraph and SerialBuild for TLC.                 *)
EXTENDS SerialBuild, TLC

CONSTANTS t1, t2, t3

\* Two nodes of one file and two edges between the first two nodes.
MCNodeArgs ==
  {[labels |-> "Function", names |-> "f", files |-> "a.rs", lines |-> 1, columns |-> 5],
   [labels |-> "Struct", names |-> "S", files |-> "a.rs", lines |-> 9, columns |-> 1]}

MCEdgeArgs ==
  {[sources |-> 0, targets |-> 1, types |-> "Calls"],
   [sources |-> 1, targets |-> 0, types |-> "Uses"]}

TwoCallers == {t1, t2}
ThreeCallers == {t1, t2, t3}
NoArgs == {}

CallersSymmetric == Permutations(Callers)
=============================================================================
