---------------------------- MODULE MCGraphFile ----------------------------
(* Small file systems for GraphFile.  Two destinations share a temporary     *)
(* name, as "graph.bin" and "graph.idx" do.                                  *)
EXTENDS GraphFile, TLC

CONSTANTS s1, s2, r1, p1, p2, tmpname, g1, g2, i1, i2, i3, i4

OneSaver == {s1}
TwoSavers == {s1, s2}
OneReader == {r1}
OnePath == {p1}
TwoPaths == {p1, p2}
OneTmp == {tmpname}
MCTmpOf == [p \in Paths |-> tmpname]
TwoGraphs == {g1, g2}
OneBlock == [g \in Graphs |-> 1]
UnevenBlocks == g1 :> 1 @@ g2 :> 2
ThreeInodes == {i1, i2, i3}
FourInodes == {i1, i2, i3, i4}

SaversAndPaths == Permutations(Savers) \cup Permutations(Paths)
=============================================================================
