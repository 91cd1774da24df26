------------------------- MODULE MCTopologyViewer -------------------------
(* Instances of TopologyViewer for TLC. *)
EXTENDS TopologyViewer

CONSTANTS a, b, c, d, p, q

Path  == {<<a, b>>, <<b, c>>}
Chain == {<<a, b>>, <<b, c>>, <<c, d>>}
Pair  == {<<a, b>>}

\* Nothing tells the parser threads apart.
SourceSymmetry == Permutations(Sources)
=============================================================================
