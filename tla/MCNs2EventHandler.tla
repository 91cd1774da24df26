------------------------- MODULE MCNs2EventHandler -------------------------
(* Instances of Ns2EventHandler for TLC.                                   *)
EXTENDS Ns2EventHandler, TLC

CONSTANTS n1, n2,  \* nodes
          remote   \* the handle that lives on n2

\* Registrations are interchangeable, and so are the DependHandles as long as
\* none of them is the remote handle (used in safety runs only).
Interchangeable == Permutations(Ids) \cup Permutations(Dependents)

Placement == [h \in Handles |-> IF h = remote THEN n2 ELSE n1]
=============================================================================
