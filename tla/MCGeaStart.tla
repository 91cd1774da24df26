----------------------------- MODULE MCGeaStart -----------------------------
(* The instance of GeaStart for TLC: all texts up to MaxLength bytes. *)
EXTENDS GeaStart

CONSTANT MaxLength

Texts == UNION {[1..n -> {"d", "#", " ", "c"}] : n \in 0..MaxLength}
=============================================================================
