----------------------------- MODULE MCReorder -----------------------------
(* Reorder on small instances; the bounds are discussed in README.md.      *)
EXTENDS Reorder
=============================================================================
