------------------------- MODULE MCDownstreamLane -------------------------
(* DownstreamLane on small instances; the bounds are discussed in          *)
(* README.md.                                                              *)
EXTENDS DownstreamLane
=============================================================================
