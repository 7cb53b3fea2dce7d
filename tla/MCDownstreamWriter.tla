------------------------ MODULE MCDownstreamWriter ------------------------
(* DownstreamWriter on small instances; the bounds are discussed in        *)
(* README.md.                                                              *)
EXTENDS DownstreamWriter
=============================================================================
