-------------------------- MODULE MCUpstreamPath --------------------------
(* UpstreamPath on small instances; the bounds are discussed in README.md. *)
EXTENDS UpstreamPath
=============================================================================
