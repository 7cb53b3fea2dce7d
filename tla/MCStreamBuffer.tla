-------------------------- MODULE MCStreamBuffer --------------------------
(* StreamBuffer on small instances; the bounds are discussed in README.md. *)
EXTENDS StreamBuffer
=============================================================================
