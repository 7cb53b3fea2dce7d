------------------------- MODULE MCServerSessions -------------------------
(* ServerSessions on small instances; the bounds are discussed in          *)
(* README.md.                                                              *)
EXTENDS ServerSessions
=============================================================================
