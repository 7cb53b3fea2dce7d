------------------------- MODULE MCClientSessions -------------------------
(* ClientSessions on small instances; the bounds are discussed in          *)
(* README.md.                                                              *)
EXTENDS ClientSessions
=============================================================================
