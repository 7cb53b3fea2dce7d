-------------------------- MODULE MCUpstreamConn --------------------------
(* UpstreamConn with three connection identities: the lane's connection,   *)
(* and two earlier ones whose watchers may still be about to act.          *)
EXTENDS UpstreamConn
=============================================================================
