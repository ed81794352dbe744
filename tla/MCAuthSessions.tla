--------------------------- MODULE MCAuthSessions ---------------------------
(* Constants of AuthSessions for TLC: two processes.                         *)
EXTENDS AuthSessions

CONSTANTS s1, s2
=============================================================================
