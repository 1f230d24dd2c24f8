--------------------------- MODULE MCEndpointSlot ---------------------------
(* EndpointSlot on small sets.  Two sessions alternate as the writer; one  *)
(* audio thread and one STATS thread read.  Three addresses let a freed    *)
(* one be reused while an old pointer is still around, and an epoch that   *)
(* wraps at 4 lets a stale epoch look current again.                       *)
EXTENDS EndpointSlot

CONSTANTS s1, s2, r1, d1, e1, e2, e3
=============================================================================
