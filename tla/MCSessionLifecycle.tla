------------------------- MODULE MCSessionLifecycle -------------------------
(* SessionLifecycle with one PRO stream and one SHARED port (or the PRO    *)
(* input) and one or two sessions, each started up to MaxStarts times in *)
(* total per stream.                                                       *)
EXTENDS SessionLifecycle

CONSTANTS pro, port, input, a, b
=============================================================================
