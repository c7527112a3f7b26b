--------------------------- MODULE MCEsmeSession ---------------------------
(* Model-checking instance of EsmeSession.  The state space is bounded by *)
(* the number of PDUs the SMSC sends and of submit_sm calls made.         *)
EXTENDS EsmeSession
=============================================================================
