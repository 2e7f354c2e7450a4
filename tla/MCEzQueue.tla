----------------------------- MODULE MCEzQueue ------------------------------
(* EzQueue for TLC: the constants are in ezqueue.cfg.                       *)
EXTENDS EzQueue
=============================================================================
