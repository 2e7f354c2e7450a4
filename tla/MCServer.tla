------------------------------ MODULE MCServer ------------------------------
(* Server for TLC: the constants are in server.cfg, server_grow.cfg and     *)
(* server_usr1.cfg.                                                         *)
EXTENDS Server

\* The loop of ezarr_compact, which moves items inside the buffer it is reading,
\* keeps exactly the items in use and their order: checked for every buffer of
\* up to five slots, and for loops that stop before the end of the buffer.
\* (CompactLoopIsCompacted of ConnMgrProofs is the same for buffers of any size.)
ASSUME LoopCompacts ==
  \A size \in 0..5 : \A buf \in [0..(size - 1) -> 0..3] : \A max \in 0..size :
    CompactLoop(buf, max, 0) = Compacted(buf, max, 0)
=============================================================================
