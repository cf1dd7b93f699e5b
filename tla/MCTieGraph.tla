----------------------------- MODULE MCTieGraph -----------------------------
(* Three output streams: the shortest chain the two pointers walk apart on. *)
EXTENDS TieGraph
=============================================================================
