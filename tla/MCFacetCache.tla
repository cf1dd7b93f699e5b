---------------------------- MODULE MCFacetCache ----------------------------
(* More locale names than the cache holds, and one name of messages. *)
EXTENDS FacetCache
=============================================================================
