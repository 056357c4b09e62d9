-------------------------- MODULE MCQueryReply --------------------------
(***************************************************************************)
(* QueryReply for TLC: queries and callers are symmetric in the run that   *)
(* checks safety only.                                                     *)
(***************************************************************************)
EXTENDS QueryReply, TLC

Symmetry == Permutations(Query) \cup Permutations(Caller)
==========================================================================
