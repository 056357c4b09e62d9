------------------------ MODULE MCSessionRegistry ------------------------
(***************************************************************************)
(* SessionRegistry for TLC: threads, incarnations and zids are symmetric   *)
(* in the runs that check safety only.                                     *)
(***************************************************************************)
EXTENDS SessionRegistry, TLC

Symmetry == Permutations(Proc) \cup Permutations(Sess) \cup Permutations(Zid)
==========================================================================
