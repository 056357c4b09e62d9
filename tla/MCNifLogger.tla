--------------------------- MODULE MCNifLogger --------------------------
(***************************************************************************)
(* NifLogger for TLC.  "zenohex_nif" is the default target; "zenoh" is a   *)
(* prefix of it as well.                                                   *)
(***************************************************************************)
EXTENDS NifLogger, TLC

CONSTANTS zenoh, zenohex_nif

MCOrigin == {zenoh, zenohex_nif}
MCTargets == {{zenohex_nif}, MCOrigin}
Symmetry == Permutations(Actor)
==========================================================================
