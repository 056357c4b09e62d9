------------------------ MODULE MCOneShotHandles ------------------------
(***************************************************************************)
(* OneShotHandles for TLC: a token on a session, a listener on a           *)
(* publisher, a scout.                                                     *)
(***************************************************************************)
EXTENDS OneShotHandles, TLC

CONSTANTS token, listener, scout, session, publisher

MCKindOf == (token :> "token") @@ (listener :> "listener") @@ (scout :> "scout")
MCParentOf == (token :> session) @@ (listener :> publisher) @@ (scout :> None)
Symmetry == Permutations(Caller)
==========================================================================
