------------------------- MODULE MCKeywordOpts -------------------------
(***************************************************************************)
(* KeywordOpts for TLC: for every key, no value, bytes that are no text,   *)
(* and text that no enum has.                                              *)
(***************************************************************************)
EXTENDS KeywordOpts

MCWrong == {"nil", "bytes", "text"}
==========================================================================
