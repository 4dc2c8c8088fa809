----------------------------- MODULE MCGeneration -----------------------------
(***************************************************************************)
(* An instance of Generation for TLC.  The store answers a new conversation *)
(* or one with an exchange in it.                                           *)
(***************************************************************************)
EXTENDS Generation

MCStored == {<<>>, <<"user", "assistant">>}
===============================================================================
