----------------------------- MODULE MCQsServer -----------------------------
(***************************************************************************)
(* QsServer for TLC: the session keys are interchangeable.                 *)
(***************************************************************************)
EXTENDS QsServer

Keys == Permutations(SessionNames)
=============================================================================
