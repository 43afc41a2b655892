---------------------------- MODULE MCFileStream ----------------------------
(***************************************************************************)
(* FileStream for TLC: a file of a full buffer and a bit more, and one of  *)
(* a byte.                                                                 *)
(***************************************************************************)
EXTENDS FileStream

MCFileSize == <<4, 1>>
=============================================================================
