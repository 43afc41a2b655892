------------------------- MODULE MCTransferManager -------------------------
(***************************************************************************)
(* TransferManager for TLC: the other clients are interchangeable.         *)
(***************************************************************************)
EXTENDS TransferManager, TLC

OtherClients == Permutations(Others)
=============================================================================
