---------------------------- MODULE MCRingQueue ----------------------------
(***************************************************************************)
(* RingQueue on small rings, and the fact that lets it write Succ for the  *)
(* mask of queue.c:61 and 87.                                              *)
(***************************************************************************)
EXTENDS RingQueue, Bitwise

\* The mask of a power of two is the wrap: every length up to the 16 slots of
\* client.c:40, every index.
ASSUME MaskIsWrap ==
    \A len \in {1, 2, 4, 8, 16} : \A i \in 0 .. len - 1 :
        ((i + 1) & (len - 1)) = (IF i + 1 = len THEN 0 ELSE i + 1)
=============================================================================
