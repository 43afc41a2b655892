--------------------------- MODULE MCCommandQueue ---------------------------
(***************************************************************************)
(* CommandQueue for TLC, and the rounding of the capacity on which NodeOf  *)
(* rests: a mask stands for % only when the capacity is a power of two.    *)
(***************************************************************************)
EXTENDS CommandQueue, FiniteSetsExt, Bitwise

\* The constructor's loop: the bits below the highest of capacity - 1 are set.
Rounded(capacity) ==
    LET mask[i \in 0 .. 6] ==
          IF i = 0 THEN capacity - 1
          ELSE mask[i - 1] | shiftR(mask[i - 1], 2 ^ (i - 1))
    IN  mask[6] + 1

\* Every capacity asked for is rounded to the least power of two that holds it;
\* both queues of the client, which ask for six (config.h:15 and 24), get eight.
ASSUME RoundedIsPower ==
    \A c \in 1 .. 64 : Rounded(c) = Min({n \in {2 ^ k : k \in 0 .. 6} : n >= c})

\* The mask of such a capacity is the remainder.
ASSUME MaskIsNodeOf ==
    \A k \in 0 .. 4 : \A n \in 0 .. 40 : (n & (2 ^ k - 1)) = n % 2 ^ k
=============================================================================
