----------------------------- MODULE MCServent -----------------------------
(* Who dials whom, on two and three hosts. *)
EXTENDS Servent

CONSTANTS A, B, C

Pair  == {<<A, B>>}                 \* one peer dials the other
Star  == {<<A, B>>, <<C, B>>}       \* two peers dial the same host
Chain == {<<A, B>>, <<B, C>>}       \* the host in the middle dials and is dialled
=============================================================================
