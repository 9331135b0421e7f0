---------------------------- MODULE MCBroadcast ----------------------------
(* A campaign to two leads for TLC.                                        *)
EXTENDS Broadcast

CONSTANTS lea, leo, w1, w2, first, second
=============================================================================
