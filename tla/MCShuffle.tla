------------------------------ MODULE MCShuffle ------------------------------
(* Two kinds of items, so that the same value may be added twice.          *)
EXTENDS ShuffleHistory

CONSTANTS song, group
=============================================================================
