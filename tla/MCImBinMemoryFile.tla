------------------------- MODULE MCImBinMemoryFile --------------------------
(* A block of one or two bytes that grows by half of itself, two byte values *)
EXTENDS ImBinMemoryFile

MCInitSizes == {1, 2}
=============================================================================
