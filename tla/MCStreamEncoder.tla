--------------------------- MODULE MCStreamEncoder ---------------------------
(* Instances of StreamEncoder for TLC.  Sizes are scaled down: a block of two *)
(* bytes, a window of a few blocks, an index space of a few windows.          *)
EXTENDS StreamEncoder

NoPledge == {None}
MCPledges == {None, 3}
=============================================================================
