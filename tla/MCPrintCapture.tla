--------------------------- MODULE MCPrintCapture ---------------------------
(* Small instances of PrintCapture for TLC.                                *)
EXTENDS PrintCapture, TLC

Symmetry == Permutations(Streams) \cup Permutations(JobIds)
=============================================================================
