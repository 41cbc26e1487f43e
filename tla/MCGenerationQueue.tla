------------------------- MODULE MCGenerationQueue -------------------------
(* Small instances of GenerationQueue for TLC.                             *)
EXTENDS GenerationQueue, TLC
=============================================================================
