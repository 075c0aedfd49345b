------------------------- MODULE MCBatchedPipeline -------------------------
(* Model-checking instances of BatchedPipeline.                            *)
EXTENDS BatchedPipeline

=============================================================================
