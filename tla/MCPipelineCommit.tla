-------------------------- MODULE MCPipelineCommit --------------------------
EXTENDS PipelineCommit, TLC

CONSTANTS draw, dispatch, e1

\* One thread with a rasterizer and a compute pipeline.
OwnerDef == draw :> e1 @@ dispatch :> e1

SymmetryQueue == Permutations(Queue) \cup Permutations(Buffer)
=============================================================================
