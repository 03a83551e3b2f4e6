--------------------------- MODULE MCPipelineRuns ---------------------------
EXTENDS PipelineRuns

CONSTANTS r1, r2, r3, w1, w2
=============================================================================
