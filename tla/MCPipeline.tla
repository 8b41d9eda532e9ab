----------------------------- MODULE MCPipeline -----------------------------
EXTENDS DfirPipeline
=============================================================================
