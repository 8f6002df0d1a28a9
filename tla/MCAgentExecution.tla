--------------------------- MODULE MCAgentExecution ---------------------------
EXTENDS AgentExecution

\* The base content, on which the commands fail, a good change, and one that
\* passes them but leaves the allowed paths.
MCTrees == {"base", "good", "astray"}
MCWithin == {"base", "good"}
MCPassing == {"good", "astray"}
=============================================================================
