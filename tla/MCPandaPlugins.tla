--------------------------- MODULE MCPandaPlugins ---------------------------
EXTENDS PandaPlugins

\* Three plugins; p and q share a callback type, r has one of its own.
Shared == [x \in Plugins |-> IF x = "r" THEN {"exec"} ELSE {"block"}]
=============================================================================
