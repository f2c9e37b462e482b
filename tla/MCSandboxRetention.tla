------------------------- MODULE MCSandboxRetention -------------------------
EXTENDS SandboxRetention
=============================================================================
