--------------------------- MODULE MCAiSandboxJobs ---------------------------
EXTENDS AiSandboxJobs
=============================================================================
