---------------------------- MODULE MCScanTasks -----------------------------
EXTENDS ScanTasks
=============================================================================
