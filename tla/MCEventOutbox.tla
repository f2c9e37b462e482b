---------------------------- MODULE MCEventOutbox ----------------------------
\* Model values for EventOutbox: one message, because jobs of different
\* messages meet only in the pool of tasks; two nodes whose recoveries may read
\* one job before either writes it; three tasks, two attempts, two losses and
\* two slow jobs, so that a job is doubted, lost and worked on twice at once.
EXTENDS EventOutbox
=============================================================================
