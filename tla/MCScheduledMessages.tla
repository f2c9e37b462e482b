------------------------- MODULE MCScheduledMessages -------------------------
\* Model values for ScheduledMessages: two dispatchers that may claim one row
\* in turn, two attempts, and one edit, one loss and one slow send, so that
\* every pair of them can meet.
EXTENDS ScheduledMessages
=============================================================================
