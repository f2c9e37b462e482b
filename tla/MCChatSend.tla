----------------------------- MODULE MCChatSend -----------------------------
\* Model values for ChatSend: three calls of two users, one client id that
\* both users may choose, so that two calls can be copies of one send while
\* the third takes the same id for another user or sends without one.
EXTENDS ChatSend
=============================================================================
