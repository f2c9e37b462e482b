----------------------------- MODULE MCReadState -----------------------------
\* Model values for ReadState: two members, two connections and three messages
\* are enough for two jobs to overtake each other, for a mark_read to wait on a
\* row, and for two senders to hold each other's rows.
EXTENDS ReadState, TLC

\* Members and connections are interchangeable.
Symmetry == Permutations(Users) \cup Permutations(Tx)
=============================================================================
