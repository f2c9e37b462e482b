--------------------------- MODULE ConversationLog ---------------------------
(***************************************************************************)
(* What the chat promises about one conversation: an append-only log.  The *)
(* message with conversation_seq = i is entry i, no entry is ever changed, *)
(* removed or inserted in the middle, and one client_message_id of one     *)
(* sender names at most one entry.                                         *)
(***************************************************************************)
EXTENDS Naturals, Sequences

CONSTANTS Users,        \* chat users
          ClientIds,    \* client_message_id values chosen by the clients
          NoClientId    \* client_message_id IS NULL

VARIABLE log

Entry == [sender_user_id    : Users,
          client_message_id : ClientIds \cup {NoClientId}]

\* A NULL client id never clashes; any other names one entry of its sender.
Fresh(e) == \/ e.client_message_id = NoClientId
            \/ \A i \in 1..Len(log) : log[i] # e

AppendEntry(e) == /\ Fresh(e)
                  /\ log' = Append(log, e)

Init == log = << >>

Next == \E e \in Entry : AppendEntry(e)

Spec == Init /\ [][Next]_log
=============================================================================
