------------------------------ MODULE ChatSend ------------------------------
(***************************************************************************)
(* Persisting a chat message in one conversation: the claim of the next    *)
(* conversation_seq, deduplication by client_message_id, and the row lock  *)
(* of the conversation, under PostgreSQL READ COMMITTED.                   *)
(*                                                                         *)
(*   text path    persist_text_message: SELECT by client id, then          *)
(*                UPDATE ... RETURNING (takes the row lock), INSERT, COMMIT *)
(*   locked path  file, task share and system messages, and forwards of a  *)
(*                source message: SELECT ... FOR UPDATE first, everything   *)
(*                else under it                                             *)
(*                                                                         *)
(* A request is one call of the service.  A client's retry is another      *)
(* request with the same client id; both may be in progress at once.       *)
(***************************************************************************)
EXTENDS Naturals, FiniteSets, Sequences

CONSTANTS Users, ClientIds, NoClientId,
          Sources,      \* messages that calls may forward
          Requests,     \* calls of the service; its names are the message ids
          NoRequest     \* no call (a free lock, an empty conversation)

ASSUME ConstantsAssumption == /\ NoClientId \notin ClientIds
                              /\ NoRequest \notin Requests
                              /\ Users # {}
                              /\ "text" \notin Sources

VARIABLES
    last_message_seq,   \* chat_conversations.last_message_seq, committed
    last_message_id,    \* chat_conversations.last_message_id, committed
    messages,           \* committed rows of chat_messages
    lock,               \* the call whose transaction holds the row lock
    pc, path,           \* progress and kind of each call
    sender, cid,        \* current_user_id and client_message_id of each call
    claimed,            \* the seq RETURNING gave to the call
    result              \* the message id the call answered with

conversation == <<last_message_seq, last_message_id, messages>>
call         == <<path, sender, cid>>
vars         == <<conversation, lock, pc, call, claimed, result>>

\* What a call wants to send; a forward is named by its source.
Paths == {"text", "locked"} \cup Sources

Row == [id                : Requests,
        sender_user_id    : Users,
        client_message_id : ClientIds \cup {NoClientId},
        conversation_seq  : Nat]

InTransaction == {"claimed", "locked"}
Ended == {"acked", "dedup", "conflict", "rejected", "aborted"}

Init == /\ last_message_seq = 0
        /\ last_message_id = NoRequest
        /\ messages = {}
        /\ lock = NoRequest
        /\ pc = [r \in Requests |-> "idle"]
        /\ path = [r \in Requests |-> "text"]
        /\ sender = [r \in Requests |-> CHOOSE u \in Users : TRUE]
        /\ cid = [r \in Requests |-> NoClientId]
        /\ claimed = [r \in Requests |-> 0]
        /\ result = [r \in Requests |-> NoRequest]

-----------------------------------------------------------------------------
\* Mutant: the dedup SELECT forgets the sender.
SameClientMessageOfAnyone(u, c) ==
    {m \in messages : c # NoClientId /\ m.client_message_id = c}

\* find_existing_client_message: the rows that a client id of a sender names.
SameClientMessage(u, c) ==
    {m \in messages : /\ c # NoClientId
                      /\ m.sender_user_id = u
                      /\ m.client_message_id = c}

\* Mutant: the table has no unique constraint on the client id.
ViolatesSeqOnly(r, seq) == \E m \in messages : m.conversation_seq = seq

\* The rows the unique constraints of chat_messages hold against a new row.
Violates(r, seq) ==
    \/ SameClientMessage(sender[r], cid[r]) # {}
    \/ \E m \in messages : m.conversation_seq = seq

\* Mutant: the tip is claimed without touching last_message_id.
InsertWithoutTouch(r, seq) ==
    /\ messages' = messages \cup
           {[id |-> r, sender_user_id |-> sender[r],
             client_message_id |-> cid[r], conversation_seq |-> seq]}
    /\ last_message_seq' = seq
    /\ UNCHANGED last_message_id
    /\ lock' = NoRequest
    /\ pc' = [pc EXCEPT ![r] = "acked"]
    /\ result' = [result EXCEPT ![r] = r]

\* INSERT the row, move the conversation's tip to it, COMMIT, drop the lock.
InsertAndCommit(r, seq) ==
    /\ messages' = messages \cup
           {[id |-> r, sender_user_id |-> sender[r],
             client_message_id |-> cid[r], conversation_seq |-> seq]}
    /\ last_message_seq' = seq
    /\ last_message_id' = r
    /\ lock' = NoRequest
    /\ pc' = [pc EXCEPT ![r] = "acked"]
    /\ result' = [result EXCEPT ![r] = r]

\* Mutant: the claim is committed on its own and survives the rollback.
RollbackKeepsClaim(r, outcome) ==
    /\ lock' = IF lock = r THEN NoRequest ELSE lock
    /\ pc' = [pc EXCEPT ![r] = outcome]
    /\ last_message_seq' = IF pc[r] = "claimed" THEN claimed[r] ELSE last_message_seq
    /\ UNCHANGED <<last_message_id, messages, call, claimed, result>>

\* Mutant: a failed call leaves its transaction open.
RollbackForgotten(r, outcome) ==
    /\ pc' = [pc EXCEPT ![r] = outcome]
    /\ UNCHANGED <<conversation, lock, call, claimed, result>>

\* The transaction ends without a write; the database releases its lock.
Rollback(r, outcome) ==
    /\ lock' = IF lock = r THEN NoRequest ELSE lock
    /\ pc' = [pc EXCEPT ![r] = outcome]
    /\ UNCHANGED <<conversation, call, claimed, result>>

\* Mutant: the answer carries the row instead of its id.
AnswerWithRow(r) ==
    \E m \in SameClientMessage(sender[r], cid[r]) :
        /\ result' = [result EXCEPT ![r] = m]
        /\ lock' = IF lock = r THEN NoRequest ELSE lock
        /\ pc' = [pc EXCEPT ![r] = "dedup"]
        /\ UNCHANGED <<conversation, call, claimed>>

\* Answer with the message that already carries the client id.
AnswerExisting(r) ==
    \E m \in SameClientMessage(sender[r], cid[r]) :
        /\ result' = [result EXCEPT ![r] = m.id]
        /\ lock' = IF lock = r THEN NoRequest ELSE lock
        /\ pc' = [pc EXCEPT ![r] = "dedup"]
        /\ UNCHANGED <<conversation, call, claimed>>

-----------------------------------------------------------------------------
\* A call arrives and passes, or fails, the membership and quote checks.
Begin(r) ==
    /\ pc[r] = "idle"
    /\ \E p \in Paths, u \in Users,
          c \in ClientIds \cup {NoClientId}, outcome \in {"started", "rejected"} :
        /\ path' = [path EXCEPT ![r] = p]
        /\ sender' = [sender EXCEPT ![r] = u]
        /\ cid' = [cid EXCEPT ![r] = c]
        /\ pc' = [pc EXCEPT ![r] = outcome]
    /\ UNCHANGED <<conversation, lock, claimed, result>>

\* Mutant: the text path relies on the unique constraint alone.
TextLookupSkipped(r) ==
    /\ pc[r] = "started" /\ path[r] = "text"
    /\ pc' = [pc EXCEPT ![r] = "missed"]
    /\ UNCHANGED <<conversation, lock, call, claimed, result>>

\* Text path: the dedup SELECT, before the lock is taken.
TextLookup(r) ==
    /\ pc[r] = "started" /\ path[r] = "text"
    /\ \/ AnswerExisting(r)
       \/ /\ SameClientMessage(sender[r], cid[r]) = {}
          /\ pc' = [pc EXCEPT ![r] = "missed"]
          /\ UNCHANGED <<conversation, lock, call, claimed, result>>

\* Text path: UPDATE ... SET last_message_seq + 1 RETURNING waits for the row.
TextClaim(r) ==
    /\ pc[r] = "missed"
    /\ lock = NoRequest
    /\ lock' = r
    /\ claimed' = [claimed EXCEPT ![r] = last_message_seq + 1]
    /\ pc' = [pc EXCEPT ![r] = "claimed"]
    /\ UNCHANGED <<conversation, call, result>>

\* Text path: the INSERT raises IntegrityError outside the handler of the
\* COMMIT, so a clash ends the call with an error and rolls the claim back.
TextInsert(r) ==
    /\ pc[r] = "claimed"
    /\ \/ /\ Violates(r, claimed[r])
          /\ Rollback(r, "conflict")
       \/ /\ ~Violates(r, claimed[r])
          /\ InsertAndCommit(r, claimed[r])
          /\ UNCHANGED <<call, claimed>>

\* Locked path: SELECT ... FOR UPDATE with populate_existing.
LockedAcquire(r) ==
    /\ pc[r] = "started" /\ path[r] # "text"
    /\ lock = NoRequest
    /\ lock' = r
    /\ pc' = [pc EXCEPT ![r] = "locked"]
    /\ UNCHANGED <<conversation, call, claimed, result>>

\* A forward takes a message for its own only if both forward one source.
OwnCopy(r, m) == path[r] \in Sources => path[m.id] = path[r]

\* Locked path: dedup SELECT and, when it misses, the remaining checks (quote,
\* task) and the INSERT, all under the lock.
LockedPersist(r) ==
    /\ pc[r] = "locked"
    /\ \/ /\ \A m \in SameClientMessage(sender[r], cid[r]) : OwnCopy(r, m)
          /\ AnswerExisting(r)
       \/ /\ \A m \in SameClientMessage(sender[r], cid[r]) : ~OwnCopy(r, m)
          /\ Rollback(r, "rejected")   \* another message's id, or a failed check
       \/ /\ SameClientMessage(sender[r], cid[r]) = {}
          /\ IF Violates(r, last_message_seq + 1)
             THEN Rollback(r, "conflict")
             ELSE /\ InsertAndCommit(r, last_message_seq + 1)
                  /\ UNCHANGED <<call, claimed>>

\* The process dies, the connection drops or a statement fails.
Abort(r) ==
    /\ pc[r] \in {"started", "missed"} \cup InTransaction
    /\ Rollback(r, "aborted")

Work(r) == TextLookup(r) \/ TextClaim(r) \/ TextInsert(r)
              \/ LockedAcquire(r) \/ LockedPersist(r)

Next == \E r \in Requests : Begin(r) \/ Work(r) \/ Abort(r)

Fairness == \A r \in Requests : WF_vars(Work(r))

Spec == Init /\ [][Next]_vars
FairSpec == Spec /\ Fairness

-----------------------------------------------------------------------------
\* The committed rows, read in the order of conversation_seq.
RowAt(s) == CHOOSE m \in messages : m.conversation_seq = s

LogOfRows == [s \in 1..last_message_seq |->
                 [sender_user_id    |-> RowAt(s).sender_user_id,
                  client_message_id |-> RowAt(s).client_message_id]]

Log == INSTANCE ConversationLog WITH log <- LogOfRows

TypeOK == /\ last_message_seq \in Nat
          /\ last_message_id \in Requests \cup {NoRequest}
          /\ messages \subseteq Row
          /\ lock \in Requests \cup {NoRequest}
          /\ pc \in [Requests -> {"idle", "started", "missed"}
                                  \cup InTransaction \cup Ended]
          /\ path \in [Requests -> Paths]
          /\ sender \in [Requests -> Users]
          /\ cid \in [Requests -> ClientIds \cup {NoClientId}]
          /\ claimed \in [Requests -> Nat]
          /\ result \in [Requests -> Requests \cup {NoRequest}]

\* Numbers have no gap and no repeat, whichever path claimed them and however
\* many claims were rolled back: readers page and count unread by them.
SeqDense ==
    /\ \A s \in 1..last_message_seq : \E m \in messages : m.conversation_seq = s
    /\ \A m \in messages : m.conversation_seq \in 1..last_message_seq
    /\ \A m, n \in messages : m.conversation_seq = n.conversation_seq => m = n

\* The tip columns, written by four code paths, always describe one and the
\* same row: the newest message of the conversation.
TipIsLastMessage ==
    \/ messages = {} /\ last_message_seq = 0 /\ last_message_id = NoRequest
    \/ \E m \in messages : /\ m.id = last_message_id
                           /\ m.conversation_seq = last_message_seq

\* Two copies of one send, on any paths and in any overlap, leave one message.
OneMessagePerClientId ==
    \A m, n \in messages :
        /\ m.client_message_id # NoClientId
        /\ m.client_message_id = n.client_message_id
        /\ m.sender_user_id = n.sender_user_id
        => m = n

\* An answered call names a committed message of its own sender that carries
\* its own client id: nothing acknowledged is lost to a rollback, and a dedup
\* hit never hands out somebody else's message.
AnswersAreDurable ==
    \A r \in Requests : pc[r] \in {"acked", "dedup"} =>
        \E m \in messages : /\ m.id = result[r]
                            /\ m.sender_user_id = sender[r]
                            /\ m.client_message_id = cid[r]

\* A call that failed on a unique constraint lost to a committed copy of the
\* same send, never to another message's sequence number, and only the text
\* path can lose this way.
ConflictHasWinner ==
    \A r \in Requests : pc[r] = "conflict" =>
        /\ path[r] = "text"
        /\ SameClientMessage(sender[r], cid[r]) # {}

\* The rows implement the append-only log of the conversation.
ImplementsLog == Log!Spec

\* Every call ends: the row lock is never left behind by a finished or dead
\* transaction.
CallsEnd == \A r \in Requests : pc[r] = "started" ~> pc[r] \in Ended

\* A retry that starts after its first copy is committed is answered with
\* that copy, unless its own transaction dies.
LateRetryIsAnswered ==
    \A r \in Requests :
        (/\ pc[r] = "started"
         /\ \E m \in SameClientMessage(sender[r], cid[r]) : OwnCopy(r, m))
            ~> pc[r] \in {"dedup", "aborted"}

\* "a repeat with the same client_message_id returns the message already
\* created (200), and neither creates a duplicate nor gives an error".
RepeatNeverFails == \A r \in Requests : pc[r] # "conflict"
=============================================================================
