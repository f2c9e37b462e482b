-------------------------- MODULE ScheduledMessages --------------------------
(***************************************************************************)
(* "Send later" messages: rows of chat_scheduled_messages that the sender   *)
(* creates, edits and cancels while dispatchers of several processes claim *)
(* due rows, send them through the ordinary chat path under the stable      *)
(* client id scheduled:<id>, and record the outcome.                        *)
(*                                                                         *)
(* The chat itself is the append-only ConversationLog that ChatSend         *)
(* implements: one client id names at most one entry.  Every row is due;    *)
(* scheduled_for and the retry delay only decide when a claim happens.      *)
(***************************************************************************)
EXTENDS Naturals, Sequences

CONSTANTS Rows,         \* scheduled messages
          Workers,      \* dispatcher loops, one per chat process
          Sender, NoRow,
          MaxAttempts,  \* MAX_ATTEMPTS
          MaxEdits,     \* bound: edits by the sender
          MaxLosses,    \* bound: workers that die or lose their last write
          MaxSlow       \* bound: sends that outlast SENDING_TIMEOUT_SEC

ASSUME ConstantsAssumption == /\ NoRow \notin Rows
                              /\ MaxAttempts \in Nat \ {0}
                              /\ {MaxEdits, MaxLosses, MaxSlow} \subseteq Nat

VARIABLES
    status, attempt_count,  \* columns of the rows
    body,                   \* version of each row's text, 0 before it is created
    editing,                \* status an update() read, "none" outside one
    worker,                 \* what each dispatcher is doing
    log, text,              \* the chat: its entries, the version each row's one shows
    doubtful,               \* history: rows recovered, or whose COMMIT answer
                            \* was lost, so that a send may repeat
    edits, losses, slow     \* used-up bounds

row  == <<status, attempt_count, body>>
chat == <<log, text>>
used == <<edits, losses, slow>>
vars == <<row, editing, worker, chat, doubtful, used>>

Chat == INSTANCE ConversationLog
            WITH Users <- {Sender}, ClientIds <- Rows, NoClientId <- NoRow

Editable == {"scheduled", "failed"}
Settled == {"sent", "cancelled", "failed"}

Entry(i) == [sender_user_id |-> Sender, client_message_id |-> i]
InChat(i) == \E n \in 1..Len(log) : log[n] = Entry(i)

Idle == [row |-> NoRow, step |-> "idle", body |-> 0, attempt |-> 0]

Init == /\ status = [i \in Rows |-> "none"]
        /\ attempt_count = [i \in Rows |-> 0]
        /\ body = [i \in Rows |-> 0]
        /\ editing = [i \in Rows |-> "none"]
        /\ worker = [w \in Workers |-> Idle]
        /\ log = << >>
        /\ text = [i \in Rows |-> 0]
        /\ doubtful = {}
        /\ edits = 0 /\ losses = 0 /\ slow = 0

-----------------------------------------------------------------------------
\* The sender

Create(i) ==
    /\ status[i] = "none"
    /\ status' = [status EXCEPT ![i] = "scheduled"]
    /\ body' = [body EXCEPT ![i] = 1]
    /\ UNCHANGED <<attempt_count, editing, worker, chat, doubtful, used>>

\* Mutant: update() reads the row without checking its status.
UpdateReadUnchecked(i) ==
    /\ edits < MaxEdits
    /\ editing[i] = "none"
    /\ editing' = [editing EXCEPT ![i] = status[i]]
    /\ edits' = edits + 1
    /\ UNCHANGED <<row, worker, chat, doubtful, losses, slow>>

\* update(): the row is read and its status checked ...
UpdateRead(i) ==
    /\ edits < MaxEdits
    /\ editing[i] = "none"
    /\ status[i] \in Editable
    /\ editing' = [editing EXCEPT ![i] = status[i]]
    /\ edits' = edits + 1
    /\ UNCHANGED <<row, worker, chat, doubtful, losses, slow>>

\* Mutant: the UPDATE trusts the status that was read.
UpdateWriteUnconditional(i) ==
    /\ editing[i] # "none"
    /\ editing' = [editing EXCEPT ![i] = "none"]
    /\ body' = [body EXCEPT ![i] = @ + 1]
    /\ UNCHANGED <<status, attempt_count, worker, chat, doubtful, used>>

\* ... then written by an UPDATE that checks it again; a row read as failed is
\* put back in the queue.
UpdateWrite(i) ==
    /\ editing[i] # "none"
    /\ editing' = [editing EXCEPT ![i] = "none"]
    /\ IF status[i] \notin Editable THEN UNCHANGED row
       ELSE /\ body' = [body EXCEPT ![i] = @ + 1]
            /\ IF editing[i] = "failed"
               THEN /\ status' = [status EXCEPT ![i] = "scheduled"]
                    /\ attempt_count' = [attempt_count EXCEPT ![i] = 0]
               ELSE UNCHANGED <<status, attempt_count>>
    /\ UNCHANGED <<worker, chat, doubtful, used>>

\* cancel(): one conditional UPDATE.
Cancel(i) ==
    /\ status[i] \in Editable
    /\ status' = [status EXCEPT ![i] = "cancelled"]
    /\ UNCHANGED <<attempt_count, body, editing, worker, chat, doubtful, used>>

-----------------------------------------------------------------------------
\* The dispatchers

\* _claim: a conditional UPDATE, then the row as it is.
Claim(w, i) ==
    /\ worker[w] = Idle
    /\ status[i] = "scheduled"
    /\ status' = [status EXCEPT ![i] = "sending"]
    /\ attempt_count' = [attempt_count EXCEPT ![i] = @ + 1]
    /\ worker' = [worker EXCEPT ![w] = [row |-> i, step |-> "claimed", body |-> body[i],
                                        attempt |-> attempt_count[i] + 1]]
    /\ UNCHANGED <<body, editing, chat, doubtful, used>>

Step(w, s) == worker' = [worker EXCEPT ![w].step = s]

\* send_message: the lookup by client id answers with an earlier send's message.
SendLookup(w) ==
    /\ worker[w].step = "claimed"
    /\ Step(w, IF InChat(worker[w].row) THEN "delivered" ELSE "missed")
    /\ UNCHANGED <<row, editing, chat, doubtful, used>>

\* Mutant: each attempt makes up a client id of its own.
SendInsertAgain(w) ==
    LET i == worker[w].row IN
    /\ worker[w].step = "missed"
    /\ log' = Append(log, Entry(i))
    /\ text' = [text EXCEPT ![i] = worker[w].body]
    /\ Step(w, "delivered")
    /\ UNCHANGED <<row, editing, doubtful, used>>

\* send_message: INSERT and COMMIT, whose answer may be lost; a duplicate
\* raises IntegrityError, an error like any other.
SendInsert(w) ==
    LET i == worker[w].row IN
    /\ worker[w].step = "missed"
    /\ \/ /\ Chat!Fresh(Entry(i))
          /\ Chat!AppendEntry(Entry(i))
          /\ text' = [text EXCEPT ![i] = worker[w].body]
          /\ \/ Step(w, "delivered") /\ UNCHANGED doubtful
             \/ Step(w, "error") /\ doubtful' = doubtful \cup {i}
       \/ /\ ~Chat!Fresh(Entry(i))
          /\ Step(w, "error")
          /\ UNCHANGED <<chat, doubtful>>
    /\ UNCHANGED <<row, editing, used>>

\* send_message fails before its COMMIT, for good (no member any more, the
\* conversation is gone) or for now.
SendError(w) ==
    /\ worker[w].step \in {"claimed", "missed"}
    /\ Step(w, "error") \/ Step(w, "refused")
    /\ UNCHANGED <<row, editing, chat, doubtful, used>>

\* _mark_sent: by id alone.
MarkSent(w) ==
    /\ worker[w].step = "delivered"
    /\ status' = [status EXCEPT ![worker[w].row] = "sent"]
    /\ worker' = [worker EXCEPT ![w] = Idle]
    /\ UNCHANGED <<attempt_count, body, editing, chat, doubtful, used>>

\* Mutant: any error of a send is recorded as a success.
MarkFailedAsSent(w) ==
    /\ worker[w].step \in {"error", "refused"}
    /\ status' = [status EXCEPT ![worker[w].row] = "sent"]
    /\ worker' = [worker EXCEPT ![w] = Idle]
    /\ UNCHANGED <<attempt_count, body, editing, chat, doubtful, used>>

\* _mark_failed: by id alone, the attempt number being the claim's.
MarkFailed(w) ==
    LET give_up == \/ worker[w].step = "refused"
                   \/ worker[w].attempt >= MaxAttempts
    IN
    /\ worker[w].step \in {"error", "refused"}
    /\ status' = [status EXCEPT ![worker[w].row] =
                     IF give_up THEN "failed" ELSE "scheduled"]
    /\ worker' = [worker EXCEPT ![w] = Idle]
    /\ UNCHANGED <<attempt_count, body, editing, chat, doubtful, used>>

\* The process dies, or _mark_sent or _mark_failed itself raises: the loop goes
\* on without having written the outcome.
Lose(w) ==
    /\ losses < MaxLosses
    /\ worker[w] # Idle
    /\ worker' = [worker EXCEPT ![w] = Idle]
    /\ losses' = losses + 1
    /\ UNCHANGED <<row, editing, chat, doubtful, edits, slow>>

InProgress(i) == \E w \in Workers : worker[w].row = i

\* Mutant: a row that used up its attempts is not recovered.
RecoverStuckOnce(i) ==
    /\ status[i] = "sending"
    /\ attempt_count[i] < MaxAttempts
    /\ \/ ~InProgress(i) /\ UNCHANGED slow
       \/ InProgress(i) /\ slow < MaxSlow /\ slow' = slow + 1
    /\ status' = [status EXCEPT ![i] = "scheduled"]
    /\ doubtful' = doubtful \cup {i}
    /\ UNCHANGED <<attempt_count, body, editing, worker, chat, edits, losses>>

\* recover_stuck: the row has been 'sending' for SENDING_TIMEOUT_SEC; nothing
\* tells whether its worker is dead or slow.
RecoverStuck(i) ==
    /\ status[i] = "sending"
    /\ \/ ~InProgress(i) /\ UNCHANGED slow
       \/ InProgress(i) /\ slow < MaxSlow /\ slow' = slow + 1
    /\ status' = [status EXCEPT ![i] = "scheduled"]
    /\ doubtful' = doubtful \cup {i}
    /\ UNCHANGED <<attempt_count, body, editing, worker, chat, edits, losses>>

User(i) == Create(i) \/ UpdateRead(i) \/ UpdateWrite(i) \/ Cancel(i)

Dispatch(w) == SendLookup(w) \/ SendInsert(w) \/ SendError(w)
                  \/ MarkSent(w) \/ MarkFailed(w)

Next == \/ \E i \in Rows : User(i) \/ RecoverStuck(i)
        \/ \E w \in Workers : \/ \E i \in Rows : Claim(w, i)
                              \/ Dispatch(w)
                              \/ Lose(w)

Fairness == /\ \A i \in Rows : /\ WF_vars(\E w \in Workers : Claim(w, i))
                               /\ WF_vars(RecoverStuck(i) /\ ~InProgress(i))
            /\ \A w \in Workers : WF_vars(Dispatch(w))

Spec == Init /\ [][Next]_vars
FairSpec == Spec /\ Fairness

-----------------------------------------------------------------------------
Statuses == {"none", "scheduled", "sending"} \cup Settled

Worker == [row : Rows \cup {NoRow},
           step : {"idle", "claimed", "missed", "delivered", "error", "refused"},
           body : Nat,
           attempt : Nat]

TypeOK == /\ status \in [Rows -> Statuses]
          /\ attempt_count \in [Rows -> Nat]
          /\ body \in [Rows -> Nat]
          /\ editing \in [Rows -> Editable \cup {"none"}]
          /\ worker \in [Workers -> Worker]
          /\ log \in Seq(Chat!Entry)
          /\ text \in [Rows -> Nat]
          /\ doubtful \subseteq Rows
          /\ {edits, losses, slow} \subseteq Nat

\* Two dispatchers, a recovery and any crash between the send and its record
\* leave one message of a row in the chat.
NeverDuplicated ==
    \A m, n \in 1..Len(log) : log[m] = log[n] => m = n

\* A row that says sent has its message in the chat.
SentIsInChat == \A i \in Rows : status[i] = "sent" => InChat(i)

\* As long as a row was never recovered and no COMMIT answer was lost, what its
\* sender decided holds: cancelled means not in the chat, sent means sent with
\* the last saved text.
SenderDecides ==
    \A i \in Rows \ doubtful :
        /\ status[i] = "cancelled" => ~InChat(i)
        /\ status[i] = "sent" => text[i] = body[i]

\* Every row settles for good once dispatchers stop failing: neither a crash
\* between two steps nor a late worker leaves one 'sending' or in the queue.
EveryRowSettles ==
    \A i \in Rows : <>[](status[i] \in Settled \cup {"none"})

\* "it must never turn a delivered message into "failed" or a retry".
DeliveredStaysSent ==
    [][\A i \in Rows : status[i] = "sent" => status'[i] = "sent"]_vars
=============================================================================
