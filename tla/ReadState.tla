------------------------------ MODULE ReadState ------------------------------
(***************************************************************************)
(* Read cursors and unread counters of one conversation: the rows          *)
(* chat_conversation_user_state that four kinds of transaction write.      *)
(*                                                                         *)
(*   text send      commits the message alone; a delivery job, run later   *)
(*                  and possibly more than once, brings the rows up to date *)
(*   delivery job   loads the sender's row, reads the tip, updates the      *)
(*                  recipients, writes the sender's row at COMMIT           *)
(*   locked send    the same writes inside the transaction of the message  *)
(*                  (file, forward, task share, system), unread + 1         *)
(*   mark_read      one conditional UPDATE of the reader's row              *)
(*                                                                         *)
(* PostgreSQL READ COMMITTED: an UPDATE that waited for a row sees the row  *)
(* as its holder left it, but the subqueries of its statement keep the      *)
(* snapshot taken before the wait.  The ORM writes only the attributes      *)
(* that differ from the row as it was loaded.                               *)
(***************************************************************************)
EXTENDS Naturals, Sequences

CONSTANTS Users,        \* members of the conversation
          Tx,           \* database connections that may be in a transaction
          NoTx,         \* no transaction (a free lock)
          NoState,      \* the user has no row yet
          NoUser,       \* an idle connection acts for nobody
          MaxMessages   \* bound on the messages sent

ASSUME ConstantsAssumption == /\ NoTx \notin Tx
                              /\ NoUser \notin Users
                              /\ MaxMessages \in Nat

Row == [last_read_seq : Nat, unread_count : Nat]

ASSUME NoStateAssumption == NoState \notin Row

VARIABLES
    messages,           \* committed messages; position = conversation_seq
    conversation_lock,  \* transaction holding the row of the conversation
    state,              \* committed row of each user
    row_lock,           \* transaction holding the row of each user
    tx,                 \* what each connection is doing
    applied             \* numbers of the text messages whose job committed

vars == <<messages, conversation_lock, state, row_lock, tx, applied>>

tip == Len(messages)    \* chat_conversations.last_message_seq

Fresh == [last_read_seq |-> 0, unread_count |-> 0]

\* A transaction: what it loaded, the tip its statement saw, the new values of
\* the rows it holds (update) and the rows it found missing.
Started(op, phase, u, seq, row, latest) ==
    [op |-> op, phase |-> phase, user_id |-> u, seq |-> seq, loaded |-> row,
     tip_seq |-> latest, update |-> [v \in Users |-> NoState], missing |-> {}]

Idle == Started("idle", "none", NoUser, 0, NoState, 0)

Init == /\ messages = << >>
        /\ conversation_lock = NoTx
        /\ state \in [Users -> {NoState, Fresh}]
        /\ row_lock = [u \in Users |-> NoTx]
        /\ tx = [t \in Tx |-> Idle]
        /\ applied = {}

\* Mutant: the counters are plain differences.
ExcessUnclamped(m, n) == m - n

\* CASE WHEN m > n THEN m - n ELSE 0 END.
Excess(m, n) == IF m > n THEN m - n ELSE 0

-----------------------------------------------------------------------------
\* persist_text_message, as ChatSend details it: the rows are left for later.
TextSend(u) ==
    /\ tip < MaxMessages
    /\ conversation_lock = NoTx
    /\ messages' = Append(messages, [sender_user_id |-> u, kind |-> "text"])
    /\ UNCHANGED <<conversation_lock, state, row_lock, tx, applied>>

\* A delivery job starts, for the first time or again: mark_sender_message_seen
\* loads the sender's row without locking it.
JobLoad(t, s) ==
    /\ tx[t] = Idle
    /\ messages[s].kind = "text"
    /\ LET u == messages[s].sender_user_id IN
       tx' = [tx EXCEPT ![t] = Started("job", "loaded", u, s, state[u], 0)]
    /\ UNCHANGED <<messages, conversation_lock, state, row_lock, applied>>

\* The job reads last_message_seq in a statement of its own.
JobTip(t) ==
    /\ tx[t].op = "job" /\ tx[t].phase = "loaded"
    /\ tx' = [tx EXCEPT ![t].phase = "tip", ![t].tip_seq = tip]
    /\ UNCHANGED <<messages, conversation_lock, state, row_lock, applied>>

\* A file, forward, task share or system message takes the conversation's row
\* and the next number; the sender's row is loaded, not locked.
LockedSend(t, u) ==
    /\ tip < MaxMessages
    /\ tx[t] = Idle
    /\ conversation_lock = NoTx
    /\ conversation_lock' = t
    /\ tx' = [tx EXCEPT ![t] = Started("file", "tip", u, tip + 1, state[u], 0)]
    /\ UNCHANGED <<messages, state, row_lock, applied>>

\* Mutant: a job increments the counters like the locked paths.
RecountByIncrement(t, row) == [row EXCEPT !.unread_count = @ + 1]

\* Mutant: a job counts every message, the ones already read included.
RecountFromTip(t, row) ==
    [row EXCEPT !.unread_count = IF tx[t].op = "file" THEN @ + 1 ELSE tx[t].tip_seq]

\* What the UPDATE of the recipients makes of a row.
Recount(t, row) ==
    [row EXCEPT !.unread_count = IF tx[t].op = "file" THEN @ + 1
                                 ELSE Excess(tx[t].tip_seq, row.last_read_seq)]

Recipients(t) == Users \ {tx[t].user_id}
Existing(t) == {v \in Recipients(t) : state[v] # NoState}

\* SELECT the existing recipients, then one UPDATE that locks their rows.
UpdateRecipients(t) ==
    /\ tx[t].phase = "tip"
    /\ \A v \in Existing(t) : row_lock[v] = NoTx
    /\ row_lock' = [v \in Users |-> IF v \in Existing(t) THEN t ELSE row_lock[v]]
    /\ tx' = [tx EXCEPT ![t].phase = "rows",
                        ![t].missing = Recipients(t) \ Existing(t),
                        ![t].update = [v \in Users |-> IF v \in Existing(t)
                                                       THEN Recount(t, state[v])
                                                       ELSE NoState]]
    /\ UNCHANGED <<messages, conversation_lock, state, applied>>

\* The row of a recipient that had none.
Created(t) ==
    [last_read_seq |-> 0,
     unread_count |-> IF tx[t].op = "file" THEN 1 ELSE tx[t].tip_seq]

\* mark_sender_message_seen assigns both columns; the flush writes a column
\* only if the assigned value differs from the loaded one.
SenderRow(t) ==
    LET row == state[tx[t].user_id]
        loaded == tx[t].loaded
    IN IF loaded = NoState
       THEN [last_read_seq |-> tx[t].seq, unread_count |-> 0]
       ELSE [last_read_seq |-> IF loaded.last_read_seq = tx[t].seq
                               THEN row.last_read_seq ELSE tx[t].seq,
             unread_count |-> IF loaded.unread_count = 0
                              THEN row.unread_count ELSE 0]

ReleasedBy(t) == [v \in Users |-> IF row_lock[v] = t THEN NoTx ELSE row_lock[v]]

\* Flush the sender's row and the missing rows, then COMMIT.  A row somebody
\* else inserted meanwhile violates the unique constraint: see Abort.
Commit(t) ==
    LET u == tx[t].user_id
        missing == tx[t].missing \cup (IF tx[t].loaded = NoState THEN {u} ELSE {})
    IN
    /\ tx[t].phase = "rows"
    /\ \A v \in missing \cup {u} : row_lock[v] = NoTx
    /\ \A v \in missing : state[v] = NoState
    /\ state' = [v \in Users |-> CASE v = u -> SenderRow(t)
                                   [] v \in missing \ {u} -> Created(t)
                                   [] row_lock[v] = t -> tx[t].update[v]
                                   [] OTHER -> state[v]]
    /\ \/ /\ tx[t].op = "file"
          /\ messages' = Append(messages, [sender_user_id |-> u, kind |-> "file"])
          /\ conversation_lock' = NoTx
          /\ UNCHANGED applied
       \/ /\ tx[t].op = "job"
          /\ applied' = applied \cup {tx[t].seq}
          /\ UNCHANGED <<messages, conversation_lock>>
    /\ row_lock' = ReleasedBy(t)
    /\ tx' = [tx EXCEPT ![t] = Idle]

-----------------------------------------------------------------------------
\* mark_read of message m: a missing row is inserted and flushed (the row is
\* then held), and the UPDATE begins with the tip of its snapshot.
ReadStart(t, u, m) ==
    /\ tx[t] = Idle
    /\ \/ state[u] # NoState /\ UNCHANGED row_lock
       \/ /\ state[u] = NoState
          /\ row_lock[u] = NoTx
          /\ row_lock' = [row_lock EXCEPT ![u] = t]
    /\ tx' = [tx EXCEPT ![t] = Started("read", "started", u, m, NoState, tip)]
    /\ UNCHANGED <<messages, conversation_lock, state, applied>>

\* Mutant: the cursor is assigned whatever it was.
AdvancedAlways(row, target, latest) ==
    [last_read_seq |-> target, unread_count |-> Excess(latest, target)]

\* advance_conversation_read_state: the WHERE keeps a cursor that is not behind.
Advanced(row, target, latest) ==
    IF row.last_read_seq < target
    THEN [last_read_seq |-> target, unread_count |-> Excess(latest, target)]
    ELSE row

\* The UPDATE gets the row, after a wait perhaps, and the request commits.
ReadApply(t) ==
    LET u == tx[t].user_id IN
    /\ tx[t].op = "read"
    /\ row_lock[u] \in {NoTx, t}
    /\ state' = [state EXCEPT ![u] = Advanced(IF @ = NoState THEN Fresh ELSE @,
                                              tx[t].seq, tx[t].tip_seq)]
    /\ row_lock' = ReleasedBy(t)
    /\ tx' = [tx EXCEPT ![t] = Idle]
    /\ UNCHANGED <<messages, conversation_lock, applied>>

\* A transaction fails: a unique violation at the flush, a deadlock victim, a
\* lost connection, a dead process.  Its locks go, its writes never were.
Abort(t) ==
    /\ tx[t] # Idle
    /\ row_lock' = ReleasedBy(t)
    /\ conversation_lock' = IF conversation_lock = t THEN NoTx ELSE conversation_lock
    /\ tx' = [tx EXCEPT ![t] = Idle]
    /\ UNCHANGED <<messages, state, applied>>

Next == \/ \E u \in Users : TextSend(u)
        \/ \E t \in Tx :
              \/ \E s \in 1..tip : JobLoad(t, s)
              \/ JobTip(t)
              \/ \E u \in Users : LockedSend(t, u)
              \/ UpdateRecipients(t)
              \/ Commit(t)
              \/ \E u \in Users, m \in 1..tip : ReadStart(t, u, m)
              \/ ReadApply(t)
              \/ Abort(t)

Spec == Init /\ [][Next]_vars

-----------------------------------------------------------------------------
Message == [sender_user_id : Users, kind : {"text", "file"}]

Transaction == [op : {"idle", "job", "file", "read"},
                phase : {"none", "loaded", "tip", "rows", "started"},
                user_id : Users \cup {NoUser},
                seq : Nat,
                loaded : Row \cup {NoState},
                tip_seq : Nat,
                update : [Users -> Row \cup {NoState}],
                missing : SUBSET Users]

TypeOK == /\ messages \in Seq(Message)
          /\ conversation_lock \in Tx \cup {NoTx}
          /\ state \in [Users -> Row \cup {NoState}]
          /\ row_lock \in [Users -> Tx \cup {NoTx}]
          /\ tx \in [Tx -> Transaction]
          /\ applied \subseteq Nat

\* A cursor never points past the newest message, and a counter never exceeds
\* the number of messages: a job that runs twice, or two jobs that overtake
\* each other, count nothing twice.
WithinLog == \A u \in Users : state[u] # NoState =>
                 /\ state[u].last_read_seq <= tip
                 /\ state[u].unread_count <= tip

\* A badge shows more than the messages after the cursor only for a user who
\* sends too (the sender's row is loaded and written without a lock between):
\* nothing that overlaps ever over-counts for a member who only reads.
OverCountNeedsOwnSend ==
    \A u \in Users :
        /\ state[u] # NoState
        /\ state[u].unread_count > Excess(tip, state[u].last_read_seq)
        => \E s \in 1..tip : messages[s].sender_user_id = u

\* A cursor moves back only when a delivery job of the user's own message
\* commits, and then exactly to that message: no mark_read and no message of
\* somebody else loses a reader's place.
OnlyOwnJobMovesBack ==
    [][\A u \in Users :
          /\ state[u] # NoState
          /\ \/ state'[u] = NoState
             \/ state'[u].last_read_seq < state[u].last_read_seq
          => \E t \in Tx : /\ tx[t].op = "job"
                           /\ tx[t].user_id = u
                           /\ tx'[t] = Idle
                           /\ state'[u] # NoState
                           /\ state'[u].last_read_seq = tx[t].seq]_vars

\* "Unread is recomputed from (last_message_seq - last_read_seq)": once every
\* job has run and nothing is in progress, the counters say just that.
UnreadAtRest ==
    (/\ \A t \in Tx : tx[t] = Idle
     /\ \A s \in 1..tip : messages[s].kind = "text" => s \in applied)
    => \A u \in Users : state[u] # NoState =>
           state[u].unread_count = tip - state[u].last_read_seq
=============================================================================
