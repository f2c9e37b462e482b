--------------------------- MODULE ChatSendProofs ---------------------------
(***************************************************************************)
(* ChatSend for any number of users, client ids and calls: its safety      *)
(* invariants, and that the rows implement the append-only log.            *)
(***************************************************************************)
EXTENDS ChatSend, SequenceTheorems, TLAPS

\* The row lock and the calls inside a transaction describe each other.
LockInv == \A r \in Requests : pc[r] \in InTransaction <=> lock = r

\* The number a call holds is the one after the committed tip.
ClaimInv == \A r \in Requests : pc[r] = "claimed" => claimed[r] = last_message_seq + 1

\* Only the text path claims before it inserts.
PathInv == \A r \in Requests : pc[r] = "claimed" => path[r] = "text"

PathOfMissed == \A r \in Requests : pc[r] = "missed" => path[r] = "text"

IInv == /\ TypeOK
        /\ LockInv
        /\ ClaimInv
        /\ PathInv
        /\ PathOfMissed
        /\ SeqDense
        /\ TipIsLastMessage
        /\ OneMessagePerClientId
        /\ AnswersAreDurable
        /\ ConflictHasWinner

USE ConstantsAssumption

-----------------------------------------------------------------------------
LEMMA InitIInv == Init => IInv
  BY DEF Init, IInv, TypeOK, LockInv, ClaimInv, PathInv, PathOfMissed, SeqDense,
         TipIsLastMessage, OneMessagePerClientId, AnswersAreDurable,
         ConflictHasWinner, InTransaction, Ended, Paths

\* A call that has not inserted its row changes no row: everything that is said
\* about the rows carries over.
LEMMA RowsUnchanged ==
  ASSUME IInv, UNCHANGED conversation
  PROVE  SeqDense' /\ TipIsLastMessage' /\ OneMessagePerClientId'
  BY DEF IInv, conversation, SeqDense, TipIsLastMessage, OneMessagePerClientId

LEMMA BeginKeeps ==
  ASSUME IInv, NEW r \in Requests, Begin(r)
  PROVE  IInv'
<1>1. TypeOK'
  BY DEF IInv, Begin, TypeOK, conversation, Ended, InTransaction
<1>2. LockInv' /\ ClaimInv' /\ PathInv' /\ PathOfMissed'
  BY DEF IInv, Begin, TypeOK, LockInv, ClaimInv, PathInv, PathOfMissed,
         conversation, InTransaction
<1>3. AnswersAreDurable' /\ ConflictHasWinner'
  BY DEF IInv, Begin, TypeOK, AnswersAreDurable, ConflictHasWinner,
         SameClientMessage, conversation
<1> QED
  BY <1>1, <1>2, <1>3, RowsUnchanged DEF IInv, Begin

LEMMA RollbackKeeps ==
  ASSUME IInv, NEW r \in Requests, pc[r] \notin {"idle", "conflict"},
         NEW outcome \in {"aborted", "rejected"}, Rollback(r, outcome)
  PROVE  IInv'
<1>1. TypeOK'
  BY DEF IInv, Rollback, TypeOK, conversation, call, Ended, InTransaction
<1>2. LockInv' /\ ClaimInv' /\ PathInv' /\ PathOfMissed'
  BY DEF IInv, Rollback, TypeOK, LockInv, ClaimInv, PathInv, PathOfMissed,
         conversation, call, InTransaction
<1>3. AnswersAreDurable' /\ ConflictHasWinner'
  BY DEF IInv, Rollback, TypeOK, AnswersAreDurable, ConflictHasWinner,
         SameClientMessage, conversation, call
<1> QED
  BY <1>1, <1>2, <1>3, RowsUnchanged DEF IInv, Rollback

LEMMA AnswerKeeps ==
  ASSUME IInv, NEW r \in Requests, AnswerExisting(r)
  PROVE  IInv'
<1> PICK m \in SameClientMessage(sender[r], cid[r]) :
        /\ result' = [result EXCEPT ![r] = m.id]
        /\ lock' = IF lock = r THEN NoRequest ELSE lock
        /\ pc' = [pc EXCEPT ![r] = "dedup"]
        /\ UNCHANGED <<conversation, call, claimed>>
  BY DEF AnswerExisting
<1>0. /\ m \in messages
      /\ m \in Row
      /\ m.sender_user_id = sender[r]
      /\ m.client_message_id = cid[r]
  BY DEF SameClientMessage, IInv, TypeOK
<1>1. TypeOK'
  BY <1>0 DEF IInv, TypeOK, Row, conversation, call, Ended, InTransaction
<1>2. LockInv' /\ ClaimInv' /\ PathInv' /\ PathOfMissed'
  BY DEF IInv, TypeOK, LockInv, ClaimInv, PathInv, PathOfMissed,
         conversation, call, InTransaction
<1>3. AnswersAreDurable'
  BY <1>0 DEF IInv, TypeOK, AnswersAreDurable, conversation, call
<1>4. ConflictHasWinner'
  BY DEF IInv, TypeOK, ConflictHasWinner, SameClientMessage, conversation, call
<1> QED
  BY <1>1, <1>2, <1>3, <1>4, RowsUnchanged DEF IInv

\* The heart of the argument: a row that violates no constraint, numbered one
\* past the tip by the holder of the lock, keeps the numbering dense and the
\* client ids unique.
LEMMA InsertKeeps ==
  ASSUME IInv, NEW r \in Requests, pc[r] \in InTransaction,
         NEW seq, seq = last_message_seq + 1,
         ~Violates(r, seq), InsertAndCommit(r, seq), UNCHANGED <<call, claimed>>
  PROVE  IInv'
<1> DEFINE row == [id |-> r, sender_user_id |-> sender[r],
                   client_message_id |-> cid[r], conversation_seq |-> seq]
<1>0. /\ row \in Row
      /\ messages' = messages \cup {row}
      /\ row.id = r
      /\ row.sender_user_id = sender[r]
      /\ row.client_message_id = cid[r]
      /\ row.conversation_seq = seq
      /\ seq \in Nat
  BY DEF InsertAndCommit, Row, IInv, TypeOK
<1>1. TypeOK'
  BY <1>0 DEF IInv, InsertAndCommit, TypeOK, call, Ended, InTransaction
<1>2. LockInv' /\ ClaimInv' /\ PathInv' /\ PathOfMissed'
  BY DEF IInv, InsertAndCommit, TypeOK, LockInv, ClaimInv, PathInv,
         PathOfMissed, call, InTransaction
<1> HIDE DEF row
<1>3. SeqDense'
  <2>1. \A s \in 1..last_message_seq' : \E m \in messages' : m.conversation_seq = s
    BY <1>0 DEF IInv, InsertAndCommit, TypeOK, SeqDense
  <2>2. \A m \in messages' : m.conversation_seq \in 1..last_message_seq'
    BY <1>0 DEF IInv, InsertAndCommit, TypeOK, SeqDense
  <2>3. \A m, n \in messages' : m.conversation_seq = n.conversation_seq => m = n
    BY <1>0 DEF IInv, TypeOK, SeqDense
  <2> QED
    BY <2>1, <2>2, <2>3 DEF SeqDense
<1>4. TipIsLastMessage'
  BY <1>0 DEF InsertAndCommit, TipIsLastMessage
<1>5. OneMessagePerClientId'
  BY <1>0 DEF IInv, OneMessagePerClientId, Violates, SameClientMessage
<1>6. AnswersAreDurable'
  BY <1>0 DEF IInv, InsertAndCommit, TypeOK, AnswersAreDurable, call
<1>7. ConflictHasWinner'
  <2> SUFFICES ASSUME NEW q \in Requests, pc'[q] = "conflict"
               PROVE  path'[q] = "text" /\ SameClientMessage(sender[q], cid[q])' # {}
    BY DEF ConflictHasWinner
  <2>1. pc[q] = "conflict"
    BY DEF IInv, TypeOK, InsertAndCommit
  <2>2. path[q] = "text" /\ SameClientMessage(sender[q], cid[q]) # {}
    BY <2>1 DEF IInv, ConflictHasWinner
  <2>3. SameClientMessage(sender[q], cid[q]) \subseteq SameClientMessage(sender[q], cid[q])'
    BY <1>0 DEF SameClientMessage, call
  <2> QED
    BY <2>2, <2>3 DEF call
<1> QED
  BY <1>1, <1>2, <1>3, <1>4, <1>5, <1>6, <1>7 DEF IInv

-----------------------------------------------------------------------------
LEMMA TextLookupKeeps ==
  ASSUME IInv, NEW r \in Requests, TextLookup(r)
  PROVE  IInv'
<1>1. CASE AnswerExisting(r)
  BY <1>1, AnswerKeeps
<1>2. CASE /\ pc' = [pc EXCEPT ![r] = "missed"]
           /\ UNCHANGED <<conversation, lock, call, claimed, result>>
  <2> path[r] = "text" /\ pc[r] = "started"
    BY DEF TextLookup
  <2>1. TypeOK'
    BY <1>2 DEF IInv, TypeOK, conversation, call, Ended, InTransaction
  <2>2. LockInv' /\ ClaimInv' /\ PathInv' /\ PathOfMissed'
    BY <1>2 DEF IInv, TypeOK, LockInv, ClaimInv, PathInv, PathOfMissed,
                conversation, call, InTransaction
  <2>3. AnswersAreDurable' /\ ConflictHasWinner'
    BY <1>2 DEF IInv, TypeOK, AnswersAreDurable, ConflictHasWinner,
                SameClientMessage, conversation, call
  <2> QED
    BY <1>2, <2>1, <2>2, <2>3, RowsUnchanged DEF IInv
<1> QED
  BY <1>1, <1>2 DEF TextLookup

LEMMA TextClaimKeeps ==
  ASSUME IInv, NEW r \in Requests, TextClaim(r)
  PROVE  IInv'
<1>1. TypeOK'
  BY DEF IInv, TextClaim, TypeOK, conversation, call, Ended, InTransaction
<1>2. LockInv' /\ ClaimInv' /\ PathInv' /\ PathOfMissed'
  BY DEF IInv, TextClaim, TypeOK, LockInv, ClaimInv, PathInv, PathOfMissed,
         conversation, call, InTransaction
<1>3. AnswersAreDurable' /\ ConflictHasWinner'
  BY DEF IInv, TextClaim, TypeOK, AnswersAreDurable, ConflictHasWinner,
         SameClientMessage, conversation, call
<1> QED
  BY <1>1, <1>2, <1>3, RowsUnchanged DEF IInv, TextClaim

\* The claimed number is free because the lock was held since the claim, so a
\* violated constraint can only be the one on the client id.
LEMMA TextInsertKeeps ==
  ASSUME IInv, NEW r \in Requests, TextInsert(r)
  PROVE  IInv'
<1>0. /\ pc[r] = "claimed"
      /\ path[r] = "text"
      /\ claimed[r] = last_message_seq + 1
  BY DEF TextInsert, IInv, ClaimInv, PathInv
<1>1. CASE ~Violates(r, claimed[r]) /\ InsertAndCommit(r, claimed[r])
           /\ UNCHANGED <<call, claimed>>
  BY <1>0, <1>1, InsertKeeps DEF InTransaction
<1>2. CASE Violates(r, claimed[r]) /\ Rollback(r, "conflict")
  <2>1. SameClientMessage(sender[r], cid[r]) # {}
    BY <1>0, <1>2 DEF Violates, IInv, SeqDense, TypeOK
  <2>2. TypeOK'
    BY <1>2 DEF IInv, Rollback, TypeOK, conversation, call, Ended, InTransaction
  <2>3. LockInv' /\ ClaimInv' /\ PathInv' /\ PathOfMissed'
    BY <1>2 DEF IInv, Rollback, TypeOK, LockInv, ClaimInv, PathInv,
                PathOfMissed, conversation, call, InTransaction
  <2>4. AnswersAreDurable'
    BY <1>2 DEF IInv, Rollback, TypeOK, AnswersAreDurable, conversation, call
  <2>5. ConflictHasWinner'
    BY <1>0, <1>2, <2>1 DEF IInv, Rollback, TypeOK, ConflictHasWinner,
                            SameClientMessage, conversation, call
  <2> QED
    BY <1>2, <2>2, <2>3, <2>4, <2>5, RowsUnchanged DEF IInv, Rollback
<1> QED
  BY <1>1, <1>2 DEF TextInsert

LEMMA LockedAcquireKeeps ==
  ASSUME IInv, NEW r \in Requests, LockedAcquire(r)
  PROVE  IInv'
<1>1. TypeOK'
  BY DEF IInv, LockedAcquire, TypeOK, conversation, call, Ended, InTransaction
<1>2. LockInv' /\ ClaimInv' /\ PathInv' /\ PathOfMissed'
  BY DEF IInv, LockedAcquire, TypeOK, LockInv, ClaimInv, PathInv,
         PathOfMissed, conversation, call, InTransaction
<1>3. AnswersAreDurable' /\ ConflictHasWinner'
  BY DEF IInv, LockedAcquire, TypeOK, AnswersAreDurable, ConflictHasWinner,
         SameClientMessage, conversation, call
<1> QED
  BY <1>1, <1>2, <1>3, RowsUnchanged DEF IInv, LockedAcquire

\* Under the lock the dedup SELECT is final: the INSERT violates nothing.
LEMMA LockedPersistKeeps ==
  ASSUME IInv, NEW r \in Requests, LockedPersist(r)
  PROVE  IInv'
<1>1. CASE AnswerExisting(r)
  BY <1>1, AnswerKeeps
<1>2. CASE Rollback(r, "rejected")
  BY <1>2, RollbackKeeps DEF LockedPersist
<1>3. CASE /\ SameClientMessage(sender[r], cid[r]) = {}
           /\ IF Violates(r, last_message_seq + 1)
              THEN Rollback(r, "conflict")
              ELSE /\ InsertAndCommit(r, last_message_seq + 1)
                   /\ UNCHANGED <<call, claimed>>
  <2>1. ~Violates(r, last_message_seq + 1)
    BY <1>3 DEF Violates, IInv, SeqDense, TypeOK
  <2> QED
    BY <1>3, <2>1, InsertKeeps DEF LockedPersist, InTransaction
<1> QED
  BY <1>1, <1>2, <1>3 DEF LockedPersist

LEMMA NextIInv == IInv /\ [Next]_vars => IInv'
<1> SUFFICES ASSUME IInv, [Next]_vars PROVE IInv'
  OBVIOUS
<1>1. ASSUME NEW r \in Requests, Begin(r) PROVE IInv'
  BY <1>1, BeginKeeps
<1>2. ASSUME NEW r \in Requests, Work(r) PROVE IInv'
  BY <1>2, TextLookupKeeps, TextClaimKeeps, TextInsertKeeps,
     LockedAcquireKeeps, LockedPersistKeeps DEF Work
<1>3. ASSUME NEW r \in Requests, Abort(r) PROVE IInv'
  BY <1>3, RollbackKeeps DEF Abort, InTransaction
<1>4. CASE UNCHANGED vars
  <2>1. UNCHANGED <<conversation, lock, pc, call, claimed, result>>
    BY <1>4 DEF vars
  <2>2. TypeOK' /\ LockInv' /\ ClaimInv' /\ PathInv' /\ PathOfMissed'
    BY <2>1 DEF IInv, TypeOK, LockInv, ClaimInv, PathInv, PathOfMissed,
                conversation, call
  <2>3. AnswersAreDurable' /\ ConflictHasWinner'
    BY <2>1 DEF IInv, AnswersAreDurable, ConflictHasWinner, SameClientMessage,
                conversation, call
  <2> QED
    BY <2>1, <2>2, <2>3, RowsUnchanged DEF IInv
<1> QED
  BY <1>1, <1>2, <1>3, <1>4 DEF Next

LEMMA Invariant == Spec => []IInv
  BY InitIInv, NextIInv, PTL DEF Spec

-----------------------------------------------------------------------------
\* Every variable of a call and of the conversation keeps its type.
THEOREM TypeCorrect == Spec => []TypeOK
  BY Invariant, PTL DEF IInv

\* conversation_seq numbers the messages 1, 2, ... with no gap and no repeat,
\* for any mix of text and locked calls and any rollbacks.
THEOREM Numbering == Spec => []SeqDense
  BY Invariant, PTL DEF IInv

\* last_message_seq and last_message_id always describe the newest message.
THEOREM Tip == Spec => []TipIsLastMessage
  BY Invariant, PTL DEF IInv

\* However many copies of one send overlap, one of them leaves a message.
THEOREM Deduplication == Spec => []OneMessagePerClientId
  BY Invariant, PTL DEF IInv

\* A call that was answered names a committed message of its own send.
THEOREM Durability == Spec => []AnswersAreDurable
  BY Invariant, PTL DEF IInv

\* Only a committed copy of the same send makes a call fail on a constraint.
THEOREM ConflictsExplained == Spec => []ConflictHasWinner
  BY Invariant, PTL DEF IInv

-----------------------------------------------------------------------------
LogRow(m) == [sender_user_id    |-> m.sender_user_id,
              client_message_id |-> m.client_message_id]

\* The row that carries a number is unique, so the log is well defined.
LEMMA RowAtIsTheRow ==
  ASSUME IInv, NEW m \in messages
  PROVE  /\ m.conversation_seq \in 1..last_message_seq
         /\ RowAt(m.conversation_seq) = m
BY DEF IInv, SeqDense, RowAt

LEMMA RowAtExists ==
  ASSUME IInv, NEW s \in 1..last_message_seq
  PROVE  RowAt(s) \in messages /\ RowAt(s).conversation_seq = s
BY DEF IInv, SeqDense, RowAt

LogIsASequence == /\ LogOfRows \in Seq(Log!Entry)
                  /\ Len(LogOfRows) = last_message_seq
                  /\ \A s \in 1..last_message_seq :
                         /\ LogOfRows[s] = LogRow(RowAt(s))
                         /\ RowAt(s) \in messages
                         /\ RowAt(s).conversation_seq = s

LEMMA LogOfRowsFacts == IInv => LogIsASequence
<1> SUFFICES ASSUME IInv PROVE LogIsASequence
  OBVIOUS
<1>1. last_message_seq \in Nat
  BY DEF IInv, TypeOK
<1>2. \A s \in 1..last_message_seq : LogRow(RowAt(s)) \in Log!Entry
  BY RowAtExists DEF IInv, TypeOK, Row, LogRow, Log!Entry
<1>3. LogOfRows = [s \in 1..last_message_seq |-> LogRow(RowAt(s))]
  BY DEF LogOfRows, LogRow
<1> QED
  BY <1>1, <1>2, <1>3, RowAtExists DEF LogIsASequence

LEMMA InitLog == Init => Log!Init
<1> SUFFICES ASSUME Init PROVE LogOfRows = << >>
  BY DEF Log!Init
<1>1. LogOfRows \in Seq(Log!Entry) /\ Len(LogOfRows) = 0
  BY InitIInv, LogOfRowsFacts DEF Init, LogIsASequence
<1> QED
  BY <1>1, EmptySeq

\* A step that leaves the tables alone is a stutter of the log.
LEMMA StutterOfLog ==
  ASSUME UNCHANGED conversation
  PROVE  UNCHANGED LogOfRows
BY DEF conversation, LogOfRows, RowAt

\* An insert appends one fresh entry.
LEMMA InsertAppends ==
  ASSUME IInv, IInv', NEW r \in Requests, NEW seq, seq = last_message_seq + 1,
         ~Violates(r, seq), InsertAndCommit(r, seq)
  PROVE  Log!Next
<1> DEFINE row == [id |-> r, sender_user_id |-> sender[r],
                   client_message_id |-> cid[r], conversation_seq |-> seq]
           e == [sender_user_id |-> sender[r], client_message_id |-> cid[r]]
<1>1. /\ messages' = messages \cup {row}
      /\ last_message_seq' = seq
      /\ last_message_seq \in Nat
      /\ row.conversation_seq = seq
      /\ LogRow(row) = e
      /\ e \in Log!Entry
  BY DEF InsertAndCommit, IInv, TypeOK, LogRow, Log!Entry
<1>2. LogIsASequence /\ LogIsASequence'
  BY LogOfRowsFacts, PTL
<1> HIDE DEF row, e
<1>3. LogOfRows' = Append(LogOfRows, e)
  <2>1. ASSUME NEW s \in 1..last_message_seq PROVE LogOfRows'[s] = LogOfRows[s]
    <3>1. RowAt(s) \in messages /\ RowAt(s).conversation_seq = s
      BY <1>2 DEF LogIsASequence
    <3>2. RowAt(s)' \in messages' /\ RowAt(s)'.conversation_seq = s
      BY <1>1, <1>2 DEF LogIsASequence
    <3>3. RowAt(s)' = RowAt(s)
      BY <1>1, <3>1, <3>2 DEF IInv, SeqDense
    <3> QED
      BY <1>1, <1>2, <3>3 DEF LogIsASequence, LogRow
  <2>2. LogOfRows'[seq] = e
    <3>1. RowAt(seq)' \in messages' /\ RowAt(seq)'.conversation_seq = seq
      BY <1>1, <1>2 DEF LogIsASequence
    <3>2. RowAt(seq)' = row
      BY <1>1, <3>1 DEF IInv, SeqDense
    <3> QED
      BY <1>1, <1>2, <3>2 DEF LogIsASequence, LogRow
  <2> QED
    BY <1>1, <1>2, <2>1, <2>2, AppendProperties, SeqEqual DEF LogIsASequence
<1>4. Log!Fresh(e)
  <2> SUFFICES ASSUME cid[r] # NoClientId, NEW i \in 1..Len(LogOfRows),
                      LogOfRows[i] = e
               PROVE  FALSE
    BY DEF Log!Fresh, e
  <2>1. /\ RowAt(i) \in messages
        /\ RowAt(i).sender_user_id = sender[r]
        /\ RowAt(i).client_message_id = cid[r]
    BY <1>2 DEF LogIsASequence, LogRow, e
  <2> QED
    BY <2>1 DEF Violates, SameClientMessage
<1> QED
  BY <1>1, <1>3, <1>4 DEF Log!Next, Log!AppendEntry

LEMMA StepOfLog == IInv /\ IInv' /\ [Next]_vars => [Log!Next]_LogOfRows
<1> SUFFICES ASSUME IInv, IInv', [Next]_vars, ~UNCHANGED conversation
             PROVE  Log!Next
  BY StutterOfLog
<1>1. PICK r \in Requests : TextInsert(r) \/ LockedPersist(r)
  BY DEF Next, Begin, Work, TextLookup, TextClaim, LockedAcquire, Abort,
         Rollback, AnswerExisting, vars
<1>2. CASE TextInsert(r)
  <2>1. /\ ~Violates(r, claimed[r])
        /\ InsertAndCommit(r, claimed[r])
        /\ claimed[r] = last_message_seq + 1
    BY <1>2 DEF TextInsert, Rollback, IInv, ClaimInv
  <2> QED
    BY <2>1, InsertAppends
<1>3. CASE LockedPersist(r)
  <2>1. /\ ~Violates(r, last_message_seq + 1)
        /\ InsertAndCommit(r, last_message_seq + 1)
    BY <1>3 DEF LockedPersist, Rollback, AnswerExisting
  <2> QED
    BY <2>1, InsertAppends
<1> QED
  BY <1>1, <1>2, <1>3

\* The rows of the database implement the append-only log of the conversation.
THEOREM Refinement == Spec => ImplementsLog
  BY Invariant, InitLog, StepOfLog, PTL DEF Spec, ImplementsLog, Log!Spec
=============================================================================
