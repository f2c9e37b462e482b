--------------------------- MODULE ReadStateProofs ---------------------------
(***************************************************************************)
(* ReadState for any number of members, connections and messages: the      *)
(* cursors and counters stay within the log, members who only read are     *)
(* never over-counted, and a cursor moves back only by the user's own job. *)
(***************************************************************************)
EXTENDS ReadState, SequenceTheorems, TLAPS

USE ConstantsAssumption, NoStateAssumption

\* What each kind of transaction knows about the log while it runs.
JobInv(t) == /\ tx[t].phase \in {"loaded", "tip", "rows"}
             /\ tx[t].seq \in 1..tip
             /\ tx[t].tip_seq <= tip
             /\ messages[tx[t].seq].sender_user_id = tx[t].user_id
             /\ tx[t].loaded # NoState => state[tx[t].user_id] # NoState

FileInv(t) == /\ tx[t].phase \in {"tip", "rows"}
              /\ tx[t].seq = tip + 1
              /\ conversation_lock = t
              /\ tx[t].loaded # NoState => state[tx[t].user_id] # NoState

ReadInv(t) == /\ tx[t].phase = "started"
              /\ tx[t].seq \in 1..tip
              /\ tx[t].tip_seq <= tip

TxInv == \A t \in Tx :
            \/ tx[t] = Idle
            \/ /\ tx[t].user_id \in Users
               /\ \/ tx[t].op = "job" /\ JobInv(t)
                  \/ tx[t].op = "file" /\ FileInv(t)
                  \/ tx[t].op = "read" /\ ReadInv(t)

\* A row is locked by an UPDATE that computed its new value from the row as it
\* still is, or by a mark_read that inserted it and has not committed.
LockInv == \A t \in Tx, v \in Users : row_lock[v] = t =>
              \/ /\ tx[t].op \in {"job", "file"}
                 /\ tx[t].phase = "rows"
                 /\ state[v] # NoState
                 /\ tx[t].update[v] = Recount(t, state[v])
              \/ tx[t].op = "read" /\ tx[t].user_id = v

IInv == TypeOK /\ TxInv /\ LockInv /\ WithinLog /\ OverCountNeedsOwnSend

-----------------------------------------------------------------------------
LEMMA StartedType ==
  ASSUME NEW op \in {"idle", "job", "file", "read"},
         NEW phase \in {"none", "loaded", "tip", "rows", "started"},
         NEW u \in Users \cup {NoUser}, NEW seq \in Nat,
         NEW row \in Row \cup {NoState}, NEW latest \in Nat
  PROVE  /\ Started(op, phase, u, seq, row, latest) \in Transaction
         /\ Started(op, phase, u, seq, row, latest).op = op
         /\ Started(op, phase, u, seq, row, latest).phase = phase
         /\ Started(op, phase, u, seq, row, latest).user_id = u
         /\ Started(op, phase, u, seq, row, latest).seq = seq
         /\ Started(op, phase, u, seq, row, latest).loaded = row
         /\ Started(op, phase, u, seq, row, latest).tip_seq = latest
  BY DEF Started, Transaction

LEMMA IdleType == /\ Idle \in Transaction
                  /\ Idle.op = "idle"
                  /\ Idle.phase = "none"
  BY StartedType DEF Idle

\* One connection moves on, the others stay.
LEMMA OneTx ==
  ASSUME tx \in [Tx -> Transaction], NEW t \in Tx, NEW x \in Transaction,
         tx' = [tx EXCEPT ![t] = x]
  PROVE  /\ tx' \in [Tx -> Transaction]
         /\ tx'[t] = x
         /\ \A q \in Tx : q # t => tx'[q] = tx[q]
  OBVIOUS

LEMMA ExcessBound ==
  ASSUME NEW m \in Nat, NEW n \in Nat
  PROVE  Excess(m, n) \in Nat /\ Excess(m, n) <= m
  BY DEF Excess

\* What an UPDATE makes of a row depends on the row and on its own statement.
LEMMA SameRecount ==
  ASSUME NEW q \in Tx, NEW v \in Users, UNCHANGED <<tx[q].op, tx[q].tip_seq>>,
         UNCHANGED state[v]
  PROVE  Recount(q, state[v])' = Recount(q, state[v])
  BY DEF Recount

\* A connection that holds rows does not move in this step, and neither do they.
LEMMA SameLocks ==
  ASSUME LockInv,
         \A q \in Tx, v \in Users : row_lock'[v] = q =>
             row_lock[v] = q /\ tx'[q] = tx[q] /\ state'[v] = state[v]
  PROVE  LockInv'
  BY SameRecount DEF LockInv

LEMMA InitIInv == Init => IInv
<1> SUFFICES ASSUME Init PROVE IInv
  OBVIOUS
<1>1. TypeOK
  BY IdleType, EmptySeq DEF Init, TypeOK, Fresh, Row
<1>2. TxInv
  BY DEF Init, TxInv
<1>3. LockInv
  BY DEF Init, LockInv
<1>4. WithinLog /\ OverCountNeedsOwnSend
  BY DEF Init, WithinLog, OverCountNeedsOwnSend, Fresh, Excess, tip
<1> QED
  BY <1>1, <1>2, <1>3, <1>4 DEF IInv

\* Appending a message keeps the earlier ones and moves the tip by one.
LEMMA AppendMessage ==
  ASSUME messages \in Seq(Message), NEW m \in Message,
         messages' = Append(messages, m)
  PROVE  /\ messages' \in Seq(Message)
         /\ tip \in Nat
         /\ tip' = tip + 1
         /\ \A s \in 1..tip : messages'[s] = messages[s]
         /\ messages'[tip + 1] = m
  BY AppendProperties, LenProperties DEF tip

LEMMA TextSendKeeps ==
  ASSUME IInv, NEW u \in Users, TextSend(u)
  PROVE  IInv'
<1> DEFINE m == [sender_user_id |-> u, kind |-> "text"]
<1>1. /\ messages' \in Seq(Message)
      /\ tip \in Nat
      /\ tip' = tip + 1
      /\ \A s \in 1..tip : messages'[s] = messages[s]
  <2>1. m \in Message /\ messages' = Append(messages, m) /\ messages \in Seq(Message)
    BY DEF TextSend, Message, IInv, TypeOK
  <2> QED
    BY <2>1, AppendMessage
<1>2. TypeOK'
  BY <1>1 DEF IInv, TypeOK, TextSend
<1>3. TxInv'
  <2> SUFFICES ASSUME NEW q \in Tx, tx[q] # Idle
               PROVE  /\ tx[q].user_id \in Users
                      /\ \/ tx[q].op = "job" /\ JobInv(q)'
                         \/ tx[q].op = "file" /\ FileInv(q)'
                         \/ tx[q].op = "read" /\ ReadInv(q)'
    BY DEF TextSend, TxInv
  <2>1. tx[q] \in Transaction /\ UNCHANGED <<tx, state>> /\ conversation_lock = NoTx
    BY DEF IInv, TypeOK, TextSend
  <2>2. tx[q].seq \in Nat /\ tx[q].tip_seq \in Nat
    BY <2>1 DEF Transaction
  <2>3. CASE tx[q].op = "job" /\ JobInv(q)
    BY <1>1, <2>1, <2>2, <2>3 DEF JobInv, IInv, TxInv
  <2>4. CASE tx[q].op = "read" /\ ReadInv(q)
    BY <1>1, <2>1, <2>2, <2>4 DEF ReadInv, IInv, TxInv
  <2>5. ~ FileInv(q)
    BY <2>1 DEF FileInv
  <2> QED
    BY <2>3, <2>4, <2>5 DEF IInv, TxInv
<1>4. LockInv'
  BY SameLocks DEF IInv, TextSend
<1>5. WithinLog'
  BY <1>1 DEF IInv, TypeOK, WithinLog, TextSend, Row
<1>6. OverCountNeedsOwnSend'
  <2> SUFFICES ASSUME NEW v \in Users, state[v] # NoState,
                      \A s \in 1..tip' : messages'[s].sender_user_id # v
               PROVE  ~ (state[v].unread_count > Excess(tip, state[v].last_read_seq)')
    BY DEF TextSend, OverCountNeedsOwnSend
  <2>1. state[v] \in Row /\ UNCHANGED state
    BY DEF IInv, TypeOK, TextSend
  <2>2. ~ (state[v].unread_count > Excess(tip, state[v].last_read_seq))
    BY <1>1 DEF IInv, OverCountNeedsOwnSend
  <2> QED
    BY <1>1, <2>1, <2>2 DEF Excess, Row
<1> QED
  BY <1>2, <1>3, <1>4, <1>5, <1>6 DEF IInv

\* A step that commits nothing leaves what is said of the rows as it was.
LEMMA RowsUnchanged ==
  ASSUME IInv, UNCHANGED <<messages, state>>
  PROVE  WithinLog' /\ OverCountNeedsOwnSend' /\ tip' = tip
  BY DEF IInv, WithinLog, OverCountNeedsOwnSend, tip

LEMMA TipNat == IInv => tip \in Nat
  BY LenProperties DEF IInv, TypeOK, tip

LEMMA MessageAt ==
  ASSUME IInv, NEW s \in 1..tip
  PROVE  messages[s] \in Message /\ messages[s].sender_user_id \in Users /\ s \in Nat
<1>1. messages \in Seq(Message) /\ s \in 1..Len(messages)
  BY DEF IInv, TypeOK, tip
<1>2. messages[s] \in Message
  BY <1>1, ElementOfSeq
<1> QED
  BY <1>1, <1>2, LenProperties DEF Message

LEMMA JobLoadKeeps ==
  ASSUME IInv, NEW t \in Tx, NEW s \in 1..tip, JobLoad(t, s)
  PROVE  IInv'
<1> DEFINE u == messages[s].sender_user_id
           x == Started("job", "loaded", u, s, state[u], 0)
<1>1. /\ tx' = [tx EXCEPT ![t] = x]
      /\ UNCHANGED <<messages, conversation_lock, state, row_lock, applied>>
      /\ tx[t] = Idle
  BY DEF JobLoad
<1>2. u \in Users /\ tip \in Nat /\ s \in Nat /\ state[u] \in Row \cup {NoState}
  BY TipNat, MessageAt DEF IInv, TypeOK
<1> HIDE DEF u
<1>3. /\ x \in Transaction
      /\ x.op = "job" /\ x.phase = "loaded" /\ x.user_id = u
      /\ x.seq = s /\ x.tip_seq = 0 /\ x.loaded = state[u]
  BY <1>2, StartedType
<1> HIDE DEF x
<1>4. /\ tx' \in [Tx -> Transaction]
      /\ tx'[t] = x
      /\ \A q \in Tx : q # t => tx'[q] = tx[q]
  BY <1>1, <1>3, OneTx DEF IInv, TypeOK
<1>5. TypeOK'
  BY <1>1, <1>4 DEF IInv, TypeOK
<1>6. TxInv'
  <2>1. tip' = tip
    BY <1>1 DEF tip
  <2>2. JobInv(t)'
    BY <1>1, <1>2, <1>3, <1>4, <2>1 DEF JobInv, u
  <2> QED
    BY <1>1, <1>2, <1>3, <1>4, <2>1, <2>2 DEF IInv, TxInv, JobInv, FileInv, ReadInv
<1>7. LockInv'
  <2>1. \A v \in Users : row_lock[v] # t
    BY <1>1, IdleType DEF IInv, LockInv
  <2> QED
    BY <1>1, <1>4, <2>1, SameLocks DEF IInv
<1> QED
  BY <1>1, <1>5, <1>6, <1>7, RowsUnchanged DEF IInv

LEMMA JobTipKeeps ==
  ASSUME IInv, NEW t \in Tx, JobTip(t)
  PROVE  IInv'
<1> DEFINE x == [tx[t] EXCEPT !.phase = "tip", !.tip_seq = tip]
<1>0. tip \in Nat /\ tip' = tip
  BY TipNat DEF JobTip, tip
<1>1. /\ tx' = [tx EXCEPT ![t] = x]
      /\ UNCHANGED <<messages, conversation_lock, state, row_lock, applied>>
      /\ tx[t].op = "job" /\ tx[t].phase = "loaded"
      /\ tx[t] \in Transaction
  BY DEF JobTip, IInv, TypeOK
<1>3. /\ x \in Transaction
      /\ x.op = "job" /\ x.phase = "tip" /\ x.user_id = tx[t].user_id
      /\ x.seq = tx[t].seq /\ x.tip_seq = tip /\ x.loaded = tx[t].loaded
  BY <1>0, <1>1 DEF Transaction
<1> HIDE DEF x
<1>4. /\ tx' \in [Tx -> Transaction]
      /\ tx'[t] = x
      /\ \A q \in Tx : q # t => tx'[q] = tx[q]
  BY <1>1, <1>3, OneTx DEF IInv, TypeOK
<1>5. TypeOK'
  BY <1>1, <1>4 DEF IInv, TypeOK
<1>6. TxInv'
  BY <1>0, <1>1, <1>3, <1>4, IdleType
     DEF IInv, TxInv, JobInv, FileInv, ReadInv
<1>7. LockInv'
  <2>1. \A v \in Users : row_lock[v] # t
    BY <1>1 DEF IInv, LockInv
  <2> QED
    BY <1>1, <1>4, <2>1, SameLocks DEF IInv
<1> QED
  BY <1>1, <1>5, <1>6, <1>7, RowsUnchanged DEF IInv

LEMMA LockedSendKeeps ==
  ASSUME IInv, NEW t \in Tx, NEW u \in Users, LockedSend(t, u)
  PROVE  IInv'
<1> DEFINE x == Started("file", "tip", u, tip + 1, state[u], 0)
<1>1. /\ tx' = [tx EXCEPT ![t] = x]
      /\ UNCHANGED <<messages, state, row_lock, applied>>
      /\ tx[t] = Idle
      /\ conversation_lock = NoTx
      /\ conversation_lock' = t
  BY DEF LockedSend
<1>2. tip \in Nat /\ tip + 1 \in Nat /\ state[u] \in Row \cup {NoState} /\ tip' = tip
  BY <1>1, TipNat DEF IInv, TypeOK, tip
<1>3. /\ x \in Transaction
      /\ x.op = "file" /\ x.phase = "tip" /\ x.user_id = u
      /\ x.seq = tip + 1 /\ x.loaded = state[u]
  BY <1>2, StartedType
<1> HIDE DEF x
<1>4. /\ tx' \in [Tx -> Transaction]
      /\ tx'[t] = x
      /\ \A q \in Tx : q # t => tx'[q] = tx[q]
  BY <1>1, <1>3, OneTx DEF IInv, TypeOK
<1>5. TypeOK'
  BY <1>1, <1>4 DEF IInv, TypeOK
<1>6. TxInv'
  BY <1>1, <1>2, <1>3, <1>4, IdleType DEF IInv, TypeOK, TxInv, JobInv, FileInv, ReadInv
<1>7. LockInv'
  <2>1. \A v \in Users : row_lock[v] # t
    BY <1>1, IdleType DEF IInv, LockInv
  <2> QED
    BY <1>1, <1>4, <2>1, SameLocks DEF IInv
<1> QED
  BY <1>1, <1>5, <1>6, <1>7, RowsUnchanged DEF IInv

LEMMA RecountType ==
  ASSUME IInv, NEW t \in Tx, NEW row \in Row
  PROVE  Recount(t, row) \in Row
<1>1. tx[t] \in Transaction
  BY DEF IInv, TypeOK
<1>2. tx[t].tip_seq \in Nat /\ row.last_read_seq \in Nat /\ row.unread_count \in Nat
  BY <1>1 DEF Transaction, Row
<1>3. Excess(tx[t].tip_seq, row.last_read_seq) \in Nat
  BY <1>2, ExcessBound
<1> QED
  BY <1>2, <1>3 DEF Recount, Row

LEMMA UpdateRecipientsKeeps ==
  ASSUME IInv, NEW t \in Tx, UpdateRecipients(t)
  PROVE  IInv'
<1> DEFINE upd == [v \in Users |-> IF v \in Existing(t) THEN Recount(t, state[v])
                                   ELSE NoState]
           x == [tx[t] EXCEPT !.phase = "rows", !.missing = Recipients(t) \ Existing(t),
                              !.update = upd]
<1>1. /\ tx' = [tx EXCEPT ![t] = x]
      /\ UNCHANGED <<messages, conversation_lock, state, applied>>
      /\ row_lock' = [v \in Users |-> IF v \in Existing(t) THEN t ELSE row_lock[v]]
      /\ \A v \in Existing(t) : row_lock[v] = NoTx
      /\ tx[t].phase = "tip"
      /\ tx[t] \in Transaction
  BY DEF UpdateRecipients, IInv, TypeOK
<1>2. /\ Existing(t) \subseteq Users
      /\ \A v \in Existing(t) : state[v] \in Row /\ Recount(t, state[v]) \in Row
      /\ Recipients(t) \subseteq Users
      /\ \A v \in Existing(t) : state[v] # NoState
  BY RecountType DEF Existing, Recipients, IInv, TypeOK
<1>3. upd \in [Users -> Row \cup {NoState}] /\ \A v \in Existing(t) : upd[v] = Recount(t, state[v])
  BY <1>2
<1> HIDE DEF upd
<1>4. /\ x \in Transaction
      /\ x.op = tx[t].op /\ x.phase = "rows" /\ x.user_id = tx[t].user_id
      /\ x.seq = tx[t].seq /\ x.tip_seq = tx[t].tip_seq /\ x.update = upd
      /\ x.loaded = tx[t].loaded
  BY <1>1, <1>2, <1>3 DEF Transaction
<1> HIDE DEF x
<1>5. /\ tx' \in [Tx -> Transaction]
      /\ tx'[t] = x
      /\ \A q \in Tx : q # t => tx'[q] = tx[q]
  BY <1>1, <1>4, OneTx DEF IInv, TypeOK
<1>6. TypeOK'
  BY <1>1, <1>5 DEF IInv, TypeOK
<1>7. TxInv'
  <2>1. tip' = tip /\ tx[t] # Idle
    BY <1>1, IdleType DEF tip
  <2> QED
    BY <1>1, <1>4, <1>5, <2>1 DEF IInv, TxInv, JobInv, FileInv, ReadInv
<1>8. LockInv'
  <2> SUFFICES ASSUME NEW q \in Tx, NEW v \in Users, row_lock'[v] = q
               PROVE  \/ /\ tx'[q].op \in {"job", "file"}
                         /\ tx'[q].phase = "rows"
                         /\ state'[v] # NoState
                         /\ tx'[q].update[v] = Recount(q, state[v])'
                      \/ tx'[q].op = "read" /\ tx'[q].user_id = v
    BY DEF LockInv
  <2>1. CASE v \in Existing(t)
    <3>1. q = t
      BY <1>1, <2>1
    <3>2. Recount(t, state[v])' = Recount(t, state[v])
      BY <1>1, <1>4, <1>5, SameRecount
    <3>3. tx[t].op \in {"job", "file"}
      BY <1>1, IdleType DEF IInv, TxInv, ReadInv
    <3> QED
      BY <1>1, <1>2, <1>3, <1>4, <1>5, <2>1, <3>1, <3>2, <3>3
  <2>2. CASE v \notin Existing(t)
    <3>1. row_lock[v] = q
      BY <1>1, <2>2
    <3>2. q # t
      BY <1>1, <3>1, IdleType DEF IInv, TxInv, ReadInv, LockInv
    <3>3. Recount(q, state[v])' = Recount(q, state[v])
      BY <1>1, <1>5, <3>2, SameRecount
    <3> QED
      BY <1>1, <1>5, <3>1, <3>2, <3>3 DEF IInv, LockInv
  <2> QED
    BY <2>1, <2>2
<1> QED
  BY <1>1, <1>6, <1>7, <1>8, RowsUnchanged DEF IInv

-----------------------------------------------------------------------------
\* A connection that becomes idle holds nothing, and what the others hold is
\* as it was, provided the step left their rows alone.
LEMMA ReleaseKeepsLocks ==
  ASSUME IInv, NEW t \in Tx, row_lock' = ReleasedBy(t),
         \A q \in Tx : q # t => tx'[q] = tx[q],
         \A q \in Tx, v \in Users : row_lock[v] = q /\ q # t => state'[v] = state[v]
  PROVE  LockInv' /\ row_lock' \in [Users -> Tx \cup {NoTx}]
<1>1. row_lock' \in [Users -> Tx \cup {NoTx}]
  BY DEF ReleasedBy, IInv, TypeOK
<1>2. \A q \in Tx, v \in Users : row_lock'[v] = q => row_lock[v] = q /\ q # t
  BY DEF ReleasedBy
<1> QED
  BY <1>1, <1>2, SameLocks DEF IInv

LEMMA AbortKeeps ==
  ASSUME IInv, NEW t \in Tx, Abort(t)
  PROVE  IInv'
<1>1. /\ tx' = [tx EXCEPT ![t] = Idle]
      /\ row_lock' = ReleasedBy(t)
      /\ conversation_lock' = IF conversation_lock = t THEN NoTx ELSE conversation_lock
      /\ UNCHANGED <<messages, state, applied>>
  BY DEF Abort
<1>2. /\ tx' \in [Tx -> Transaction]
      /\ tx'[t] = Idle
      /\ \A q \in Tx : q # t => tx'[q] = tx[q]
  BY <1>1, IdleType, OneTx DEF IInv, TypeOK
<1>3. LockInv' /\ row_lock' \in [Users -> Tx \cup {NoTx}]
  BY <1>1, <1>2, ReleaseKeepsLocks
<1>4. TypeOK'
  BY <1>1, <1>2, <1>3 DEF IInv, TypeOK
<1>5. TxInv'
  <2>1. tip' = tip
    BY <1>1 DEF tip
  <2> QED
    BY <1>1, <1>2, <2>1 DEF IInv, TxInv, JobInv, FileInv, ReadInv
<1> QED
  BY <1>1, <1>3, <1>4, <1>5, RowsUnchanged DEF IInv

LEMMA ReadStartKeeps ==
  ASSUME IInv, NEW t \in Tx, NEW u \in Users, NEW m \in 1..tip, ReadStart(t, u, m)
  PROVE  IInv'
<1> DEFINE x == Started("read", "started", u, m, NoState, tip)
<1>1. /\ tx' = [tx EXCEPT ![t] = x]
      /\ UNCHANGED <<messages, conversation_lock, state, applied>>
      /\ tx[t] = Idle
      /\ row_lock' = row_lock \/ row_lock' = [row_lock EXCEPT ![u] = t]
  BY DEF ReadStart
<1>2. tip \in Nat /\ m \in Nat /\ tip' = tip
  BY <1>1, TipNat DEF tip
<1>3. /\ x \in Transaction
      /\ x.op = "read" /\ x.phase = "started" /\ x.user_id = u
      /\ x.seq = m /\ x.tip_seq = tip
  BY <1>2, StartedType
<1> HIDE DEF x
<1>4. /\ tx' \in [Tx -> Transaction]
      /\ tx'[t] = x
      /\ \A q \in Tx : q # t => tx'[q] = tx[q]
  BY <1>1, <1>3, OneTx DEF IInv, TypeOK
<1>5. TypeOK'
  BY <1>1, <1>4 DEF IInv, TypeOK
<1>6. TxInv'
  <2>1. ReadInv(t)'
    BY <1>1, <1>2, <1>3, <1>4 DEF ReadInv
  <2> QED
    BY <1>1, <1>2, <1>3, <1>4, <2>1 DEF IInv, TxInv, JobInv, FileInv, ReadInv
<1>7. LockInv'
  <2> SUFFICES ASSUME NEW q \in Tx, NEW v \in Users, row_lock'[v] = q
               PROVE  \/ /\ tx'[q].op \in {"job", "file"}
                         /\ tx'[q].phase = "rows"
                         /\ state'[v] # NoState
                         /\ tx'[q].update[v] = Recount(q, state[v])'
                      \/ tx'[q].op = "read" /\ tx'[q].user_id = v
    BY DEF LockInv
  <2>1. row_lock[v] # t
    BY <1>1, IdleType DEF IInv, LockInv
  <2>2. CASE row_lock[v] = q
    <3>1. Recount(q, state[v])' = Recount(q, state[v])
      BY <1>1, <1>4, <2>1, <2>2, SameRecount
    <3> QED
      BY <1>1, <1>4, <2>1, <2>2, <3>1 DEF IInv, LockInv
  <2>3. CASE row_lock[v] # q
    <3>1. q = t /\ v = u
      BY <1>1, <2>3 DEF IInv, TypeOK
    <3> QED
      BY <1>3, <1>4, <3>1
  <2> QED
    BY <2>2, <2>3
<1> QED
  BY <1>1, <1>5, <1>6, <1>7, RowsUnchanged DEF IInv

LEMMA ReadApplyKeeps ==
  ASSUME IInv, NEW t \in Tx, ReadApply(t)
  PROVE  IInv'
<1> DEFINE u == tx[t].user_id
           old == IF state[u] = NoState THEN Fresh ELSE state[u]
           new == Advanced(old, tx[t].seq, tx[t].tip_seq)
<1>0. /\ tx[t].op = "read" /\ u \in Users /\ ReadInv(t) /\ tx[t] \in Transaction
      /\ tip \in Nat
  BY IdleType, TipNat DEF ReadApply, IInv, TxInv, TypeOK
<1>1. /\ tx' = [tx EXCEPT ![t] = Idle]
      /\ row_lock' = ReleasedBy(t)
      /\ row_lock[u] \in {NoTx, t}
      /\ UNCHANGED <<messages, conversation_lock, applied>>
      /\ state' = [state EXCEPT ![u] = new]
  BY DEF ReadApply
<1>2. /\ tx[t].seq \in Nat /\ tx[t].tip_seq \in Nat
      /\ tx[t].seq <= tip /\ tx[t].tip_seq <= tip
  BY <1>0 DEF ReadInv, Transaction
<1>3. /\ old \in Row
      /\ old.last_read_seq \in Nat /\ old.last_read_seq <= tip
      /\ old.unread_count \in Nat /\ old.unread_count <= tip
      /\ (\A s \in 1..tip : messages[s].sender_user_id # u)
            => old.unread_count <= Excess(tip, old.last_read_seq)
  BY <1>0 DEF IInv, TypeOK, WithinLog, OverCountNeedsOwnSend, Fresh, Row, Excess
<1>4. /\ new \in Row
      /\ new.last_read_seq <= tip
      /\ new.unread_count <= tip
      /\ (\A s \in 1..tip : messages[s].sender_user_id # u)
            => new.unread_count <= Excess(tip, new.last_read_seq)
  <2>1. CASE old.last_read_seq < tx[t].seq
    <3>1. /\ new.last_read_seq = tx[t].seq
          /\ new.unread_count = Excess(tx[t].tip_seq, tx[t].seq)
          /\ new = [last_read_seq |-> tx[t].seq,
                    unread_count |-> Excess(tx[t].tip_seq, tx[t].seq)]
      BY <2>1 DEF Advanced
    <3>2. /\ Excess(tx[t].tip_seq, tx[t].seq) \in Nat
          /\ Excess(tx[t].tip_seq, tx[t].seq) <= tip
          /\ Excess(tx[t].tip_seq, tx[t].seq) <= Excess(tip, tx[t].seq)
      BY <1>0, <1>2 DEF Excess
    <3> QED
      BY <1>2, <3>1, <3>2 DEF Row
  <2>2. CASE ~(old.last_read_seq < tx[t].seq)
    BY <1>3, <2>2 DEF Advanced
  <2> QED
    BY <2>1, <2>2
<1> HIDE DEF old, new
<1>5. /\ tx' \in [Tx -> Transaction]
      /\ tx'[t] = Idle
      /\ \A q \in Tx : q # t => tx'[q] = tx[q]
  BY <1>1, IdleType, OneTx DEF IInv, TypeOK
<1>6. /\ state' \in [Users -> Row \cup {NoState}]
      /\ state'[u] = new
      /\ new # NoState
      /\ \A v \in Users : v # u => state'[v] = state[v]
  BY <1>0, <1>1, <1>4 DEF IInv, TypeOK
<1>7. LockInv' /\ row_lock' \in [Users -> Tx \cup {NoTx}]
  BY <1>1, <1>5, <1>6, ReleaseKeepsLocks
<1>8. TypeOK'
  BY <1>1, <1>5, <1>6, <1>7 DEF IInv, TypeOK
<1>9. tip' = tip /\ messages' = messages
  BY <1>1 DEF tip
<1>10. TxInv'
  <2>1. \A v \in Users : state[v] # NoState => state'[v] # NoState
    BY <1>6
  <2> QED
    BY <1>1, <1>5, <1>9, <2>1 DEF IInv, TxInv, JobInv, FileInv, ReadInv
<1>11. WithinLog'
  BY <1>4, <1>6, <1>9 DEF IInv, WithinLog
<1>12. OverCountNeedsOwnSend'
  <2> SUFFICES ASSUME NEW v \in Users, state'[v] # NoState,
                      \A s \in 1..tip : messages[s].sender_user_id # v
               PROVE  ~ (state'[v].unread_count > Excess(tip, state'[v].last_read_seq))
    BY <1>9 DEF OverCountNeedsOwnSend, Excess
  <2>1. CASE v = u
    <3>1. new.last_read_seq \in Nat /\ new.unread_count \in Nat
      BY <1>4 DEF Row
    <3>2. Excess(tip, new.last_read_seq) \in Nat
      BY <1>0, <3>1, ExcessBound
    <3> QED
      BY <1>4, <1>6, <2>1, <3>1, <3>2
  <2>2. CASE v # u
    BY <1>6, <2>2 DEF IInv, OverCountNeedsOwnSend
  <2> QED
    BY <2>1, <2>2
<1> QED
  BY <1>7, <1>8, <1>10, <1>11, <1>12 DEF IInv

\* What a commit makes of the log: a job leaves it, a locked send extends it by
\* the sender's message.
LEMMA CommitLog ==
  ASSUME IInv, NEW t \in Tx, Commit(t)
  PROVE  /\ tx[t] \in Transaction
         /\ tx[t].user_id \in Users
         /\ tx[t].loaded # NoState => state[tx[t].user_id] # NoState
         /\ messages' \in Seq(Message)
         /\ tip \in Nat
         /\ tx[t].seq \in Nat /\ tx[t].seq <= tip'
         /\ \A s \in 1..tip : messages'[s] = messages[s]
         /\ \E s \in 1..tip' : messages'[s].sender_user_id = tx[t].user_id
         /\ \/ /\ tx[t].op = "file" /\ tip' = tip + 1
               /\ conversation_lock = t /\ conversation_lock' = NoTx
               /\ UNCHANGED applied
            \/ /\ tx[t].op = "job" /\ tip' = tip /\ tx[t].tip_seq <= tip
               /\ UNCHANGED <<messages, conversation_lock>>
               /\ applied' = applied \cup {tx[t].seq}
<1>1. /\ tx[t] # Idle
      /\ tx[t] \in Transaction
      /\ tip \in Nat
      /\ messages \in Seq(Message)
  BY IdleType, TipNat DEF Commit, IInv, TypeOK
<1>2. /\ tx[t].user_id \in Users
      /\ \/ tx[t].op = "job" /\ JobInv(t)
         \/ tx[t].op = "file" /\ FileInv(t)
  BY <1>1 DEF IInv, TxInv, ReadInv, Commit
<1>3. CASE tx[t].op = "job" /\ JobInv(t)
  <2>1. /\ UNCHANGED <<messages, conversation_lock>>
        /\ applied' = applied \cup {tx[t].seq}
    BY <1>3 DEF Commit
  <2>2. tip' = tip
    BY <2>1 DEF tip
  <2> QED
    BY <1>1, <1>2, <1>3, <2>1, <2>2 DEF JobInv
<1>4. CASE tx[t].op = "file" /\ FileInv(t)
  <2> DEFINE m == [sender_user_id |-> tx[t].user_id, kind |-> "file"]
  <2>1. /\ messages' = Append(messages, m)
        /\ conversation_lock' = NoTx
        /\ UNCHANGED applied
    BY <1>4 DEF Commit
  <2>2. m \in Message
    BY <1>2 DEF Message
  <2>3. /\ messages' \in Seq(Message)
        /\ tip' = tip + 1
        /\ \A s \in 1..tip : messages'[s] = messages[s]
        /\ messages'[tip + 1] = m
    BY <1>1, <2>1, <2>2, AppendMessage
  <2>4. messages'[tip + 1].sender_user_id = tx[t].user_id /\ tip + 1 \in 1..tip'
    BY <1>1, <2>3
  <2>5. \E s \in 1..tip' : messages'[s].sender_user_id = tx[t].user_id
    BY <2>4
  <2>6. /\ tx[t].seq = tip + 1 /\ conversation_lock = t
        /\ tx[t].loaded # NoState => state[tx[t].user_id] # NoState
    BY <1>4 DEF FileInv
  <2>7. tx[t].seq \in Nat /\ tx[t].seq <= tip'
    BY <1>1, <2>3, <2>6
  <2> QED
    BY <1>1, <1>2, <1>4, <2>1, <2>3, <2>5, <2>6, <2>7
<1> QED
  BY <1>2, <1>3, <1>4

\* The four kinds of row a commit leaves behind.
LEMMA CommitRows ==
  ASSUME IInv, NEW t \in Tx, Commit(t), NEW v \in Users
  PROVE  \/ v = tx[t].user_id /\ row_lock[v] = NoTx /\ state'[v] = SenderRow(t)
         \/ /\ v # tx[t].user_id /\ row_lock[v] = NoTx /\ state[v] = NoState
            /\ state'[v] = Created(t)
         \/ /\ v # tx[t].user_id /\ row_lock[v] = t /\ state[v] # NoState
            /\ state'[v] = Recount(t, state[v])
         \/ v # tx[t].user_id /\ row_lock[v] # t /\ state'[v] = state[v]
<1> DEFINE u == tx[t].user_id
           missing == tx[t].missing \cup (IF tx[t].loaded = NoState THEN {u} ELSE {})
<1>1. /\ \A w \in missing \cup {u} : row_lock[w] = NoTx
      /\ \A w \in missing : state[w] = NoState
      /\ state' = [w \in Users |-> CASE w = u -> SenderRow(t)
                                     [] w \in missing \ {u} -> Created(t)
                                     [] row_lock[w] = t -> tx[t].update[w]
                                     [] OTHER -> state[w]]
  BY DEF Commit
<1>2. tx[t].op # "read"
  BY IdleType DEF Commit, IInv, TxInv, ReadInv
<1>3. row_lock[v] = t => state[v] # NoState /\ tx[t].update[v] = Recount(t, state[v])
  BY <1>2 DEF IInv, LockInv
<1> HIDE DEF missing
<1>4. CASE v = u
  BY <1>1, <1>4
<1>5. CASE v # u /\ v \in missing
  BY <1>1, <1>5
<1>6. CASE v # u /\ v \notin missing /\ row_lock[v] = t
  BY <1>1, <1>3, <1>6
<1>7. CASE v # u /\ v \notin missing /\ row_lock[v] # t
  BY <1>1, <1>7
<1> QED
  BY <1>4, <1>5, <1>6, <1>7

LEMMA SenderRowBound ==
  ASSUME IInv, NEW t \in Tx, Commit(t)
  PROVE  /\ SenderRow(t) \in Row
         /\ SenderRow(t).last_read_seq <= tip'
         /\ SenderRow(t).unread_count <= tip'
<1> DEFINE u == tx[t].user_id
<1>1. /\ u \in Users /\ tx[t].seq \in Nat /\ tx[t].seq <= tip'
      /\ tip \in Nat /\ tip' \in Nat /\ tip <= tip'
      /\ tx[t].loaded # NoState => state[u] # NoState
  BY CommitLog
<1>2. CASE tx[t].loaded = NoState
  BY <1>1, <1>2 DEF SenderRow, Row
<1>3. CASE tx[t].loaded # NoState
  <2>1. /\ state[u] \in Row
        /\ state[u].last_read_seq \in Nat /\ state[u].last_read_seq <= tip
        /\ state[u].unread_count \in Nat /\ state[u].unread_count <= tip
    BY <1>1, <1>3 DEF IInv, TypeOK, WithinLog, Row
  <2> QED
    BY <1>1, <1>3, <2>1 DEF SenderRow, Row
<1> QED
  BY <1>2, <1>3

LEMMA CreatedBound ==
  ASSUME IInv, NEW t \in Tx, Commit(t)
  PROVE  /\ Created(t) \in Row
         /\ Created(t).last_read_seq = 0
         /\ Created(t).unread_count <= tip'
<1>1. /\ tx[t] \in Transaction /\ tip \in Nat
      /\ \/ tx[t].op = "file" /\ tip' = tip + 1
         \/ tx[t].op = "job" /\ tip' = tip /\ tx[t].tip_seq <= tip
  BY CommitLog
<1>2. tx[t].tip_seq \in Nat
  BY <1>1 DEF Transaction
<1> QED
  BY <1>1, <1>2 DEF Created, Row

\* A recipient's counter grows by at most what the tip grew by.
LEMMA RecountBound ==
  ASSUME IInv, NEW t \in Tx, Commit(t), NEW v \in Users, state[v] # NoState
  PROVE  /\ Recount(t, state[v]) \in Row
         /\ Recount(t, state[v]).last_read_seq = state[v].last_read_seq
         /\ Recount(t, state[v]).unread_count <= tip'
         /\ state[v].unread_count <= Excess(tip, state[v].last_read_seq) =>
              Recount(t, state[v]).unread_count
                <= Excess(tip', state[v].last_read_seq)
<1>1. /\ tx[t] \in Transaction /\ tip \in Nat
      /\ \/ tx[t].op = "file" /\ tip' = tip + 1
         \/ tx[t].op = "job" /\ tip' = tip /\ tx[t].tip_seq <= tip
  BY CommitLog
<1>2. /\ tx[t].tip_seq \in Nat
      /\ state[v] \in Row
      /\ state[v].last_read_seq \in Nat /\ state[v].last_read_seq <= tip
      /\ state[v].unread_count \in Nat /\ state[v].unread_count <= tip
  BY <1>1 DEF Transaction, IInv, TypeOK, WithinLog, Row
<1>3. /\ Recount(t, state[v]) \in Row
      /\ Recount(t, state[v]).last_read_seq = state[v].last_read_seq
      /\ Recount(t, state[v]).unread_count =
           IF tx[t].op = "file" THEN state[v].unread_count + 1
           ELSE Excess(tx[t].tip_seq, state[v].last_read_seq)
  BY <1>2, RecountType DEF Recount
<1> QED
  BY <1>1, <1>2, <1>3 DEF Excess

LEMMA CommitKeeps ==
  ASSUME IInv, NEW t \in Tx, Commit(t)
  PROVE  IInv'
<1> DEFINE u == tx[t].user_id
<1>1. /\ tip \in Nat /\ tip' \in Nat /\ tip <= tip'
      /\ messages' \in Seq(Message)
      /\ \A s \in 1..tip : messages'[s] = messages[s]
      /\ \E s \in 1..tip' : messages'[s].sender_user_id = u
      /\ tx[t].seq \in Nat
  BY CommitLog
<1>2. /\ tx' \in [Tx -> Transaction]
      /\ tx'[t] = Idle
      /\ \A q \in Tx : q # t => tx'[q] = tx[q]
      /\ row_lock' = ReleasedBy(t)
  <2>1. tx' = [tx EXCEPT ![t] = Idle] /\ row_lock' = ReleasedBy(t)
    BY DEF Commit
  <2> QED
    BY <2>1, IdleType, OneTx DEF IInv, TypeOK
<1>3. state' = [v \in Users |-> state'[v]]
  BY DEF Commit
<1>4. \A v \in Users : state[v] # NoState => state'[v] # NoState
  BY CommitRows, SenderRowBound, RecountBound
<1>5. state' \in [Users -> Row \cup {NoState}]
  <2>1. \A v \in Users : state'[v] \in Row \cup {NoState}
    BY CommitRows, SenderRowBound, RecountBound, CreatedBound DEF IInv, TypeOK
  <2> QED
    BY <1>3, <2>1
<1>6. LockInv' /\ row_lock' \in [Users -> Tx \cup {NoTx}]
  <2>1. ASSUME NEW q \in Tx, NEW v \in Users, row_lock[v] = q, q # t
        PROVE  state'[v] = state[v]
    BY <2>1, CommitRows
  <2> QED
    BY <1>2, <2>1, ReleaseKeepsLocks
<1>7. TypeOK'
  <2>1. conversation_lock' \in Tx \cup {NoTx} /\ applied' \subseteq Nat
    <3>1. /\ \/ conversation_lock' = NoTx
             \/ conversation_lock' = conversation_lock
          /\ applied' = applied \/ applied' = applied \cup {tx[t].seq}
      BY CommitLog
    <3> QED
      BY <1>1, <3>1 DEF IInv, TypeOK
  <2> QED
    BY <1>1, <1>2, <1>5, <1>6, <2>1 DEF TypeOK
<1>8. TxInv'
  <2> SUFFICES ASSUME NEW q \in Tx, tx'[q] # Idle
               PROVE  /\ tx'[q].user_id \in Users
                      /\ \/ tx'[q].op = "job" /\ JobInv(q)'
                         \/ tx'[q].op = "file" /\ FileInv(q)'
                         \/ tx'[q].op = "read" /\ ReadInv(q)'
    BY DEF TxInv
  <2>1. q # t /\ tx'[q] = tx[q] /\ tx[q] \in Transaction
    BY <1>2 DEF IInv, TypeOK
  <2>2. /\ tx[q].user_id \in Users
        /\ \/ tx[q].op = "job" /\ JobInv(q)
           \/ tx[q].op = "file" /\ FileInv(q)
           \/ tx[q].op = "read" /\ ReadInv(q)
    BY <2>1 DEF IInv, TxInv
  <2>3. tx[q].seq \in Nat /\ tx[q].tip_seq \in Nat
    BY <2>1 DEF Transaction
  <2>4. CASE tx[q].op = "job" /\ JobInv(q)
    BY <1>1, <1>4, <2>1, <2>2, <2>3, <2>4 DEF JobInv
  <2>5. CASE tx[q].op = "read" /\ ReadInv(q)
    BY <1>1, <2>1, <2>2, <2>3, <2>5 DEF ReadInv
  <2>6. CASE tx[q].op = "file" /\ FileInv(q)
    <3>1. conversation_lock = q /\ conversation_lock' = conversation_lock /\ tip' = tip
      BY <2>1, <2>6, CommitLog DEF FileInv
    <3> QED
      BY <1>4, <2>1, <2>2, <2>6, <3>1 DEF FileInv
  <2> QED
    BY <2>2, <2>4, <2>5, <2>6
<1>9. WithinLog'
  <2> SUFFICES ASSUME NEW v \in Users, state'[v] # NoState
               PROVE  state'[v].last_read_seq <= tip' /\ state'[v].unread_count <= tip'
    BY DEF WithinLog
  <2>1. CASE v # u /\ state'[v] = state[v]
    BY <1>1, <2>1 DEF IInv, WithinLog, TypeOK, Row
  <2>2. CASE v # u /\ state[v] # NoState /\ state'[v] = Recount(t, state[v])
    BY <1>1, <2>2, RecountBound DEF IInv, WithinLog, TypeOK, Row
  <2> QED
    BY <1>1, <2>1, <2>2, CommitRows, SenderRowBound, CreatedBound
<1>10. OverCountNeedsOwnSend'
  <2> SUFFICES ASSUME NEW v \in Users, state'[v] # NoState,
                      \A s \in 1..tip' : messages'[s].sender_user_id # v
               PROVE  ~ (state'[v].unread_count > Excess(tip', state'[v].last_read_seq))
    BY DEF OverCountNeedsOwnSend, Excess
  <2>0. v # u /\ \A s \in 1..tip : messages[s].sender_user_id # v
    BY <1>1
  <2>1. CASE state'[v] = state[v]
    <3>1. /\ state[v].unread_count \in Nat /\ state[v].last_read_seq \in Nat
          /\ ~ (state[v].unread_count > Excess(tip, state[v].last_read_seq))
      BY <2>0, <2>1 DEF IInv, TypeOK, OverCountNeedsOwnSend, Row
    <3> QED
      BY <1>1, <2>1, <3>1 DEF Excess
  <2>2. CASE state[v] # NoState /\ state'[v] = Recount(t, state[v])
    <3>1. /\ state[v].unread_count \in Nat /\ state[v].last_read_seq \in Nat
          /\ ~ (state[v].unread_count > Excess(tip, state[v].last_read_seq))
      BY <2>0, <2>2 DEF IInv, TypeOK, OverCountNeedsOwnSend, Row
    <3>2. state[v].unread_count <= Excess(tip, state[v].last_read_seq)
      BY <1>1, <3>1 DEF Excess
    <3>3. /\ state'[v].unread_count <= Excess(tip', state[v].last_read_seq)
          /\ state'[v].last_read_seq = state[v].last_read_seq
          /\ state'[v] \in Row
      BY <2>2, <3>2, RecountBound
    <3> QED
      BY <1>1, <3>1, <3>3 DEF Excess, Row
  <2>3. CASE state'[v] = Created(t)
    BY <1>1, <2>3, CreatedBound DEF Excess, Row
  <2> QED
    BY <2>0, <2>1, <2>2, <2>3, CommitRows
<1> QED
  BY <1>6, <1>7, <1>8, <1>9, <1>10 DEF IInv

-----------------------------------------------------------------------------
LEMMA StutterKeeps ==
  ASSUME IInv, UNCHANGED vars
  PROVE  IInv'
<1>1. UNCHANGED <<messages, conversation_lock, state, row_lock, tx, applied>>
  BY DEF vars
<1>2. TypeOK' /\ tip' = tip
  BY <1>1 DEF IInv, TypeOK, tip
<1>3. TxInv'
  BY <1>1, <1>2 DEF IInv, TxInv, JobInv, FileInv, ReadInv
<1>4. LockInv'
  BY <1>1, SameLocks DEF IInv
<1> QED
  BY <1>1, <1>2, <1>3, <1>4, RowsUnchanged DEF IInv

LEMMA NextIInv == IInv /\ [Next]_vars => IInv'
<1> SUFFICES ASSUME IInv, [Next]_vars PROVE IInv'
  OBVIOUS
<1> QED
  BY TextSendKeeps, JobLoadKeeps, JobTipKeeps, LockedSendKeeps,
     UpdateRecipientsKeeps, CommitKeeps, ReadStartKeeps, ReadApplyKeeps,
     AbortKeeps, StutterKeeps DEF Next

\* The variables and the open transactions keep their types.
THEOREM TypeCorrect == Spec => []TypeOK
<1> QED
  BY InitIInv, NextIInv, PTL DEF Spec, IInv

\* No cursor passes the tip and no counter exceeds the number of messages,
\* whatever runs again, overlaps or fails.
THEOREM CountersWithinLog == Spec => []WithinLog
<1> QED
  BY InitIInv, NextIInv, PTL DEF Spec, IInv

\* A member who only reads is never shown more than what follows the cursor.
THEOREM ReadersNeverOverCounted == Spec => []OverCountNeedsOwnSend
<1> QED
  BY InitIInv, NextIInv, PTL DEF Spec, IInv

MovesBackOnlyByOwnJob ==
    \A u \in Users :
        /\ state[u] # NoState
        /\ \/ state'[u] = NoState
           \/ state'[u].last_read_seq < state[u].last_read_seq
        => \E t \in Tx : /\ tx[t].op = "job"
                         /\ tx[t].user_id = u
                         /\ tx'[t] = Idle
                         /\ state'[u] # NoState
                         /\ state'[u].last_read_seq = tx[t].seq

\* A locked send writes the newest number, mark_read and a recount never lower
\* a cursor: what is left is the job of an own message.
LEMMA StepMovesBack == IInv /\ [Next]_vars => [MovesBackOnlyByOwnJob]_vars
<1> SUFFICES ASSUME IInv, [Next]_vars, NEW u \in Users, state[u] # NoState,
                    state'[u] = NoState \/ state'[u].last_read_seq < state[u].last_read_seq
             PROVE  \E t \in Tx : /\ tx[t].op = "job"
                                  /\ tx[t].user_id = u
                                  /\ tx'[t] = Idle
                                  /\ state'[u] # NoState
                                  /\ state'[u].last_read_seq = tx[t].seq
  BY DEF MovesBackOnlyByOwnJob
<1>1. /\ state[u] \in Row /\ state[u].last_read_seq \in Nat
      /\ state[u].last_read_seq <= tip
  BY DEF IInv, TypeOK, WithinLog, Row
<1>2. state'[u] # state[u]
  BY <1>1
<1>3. PICK t \in Tx : Commit(t) \/ ReadApply(t)
  BY <1>2 DEF Next, TextSend, JobLoad, JobTip, LockedSend, UpdateRecipients,
              ReadStart, Abort, vars
<1>4. CASE ReadApply(t)
  <2>1. state' = [state EXCEPT ![tx[t].user_id] =
                    Advanced(IF @ = NoState THEN Fresh ELSE @, tx[t].seq, tx[t].tip_seq)]
    BY <1>4 DEF ReadApply
  <2>2. u = tx[t].user_id /\ state'[u] = Advanced(state[u], tx[t].seq, tx[t].tip_seq)
    BY <1>2, <2>1 DEF IInv, TypeOK
  <2>3. /\ state[u].last_read_seq < tx[t].seq
        /\ state'[u] = [last_read_seq |-> tx[t].seq,
                        unread_count |-> Excess(tx[t].tip_seq, tx[t].seq)]
    BY <1>2, <2>2 DEF Advanced
  <2>4. tx[t].seq \in Nat /\ tx[t].tip_seq \in Nat
    BY DEF IInv, TypeOK, Transaction
  <2>5. state'[u] \in Row
    BY <2>3, <2>4, ExcessBound DEF Row
  <2> QED
    BY <1>1, <2>3, <2>4, <2>5
<1>5. CASE Commit(t)
  <2>1. tx'[t] = Idle /\ tip \in Nat /\ tx[t].seq \in Nat
    BY <1>5, CommitLog DEF Commit, IInv, TypeOK
  <2>2. CASE u = tx[t].user_id
    <3>1. state'[u] = SenderRow(t) /\ SenderRow(t) \in Row
      BY <1>5, <2>2, CommitRows, SenderRowBound
    <3>2. state'[u].last_read_seq \in {state[u].last_read_seq, tx[t].seq}
      BY <2>2, <3>1 DEF SenderRow
    <3>3. state'[u] # NoState /\ state'[u].last_read_seq = tx[t].seq
          /\ tx[t].seq < state[u].last_read_seq
      BY <1>1, <3>1, <3>2
    <3>4. tx[t].op = "job"
      <4>1. tx[t].op # "file"
        BY <1>1, <1>5, <2>1, <3>3, IdleType DEF IInv, TxInv, FileInv, Commit
      <4> QED
        BY <1>5, <4>1, CommitLog
    <3> QED
      BY <2>1, <2>2, <3>3, <3>4
  <2>3. CASE u # tx[t].user_id
    <3>1. /\ state'[u] = Recount(t, state[u])
          /\ Recount(t, state[u]) \in Row
          /\ Recount(t, state[u]).last_read_seq = state[u].last_read_seq
      BY <1>2, <1>5, <2>3, CommitRows, RecountBound
    <3> QED
      BY <1>1, <3>1
  <2> QED
    BY <2>2, <2>3
<1> QED
  BY <1>3, <1>4, <1>5

\* A cursor moves back only to the user's own message, by its delivery job.
THEOREM CursorMonotone == Spec => OnlyOwnJobMovesBack
<1>1. Spec => [][MovesBackOnlyByOwnJob]_vars
  BY InitIInv, NextIInv, StepMovesBack, PTL DEF Spec
<1> QED
  BY <1>1 DEF OnlyOwnJobMovesBack, MovesBackOnlyByOwnJob
=============================================================================
