----------------------- MODULE ScheduledMessagesProofs -----------------------
(***************************************************************************)
(* ScheduledMessages for any number of rows and dispatchers: a row is in   *)
(* the chat at most once, "sent" is never a lie, and unless a row was      *)
(* recovered or lost a COMMIT answer its sender's decisions hold.          *)
(***************************************************************************)
EXTENDS ScheduledMessages, SequenceTheorems, TLAPS

USE ConstantsAssumption

\* A busy dispatcher works on a row, and has delivered only what is in the chat.
WorkerInv == \A w \in Workers :
                \/ worker[w] = Idle
                \/ /\ worker[w].row \in Rows
                   /\ worker[w].step # "idle"
                   /\ worker[w].step = "delivered" => InChat(worker[w].row)

\* A row that was never in doubt is in the chat only as its sender wants it ...
ChatInv == \A i \in Rows \ doubtful : InChat(i) =>
              /\ status[i] \in {"sending", "sent"}
              /\ text[i] = body[i]

\* ... and has one dispatcher at most, which holds its text as it is.
ClaimInv == \A i \in Rows \ doubtful, w \in Workers : worker[w].row = i =>
               /\ status[i] = "sending"
               /\ worker[w].body = body[i]
               /\ worker[w].step # "delivered" => ~InChat(i)
               /\ \A v \in Workers : worker[v].row = i => v = w

IInv == TypeOK /\ WorkerInv /\ NeverDuplicated /\ SentIsInChat /\ ChatInv /\ ClaimInv

-----------------------------------------------------------------------------
LEMMA EntryType == ASSUME NEW i \in Rows PROVE Entry(i) \in Chat!Entry
  BY DEF Entry, Chat!Entry

LEMMA EntryOfOneRow ==
  ASSUME NEW i \in Rows, NEW j \in Rows, Entry(i) = Entry(j) PROVE i = j
  BY DEF Entry

\* An entry the chat accepts is the row's only one, and changes no other row.
LEMMA AppendGrows ==
  ASSUME log \in Seq(Chat!Entry), NeverDuplicated, NEW i \in Rows,
         Chat!Fresh(Entry(i)), Chat!AppendEntry(Entry(i))
  PROVE  /\ log' \in Seq(Chat!Entry)
         /\ ~InChat(i)
         /\ \A j \in Rows : InChat(j)' <=> InChat(j) \/ j = i
         /\ NeverDuplicated'
<1>1. ~InChat(i)
  BY DEF Chat!Fresh, InChat, Entry
<1>2. log' = Append(log, Entry(i)) /\ Entry(i) \in Chat!Entry
  BY EntryType DEF Chat!AppendEntry
<1>3. /\ log' \in Seq(Chat!Entry)
      /\ Len(log') = Len(log) + 1
      /\ Len(log) \in Nat
      /\ log'[Len(log) + 1] = Entry(i)
      /\ \A n \in 1..Len(log) : log'[n] = log[n]
  BY <1>2
<1>4. ASSUME NEW j \in Rows PROVE InChat(j)' <=> InChat(j) \/ j = i
  <2>1. InChat(j) => InChat(j)'
    BY <1>3 DEF InChat, Entry
  <2>2. j = i => InChat(j)'
    BY <1>3 DEF InChat, Entry
  <2>3. ASSUME InChat(j)', j # i PROVE InChat(j)
    <3>1. PICK n \in 1..Len(log') : log'[n] = Entry(j)
      BY <2>3 DEF InChat, Entry
    <3>2. n # Len(log) + 1
      BY <1>3, <2>3, <3>1, EntryOfOneRow
    <3> QED
      BY <1>3, <3>1, <3>2 DEF InChat
  <2> QED
    BY <2>1, <2>2, <2>3
<1>5. ASSUME NEW m \in 1..Len(log'), NEW n \in 1..Len(log'), log'[m] = log'[n]
      PROVE  m = n
  <2>1. CASE m \in 1..Len(log) /\ n \in 1..Len(log)
    BY <1>3, <1>5, <2>1 DEF NeverDuplicated
  <2>2. CASE m = Len(log) + 1 /\ n \in 1..Len(log)
    BY <1>1, <1>3, <1>5, <2>2 DEF InChat
  <2>3. CASE n = Len(log) + 1 /\ m \in 1..Len(log)
    BY <1>1, <1>3, <1>5, <2>3 DEF InChat
  <2> QED
    BY <1>3, <2>1, <2>2, <2>3
<1> QED
  BY <1>1, <1>3, <1>4, <1>5 DEF NeverDuplicated

LEMMA InChatStays ==
  ASSUME UNCHANGED log
  PROVE  /\ \A i \in Rows : InChat(i)' <=> InChat(i)
         /\ NeverDuplicated => NeverDuplicated'
  BY DEF InChat, Entry, NeverDuplicated

LEMMA IdleType == Idle \in Worker /\ Idle.row = NoRow /\ Idle.step = "idle"
  BY DEF Idle, Worker

\* A dispatcher at work on a row is not idle.
LEMMA Busy ==
  ASSUME TypeOK, WorkerInv, NEW w \in Workers, worker[w].step # "idle"
  PROVE  worker[w] \in Worker /\ worker[w].row \in Rows
  BY IdleType DEF TypeOK, WorkerInv

LEMMA InitIInv == Init => IInv
<1> SUFFICES ASSUME Init PROVE IInv
  OBVIOUS
<1>1. log = << >> /\ Len(log) = 0 /\ log \in Seq(Chat!Entry)
  BY EmptySeq DEF Init
<1>2. TypeOK
  BY <1>1, IdleType DEF Init, TypeOK, Statuses, Editable, Settled
<1>3. \A i \in Rows : ~InChat(i)
  BY <1>1 DEF InChat
<1>4. WorkerInv /\ NeverDuplicated /\ ChatInv /\ ClaimInv
  BY <1>1, <1>3, IdleType DEF Init, WorkerInv, NeverDuplicated, ChatInv, ClaimInv
<1>5. SentIsInChat
  BY DEF Init, SentIsInChat
<1> QED
  BY <1>2, <1>4, <1>5 DEF IInv

-----------------------------------------------------------------------------
\* The sender's steps leave the dispatchers and the chat alone.
LEMMA UserIInv ==
  ASSUME IInv, NEW i \in Rows, User(i)
  PROVE  IInv'
<1> USE DEF IInv
<1>1. UNCHANGED <<worker, log, text, doubtful>>
  BY DEF User, Create, UpdateRead, UpdateWrite, Cancel, chat
<1>2. \A j \in Rows : InChat(j)' <=> InChat(j)
  BY <1>1, InChatStays
<1>3. TypeOK'
  <2>1. CASE Create(i)
    BY <2>1 DEF TypeOK, Create, chat, used, Statuses
  <2>2. CASE UpdateRead(i)
    BY <2>2 DEF TypeOK, UpdateRead, row, chat
  <2>3. CASE UpdateWrite(i)
    <3>1. /\ status' \in [Rows -> Statuses]
          /\ attempt_count' \in [Rows -> Nat]
          /\ body' \in [Rows -> Nat]
      <4>1. CASE UNCHANGED row
        BY <4>1 DEF TypeOK, row
      <4>2. CASE /\ body' = [body EXCEPT ![i] = @ + 1]
                 /\ UNCHANGED <<status, attempt_count>>
        BY <4>2 DEF TypeOK
      <4>3. CASE /\ body' = [body EXCEPT ![i] = @ + 1]
                 /\ status' = [status EXCEPT ![i] = "scheduled"]
                 /\ attempt_count' = [attempt_count EXCEPT ![i] = 0]
        BY <4>3 DEF TypeOK, Statuses
      <4> QED
        BY <2>3, <4>1, <4>2, <4>3 DEF UpdateWrite
    <3>2. editing' \in [Rows -> Editable \cup {"none"}]
      BY <2>3 DEF TypeOK, UpdateWrite
    <3> QED
      BY <2>3, <3>1, <3>2 DEF TypeOK, UpdateWrite, chat, used
  <2>4. CASE Cancel(i)
    BY <2>4 DEF TypeOK, Cancel, chat, used, Statuses, Settled
  <2> QED
    BY <2>1, <2>2, <2>3, <2>4 DEF User
<1>4. WorkerInv' /\ NeverDuplicated'
  BY <1>1, <1>2, InChatStays, IdleType DEF WorkerInv, TypeOK, Idle
<1>5. /\ \A j \in Rows : j # i => status'[j] = status[j] /\ body'[j] = body[j]
      /\ \/ status'[i] = status[i] /\ body'[i] = body[i]
         \/ /\ status[i] \in Editable \cup {"none"}
            /\ status'[i] # "sent"
  BY DEF User, Create, UpdateRead, UpdateWrite, Cancel, row, TypeOK, Editable
<1>6. SentIsInChat'
  BY <1>2, <1>5 DEF SentIsInChat
<1>7. ChatInv'
  BY <1>1, <1>2, <1>5 DEF ChatInv, Editable
<1>8. ClaimInv'
  BY <1>1, <1>2, <1>5 DEF ClaimInv, Editable
<1> QED
  BY <1>3, <1>4, <1>6, <1>7, <1>8

\* A claim takes a row that waits, hence one no dispatcher works on unless it
\* is in doubt.
LEMMA ClaimIInv ==
  ASSUME IInv, NEW i \in Rows, NEW w \in Workers, Claim(w, i)
  PROVE  IInv'
<1> USE DEF IInv
<1> DEFINE c == [row |-> i, step |-> "claimed", body |-> body[i],
                 attempt |-> attempt_count[i] + 1]
<1>1. /\ UNCHANGED <<log, text, doubtful, body, editing, edits, losses, slow>>
      /\ status[i] = "scheduled"
      /\ status' = [status EXCEPT ![i] = "sending"]
      /\ attempt_count' = [attempt_count EXCEPT ![i] = @ + 1]
      /\ worker' = [worker EXCEPT ![w] = c]
  BY DEF Claim, chat, used
<1>2. c \in Worker /\ c.row = i /\ c.step = "claimed" /\ c.body = body[i]
  BY DEF TypeOK, Worker
<1> HIDE DEF c
<1>3. TypeOK'
  BY <1>1, <1>2 DEF TypeOK, Statuses
<1>4. \A j \in Rows : InChat(j)' <=> InChat(j)
  BY <1>1, InChatStays
<1>5. /\ worker'[w] = c
      /\ \A v \in Workers : v # w => worker'[v] = worker[v]
      /\ status'[i] = "sending"
      /\ \A j \in Rows : j # i => status'[j] = status[j]
  BY <1>1 DEF TypeOK
<1>6. WorkerInv'
  BY <1>2, <1>4, <1>5 DEF WorkerInv, Idle
<1>7. NeverDuplicated' /\ SentIsInChat'
  BY <1>1, <1>4, <1>5, InChatStays DEF SentIsInChat
<1>8. ChatInv'
  BY <1>1, <1>4, <1>5 DEF ChatInv
<1>9. ClaimInv'
  <2>1. i \notin doubtful => ~InChat(i) /\ \A v \in Workers : worker[v].row # i
    BY <1>1 DEF ChatInv, ClaimInv
  <2> QED
    BY <1>1, <1>2, <1>4, <1>5, <2>1 DEF ClaimInv
<1> QED
  BY <1>3, <1>6, <1>7, <1>8, <1>9

\* Steps of a send that leave the chat alone.
LEMMA LookupIInv ==
  ASSUME IInv, NEW w \in Workers, SendLookup(w) \/ SendError(w)
  PROVE  IInv'
<1> USE DEF IInv
<1>1. PICK s \in {"delivered", "missed", "error", "refused"} :
         /\ Step(w, s)
         /\ s = "delivered" => InChat(worker[w].row)
  BY DEF SendLookup, SendError
<1>2. /\ UNCHANGED <<row, editing, chat, doubtful, used>>
      /\ worker[w].step \in {"claimed", "missed"}
  BY DEF SendLookup, SendError
<1>3. worker[w] \in Worker /\ worker[w].row \in Rows
  BY <1>2, Busy
<1>4. /\ worker' \in [Workers -> Worker]
      /\ worker'[w].step = s
      /\ worker'[w].row = worker[w].row
      /\ worker'[w].body = worker[w].body
      /\ \A v \in Workers : v # w => worker'[v] = worker[v]
  BY <1>1, <1>3 DEF Step, TypeOK, Worker
<1>5. TypeOK'
  BY <1>2, <1>4 DEF TypeOK, row, chat, used
<1>6. \A j \in Rows : InChat(j)' <=> InChat(j)
  BY <1>2, InChatStays DEF chat
<1>7. WorkerInv'
  BY <1>1, <1>3, <1>4, <1>6 DEF WorkerInv
<1>8. NeverDuplicated' /\ SentIsInChat' /\ ChatInv'
  BY <1>2, <1>6, InChatStays DEF SentIsInChat, ChatInv, row, chat
<1>9. ClaimInv'
  BY <1>2, <1>3, <1>4, <1>6 DEF ClaimInv, row
<1> QED
  BY <1>5, <1>7, <1>8, <1>9

\* The INSERT puts a row into the chat that was not there before.
LEMMA InsertIInv ==
  ASSUME IInv, NEW w \in Workers, SendInsert(w)
  PROVE  IInv'
<1> USE DEF IInv
<1> DEFINE i == worker[w].row
<1>1. /\ UNCHANGED <<row, editing, used>>
      /\ worker[w].step = "missed"
  BY DEF SendInsert
<1>2. worker[w] \in Worker /\ i \in Rows
  BY <1>1, Busy
<1>3. ASSUME NEW s \in {"delivered", "error"}, Step(w, s)
      PROVE  /\ worker' \in [Workers -> Worker]
             /\ worker'[w].step = s
             /\ worker'[w].row = i
             /\ worker'[w].body = worker[w].body
             /\ \A v \in Workers : v # w => worker'[v] = worker[v]
  BY <1>2, <1>3 DEF Step, TypeOK, Worker
<1>4. CASE /\ ~Chat!Fresh(Entry(i))
           /\ Step(w, "error")
           /\ UNCHANGED <<chat, doubtful>>
  <2>1. \A j \in Rows : InChat(j)' <=> InChat(j)
    BY <1>4, InChatStays DEF chat
  <2>2. TypeOK' /\ WorkerInv'
    BY <1>1, <1>2, <1>3, <1>4, <2>1 DEF TypeOK, WorkerInv, row, chat, used
  <2>3. NeverDuplicated' /\ SentIsInChat' /\ ChatInv'
    BY <1>1, <1>4, <2>1, InChatStays DEF SentIsInChat, ChatInv, row, chat
  <2>4. ClaimInv'
    BY <1>1, <1>2, <1>3, <1>4, <2>1 DEF ClaimInv, row
  <2> QED
    BY <2>2, <2>3, <2>4
<1>5. ASSUME /\ Chat!Fresh(Entry(i))
             /\ Chat!AppendEntry(Entry(i))
             /\ text' = [text EXCEPT ![i] = worker[w].body],
             NEW s \in {"delivered", "error"}, Step(w, s),
             \/ s = "delivered" /\ doubtful' = doubtful
             \/ s = "error" /\ doubtful' = doubtful \cup {i}
      PROVE  IInv'
  <2>1. /\ log' \in Seq(Chat!Entry)
        /\ ~InChat(i)
        /\ \A j \in Rows : InChat(j)' <=> InChat(j) \/ j = i
        /\ NeverDuplicated'
    BY <1>2, <1>5, AppendGrows DEF TypeOK
  <2>2. text' \in [Rows -> Nat]
    BY <1>2, <1>5 DEF TypeOK, Worker
  <2>3. TypeOK'
    BY <1>1, <1>2, <1>3, <1>5, <2>1, <2>2 DEF TypeOK, row, used
  <2>4. WorkerInv'
    BY <1>2, <1>3, <1>5, <2>1 DEF WorkerInv
  <2>5. SentIsInChat'
    BY <1>1, <2>1 DEF SentIsInChat, row
  <2>6. ChatInv'
    BY <1>1, <1>2, <1>5, <2>1 DEF ChatInv, ClaimInv, TypeOK, row
  <2>7. ClaimInv'
    BY <1>1, <1>2, <1>3, <1>5, <2>1 DEF ClaimInv, row
  <2> QED
    BY <2>1, <2>3, <2>4, <2>5, <2>6, <2>7
<1>6. CASE /\ Chat!Fresh(Entry(i))
           /\ Chat!AppendEntry(Entry(i))
           /\ text' = [text EXCEPT ![i] = worker[w].body]
           /\ \/ Step(w, "delivered") /\ UNCHANGED doubtful
              \/ Step(w, "error") /\ doubtful' = doubtful \cup {i}
  BY <1>5, <1>6
<1> QED
  BY <1>4, <1>6 DEF SendInsert

\* A dispatcher records an outcome, or is lost, and is idle again.
LEMMA OutcomeIInv ==
  ASSUME IInv, NEW w \in Workers, MarkSent(w) \/ MarkFailed(w) \/ Lose(w)
  PROVE  IInv'
<1> USE DEF IInv
<1> DEFINE i == worker[w].row
<1>1. worker[w].step # "idle"
  BY DEF MarkSent, MarkFailed, Lose, WorkerInv
<1>2. worker[w] \in Worker /\ i \in Rows
  BY <1>1, Busy
<1>3. /\ UNCHANGED <<attempt_count, body, editing, log, text, doubtful>>
      /\ worker' = [worker EXCEPT ![w] = Idle]
  BY DEF MarkSent, MarkFailed, Lose, row, chat
<1>4. /\ status' \in [Rows -> Statuses]
      /\ \A j \in Rows : j # i => status'[j] = status[j]
      /\ \/ status'[i] = status[i]
         \/ status'[i] = "sent" /\ worker[w].step = "delivered"
         \/ /\ status'[i] \in {"failed", "scheduled"}
            /\ worker[w].step \in {"error", "refused"}
  BY <1>2 DEF MarkSent, MarkFailed, Lose, row, TypeOK, Statuses, Settled
<1>5. TypeOK'
  BY <1>3, <1>4, IdleType DEF TypeOK, MarkSent, MarkFailed, Lose, used
<1>6. /\ worker'[w] = Idle
      /\ \A v \in Workers : v # w => worker'[v] = worker[v]
  BY <1>3 DEF TypeOK
<1>7. \A j \in Rows : InChat(j)' <=> InChat(j)
  BY <1>3, InChatStays
<1>8. WorkerInv'
  BY <1>6, <1>7 DEF WorkerInv, Idle
<1>9. NeverDuplicated' /\ SentIsInChat'
  BY <1>2, <1>3, <1>4, <1>7, InChatStays DEF SentIsInChat, WorkerInv, Idle
<1>10. ChatInv'
  BY <1>2, <1>3, <1>4, <1>7 DEF ChatInv, ClaimInv
<1>11. ClaimInv'
  BY <1>2, <1>3, <1>4, <1>6, <1>7, IdleType DEF ClaimInv
<1> QED
  BY <1>5, <1>8, <1>9, <1>10, <1>11

\* A recovered row is in doubt from then on.
LEMMA RecoverIInv ==
  ASSUME IInv, NEW i \in Rows, RecoverStuck(i)
  PROVE  IInv'
<1> USE DEF IInv
<1>1. /\ UNCHANGED <<attempt_count, body, editing, worker, log, text, edits, losses>>
      /\ status' = [status EXCEPT ![i] = "scheduled"]
      /\ doubtful' = doubtful \cup {i}
      /\ slow' \in Nat
  BY DEF RecoverStuck, chat, TypeOK
<1>2. TypeOK'
  BY <1>1 DEF TypeOK, Statuses
<1>3. \A j \in Rows : InChat(j)' <=> InChat(j)
  BY <1>1, InChatStays
<1>4. \A j \in Rows : j # i => status'[j] = status[j]
  BY <1>1 DEF TypeOK
<1>5. WorkerInv' /\ NeverDuplicated'
  BY <1>1, <1>3, InChatStays DEF WorkerInv, Idle
<1>6. SentIsInChat'
  BY <1>1, <1>3, <1>4 DEF SentIsInChat, TypeOK
<1>7. ChatInv' /\ ClaimInv'
  BY <1>1, <1>3, <1>4 DEF ChatInv, ClaimInv
<1> QED
  BY <1>2, <1>5, <1>6, <1>7

LEMMA NextIInv == IInv /\ [Next]_vars => IInv'
<1> SUFFICES ASSUME IInv, [Next]_vars PROVE IInv'
  OBVIOUS
<1>1. CASE UNCHANGED vars
  <2>1. UNCHANGED <<status, body, worker, doubtful, log, text, attempt_count,
                    editing, edits, losses, slow>>
    BY <1>1 DEF vars, row, chat, used
  <2>2. TypeOK' /\ WorkerInv' /\ NeverDuplicated'
    BY <2>1 DEF IInv, TypeOK, WorkerInv, NeverDuplicated, InChat, Entry, Idle
  <2>3. SentIsInChat' /\ ChatInv' /\ ClaimInv'
    BY <2>1, InChatStays DEF IInv, SentIsInChat, ChatInv, ClaimInv
  <2> QED
    BY <2>2, <2>3 DEF IInv
<1>2. CASE \E i \in Rows : User(i) \/ RecoverStuck(i)
  BY <1>2, UserIInv, RecoverIInv
<1>3. CASE \E w \in Workers : \/ \E i \in Rows : Claim(w, i)
                              \/ Dispatch(w)
                              \/ Lose(w)
  BY <1>3, ClaimIInv, LookupIInv, InsertIInv, OutcomeIInv DEF Dispatch
<1> QED
  BY <1>1, <1>2, <1>3 DEF Next

LEMMA Invariant == Spec => []IInv
  BY InitIInv, NextIInv, PTL DEF Spec

-----------------------------------------------------------------------------
\* Every column, every dispatcher's snapshot and the chat keep their types.
THEOREM TypeCorrect == Spec => []TypeOK
  BY Invariant, PTL DEF IInv

\* However many dispatchers, crashes and recoveries there are, a scheduled
\* message appears in the chat at most once.
THEOREM SentOnce == Spec => []NeverDuplicated
  BY Invariant, PTL DEF IInv

\* A row that says sent has its message in the chat.
THEOREM SentIsTrue == Spec => []SentIsInChat
  BY Invariant, PTL DEF IInv

\* Unless a row was recovered or a COMMIT answer was lost, cancelled means not
\* in the chat and sent means sent with the last saved text.
THEOREM SenderIsObeyed == Spec => []SenderDecides
<1>1. IInv => SenderDecides
  BY DEF IInv, ChatInv, SentIsInChat, SenderDecides
<1> QED
  BY <1>1, Invariant, PTL

-----------------------------------------------------------------------------
\* The row of a late worker is in doubt.
LEMMA OutcomeStands ==
  ASSUME IInv, [Next]_vars, NEW i \in Rows \ doubtful',
         status[i] \in {"sent", "cancelled"}
  PROVE  status'[i] = status[i]
<1>1. i \notin doubtful
  BY DEF Next, User, Create, UpdateRead, UpdateWrite, Cancel, RecoverStuck, Claim,
     Dispatch, SendLookup, SendInsert, SendError, MarkSent, MarkFailed, Lose, vars
<1>2. status \in [Rows -> Statuses]
  BY DEF IInv, TypeOK
<1>3. \A w \in Workers : worker[w].row # i
  BY <1>1 DEF IInv, ClaimInv
<1>4. ASSUME NEW j \in Rows, User(j) \/ RecoverStuck(j)
      PROVE  status'[i] = status[i]
  BY <1>2, <1>4 DEF User, Create, UpdateRead, UpdateWrite, Cancel, RecoverStuck,
     row, Editable
<1>5. ASSUME NEW w \in Workers, NEW j \in Rows, Claim(w, j)
      PROVE  status'[i] = status[i]
  BY <1>2, <1>5 DEF Claim
<1>6. ASSUME NEW w \in Workers, Dispatch(w) \/ Lose(w)
      PROVE  status'[i] = status[i]
  BY <1>2, <1>3, <1>6 DEF Dispatch, SendLookup, SendInsert, SendError, MarkSent,
     MarkFailed, Lose, row
<1> QED
  BY <1>4, <1>5, <1>6 DEF Next, vars, row

\* What a dispatcher or the sender settled stands, unless the row was recovered
\* or lost a COMMIT answer: outside doubt no late worker turns a delivered
\* message into a failed one or a retry, or a cancelled one into anything else.
THEOREM UndoubtedOutcomeStands ==
  Spec => [][\A i \in Rows \ doubtful' : status[i] \in {"sent", "cancelled"}
                                             => status'[i] = status[i]]_vars
<1>1. IInv /\ [Next]_vars
      => [\A i \in Rows \ doubtful' : status[i] \in {"sent", "cancelled"}
                                          => status'[i] = status[i]]_vars
  BY OutcomeStands
<1> QED
  BY <1>1, Invariant, PTL DEF Spec

\* The dispatchers use the chat only as ConversationLog allows, which is what
\* ChatSend implements: whatever is recovered, repeated or lost, they append
\* entries with a client id of their own row and never touch one.
THEOREM ChatIsALog == Spec => Chat!Spec
<1>1. Init => Chat!Init
  BY DEF Init, Chat!Init
<1>2. ASSUME IInv, [Next]_vars
      PROVE  [Chat!Next]_log
  <2>1. ASSUME NEW w \in Workers, SendInsert(w)
        PROVE  Chat!Next \/ UNCHANGED log
    <3>1. worker[w].row \in Rows
      <4>1. worker[w].step # "idle" /\ TypeOK /\ WorkerInv
        BY <1>2, <2>1 DEF IInv, SendInsert
      <4> QED
        BY <4>1, Busy
    <3>2. Entry(worker[w].row) \in Chat!Entry
      BY <3>1, EntryType
    <3> QED
      BY <2>1, <3>2 DEF SendInsert, Chat!Next, chat
  <2>2. CASE \E i \in Rows : User(i) \/ RecoverStuck(i)
    BY <2>2 DEF User, Create, UpdateRead, UpdateWrite, Cancel, RecoverStuck, chat
  <2>3. ASSUME NEW w \in Workers,
               (\E i \in Rows : Claim(w, i)) \/ Dispatch(w) \/ Lose(w)
        PROVE  Chat!Next \/ UNCHANGED log
    BY <2>1, <2>3 DEF Claim, Dispatch, SendLookup, SendError, MarkSent, MarkFailed,
       Lose, chat
  <2> QED
    BY <1>2, <2>2, <2>3 DEF Next, vars, chat
<1> QED
  BY <1>1, <1>2, Invariant, PTL DEF Spec, Chat!Spec
=============================================================================
