-------------------------- MODULE EventOutboxProofs --------------------------
(***************************************************************************)
(* EventOutbox for any number of messages, tasks and nodes: an outcome is  *)
(* never a lie or premature, although it is written by id alone, and a job *)
(* that no recovery took for stale has one task and keeps its outcome.     *)
(***************************************************************************)
EXTENDS EventOutbox, TLAPS

USE ConstantsAssumption

\* What a task knows of its job stays true whatever others do to the row.
WorkerInv == \A w \in Workers :
                \/ worker[w] = Idle
                \/ /\ worker[w].message \in Messages
                   /\ worker[w].step # "idle"
                   /\ worker[w].step = "applied" => worker[w].message \in applied
                   /\ worker[w].attempt <= attempt_count[worker[w].message]

\* A job that was never in doubt is processing as long as its only task lives.
ClaimInv == \A m \in Messages \ doubtful, w \in Workers :
               worker[w].message = m =>
                  /\ status[m] = "processing"
                  /\ \A v \in Workers : worker[v].message = m => v = w

\* What a recovery is about to put back is in doubt.
StaleInv == \A p \in Pollers : stale[p] \subseteq doubtful

IInv == /\ TypeOK
        /\ WorkerInv
        /\ ClaimInv
        /\ StaleInv
        /\ DeliveredWasApplied
        /\ FailedAfterAllAttempts

-----------------------------------------------------------------------------
LEMMA IdleType == /\ Idle \in Worker
                  /\ Idle.message = NoMessage
                  /\ Idle.step = "idle"
  BY DEF Idle, Worker

\* A task that is not idle works on the job of some message.
LEMMA Busy ==
  ASSUME IInv, NEW w \in Workers, worker[w].step # "idle"
  PROVE  /\ worker[w] \in Worker
         /\ worker[w].message \in Messages
         /\ worker[w].attempt <= attempt_count[worker[w].message]
  BY IdleType DEF IInv, TypeOK, WorkerInv

LEMMA InitIInv == Init => IInv
<1> SUFFICES ASSUME Init PROVE IInv
  OBVIOUS
<1>1. TypeOK
  BY IdleType DEF Init, TypeOK, Statuses
<1>2. WorkerInv /\ ClaimInv
  BY IdleType DEF Init, WorkerInv, ClaimInv
<1>3. StaleInv /\ DeliveredWasApplied /\ FailedAfterAllAttempts
  BY DEF Init, StaleInv, DeliveredWasApplied, FailedAfterAllAttempts
<1> QED
  BY <1>1, <1>2, <1>3 DEF IInv

-----------------------------------------------------------------------------
\* Sends, hand-overs and inserts touch no task, and only rows that were not
\* there: an insert never meets a row in progress or settled.
LEMMA MessageIInv ==
  ASSUME IInv, NEW m \in Messages,
         Send(m) \/ Enqueue(m) \/ DropHandover(m) \/ Age(m) \/ Repair(m)
  PROVE  IInv'
<1> USE DEF IInv
<1>1. /\ UNCHANGED <<attempt_count, worker, stale, applied, doubtful, slow>>
      /\ \/ UNCHANGED status
         \/ status' = [status EXCEPT ![m] = IF @ = "none" THEN "queued" ELSE @]
  BY DEF Send, Enqueue, DropHandover, Age, Repair, Insert, job, used
<1>2. /\ status' \in [Messages -> Statuses]
      /\ \A n \in Messages : \/ status'[n] = status[n]
                             \/ status[n] = "none" /\ status'[n] = "queued"
  BY <1>1 DEF TypeOK, Statuses
<1>3. /\ kind' \in [Messages -> {"none", "text", "rich"}]
      /\ recent' \subseteq Messages
      /\ handover' \subseteq Messages
      /\ losses' \in Nat
  BY DEF Send, Enqueue, DropHandover, Age, Repair, message, used, TypeOK
<1>4. TypeOK'
  BY <1>1, <1>2, <1>3 DEF TypeOK
<1>5. WorkerInv' /\ StaleInv'
  BY <1>1 DEF WorkerInv, StaleInv, Idle
<1>6. ClaimInv'
  BY <1>1, <1>2 DEF ClaimInv
<1>7. DeliveredWasApplied' /\ FailedAfterAllAttempts'
  BY <1>1, <1>2 DEF DeliveredWasApplied, FailedAfterAllAttempts
<1> QED
  BY <1>4, <1>5, <1>6, <1>7

\* A claim takes a queued job, hence one nobody works on unless it is in doubt.
LEMMA ClaimIInv ==
  ASSUME IInv, NEW m \in Messages, NEW w \in Workers, Claim(w, m)
  PROVE  IInv'
<1> USE DEF IInv
<1> DEFINE c == [message |-> m, step |-> "claimed", attempt |-> attempt_count[m] + 1]
<1>1. /\ UNCHANGED <<kind, recent, handover, stale, applied, doubtful, losses, slow>>
      /\ status[m] = "queued"
      /\ status' = [status EXCEPT ![m] = "processing"]
      /\ attempt_count' = [attempt_count EXCEPT ![m] = @ + 1]
      /\ worker' = [worker EXCEPT ![w] = c]
  BY DEF Claim, message, used
<1>2. /\ c \in Worker
      /\ c.message = m /\ c.step = "claimed" /\ c.attempt = attempt_count[m] + 1
  BY DEF TypeOK, Worker
<1> HIDE DEF c
<1>3. TypeOK'
  BY <1>1, <1>2 DEF TypeOK, Statuses
<1>4. /\ worker'[w] = c
      /\ \A v \in Workers : v # w => worker'[v] = worker[v]
      /\ status'[m] = "processing"
      /\ \A n \in Messages : n # m => status'[n] = status[n]
      /\ attempt_count'[m] = attempt_count[m] + 1
      /\ \A n \in Messages : n # m => attempt_count'[n] = attempt_count[n]
      /\ \A n \in Messages : attempt_count[n] \in Nat
      /\ \A v \in Workers : worker[v].attempt \in Nat
  BY <1>1 DEF TypeOK, Worker
<1>5. WorkerInv'
  BY <1>1, <1>2, <1>4 DEF WorkerInv, Idle
<1>6. ClaimInv'
  BY <1>1, <1>2, <1>4 DEF ClaimInv
<1>7. StaleInv' /\ DeliveredWasApplied'
  BY <1>1, <1>4 DEF StaleInv, DeliveredWasApplied
<1>8. FailedAfterAllAttempts'
  BY <1>1, <1>4 DEF FailedAfterAllAttempts
<1> QED
  BY <1>3, <1>5, <1>6, <1>7, <1>8

\* A task moves on without touching its row.
LEMMA StepIInv ==
  ASSUME IInv, NEW w \in Workers, NEW s \in {"applied", "error"},
         worker[w].step # "idle", Step(w, s),
         UNCHANGED <<message, job, stale, doubtful, used>>,
         \/ UNCHANGED applied
         \/ applied' = applied \cup {worker[w].message},
         s = "applied" => worker[w].message \in applied'
  PROVE  IInv'
<1> USE DEF IInv
<1>1. worker[w] \in Worker /\ worker[w].message \in Messages
  BY Busy
<1>2. /\ worker' \in [Workers -> Worker]
      /\ worker'[w].step = s
      /\ worker'[w].message = worker[w].message
      /\ worker'[w].attempt = worker[w].attempt
      /\ \A v \in Workers : v # w => worker'[v] = worker[v]
  BY <1>1 DEF Step, TypeOK, Worker
<1>3. applied \subseteq applied' /\ applied' \subseteq Messages
  BY <1>1 DEF TypeOK
<1>4. TypeOK'
  BY <1>2, <1>3 DEF TypeOK, message, job, used
<1>5. WorkerInv'
  BY <1>1, <1>2, <1>3, Busy DEF WorkerInv, job
<1>6. ClaimInv' /\ StaleInv'
  BY <1>2 DEF ClaimInv, StaleInv, job
<1>7. DeliveredWasApplied' /\ FailedAfterAllAttempts'
  BY <1>3 DEF DeliveredWasApplied, FailedAfterAllAttempts, job
<1> QED
  BY <1>4, <1>5, <1>6, <1>7

\* "delivered" is committed, but the task does not learn it and goes on to
\* overwrite it: the job is in doubt from then on.
LEMMA UnansweredIInv ==
  ASSUME IInv, NEW w \in Workers, MarkDelivered(w),
         status' = [status EXCEPT ![worker[w].message] = "delivered"],
         Step(w, "error"),
         doubtful' = doubtful \cup {worker[w].message}
  PROVE  IInv'
<1> USE DEF IInv
<1> DEFINE m == worker[w].message
<1>1. /\ UNCHANGED <<message, attempt_count, stale, applied, used>>
      /\ worker[w].step = "applied"
  BY DEF MarkDelivered
<1>2. /\ worker[w] \in Worker
      /\ m \in Messages /\ m \in applied
      /\ worker[w].attempt <= attempt_count[m]
  BY <1>1, Busy, IdleType DEF WorkerInv
<1>3. /\ worker' \in [Workers -> Worker]
      /\ worker'[w].step = "error"
      /\ worker'[w].message = m
      /\ worker'[w].attempt = worker[w].attempt
      /\ \A v \in Workers : v # w => worker'[v] = worker[v]
  BY <1>2 DEF Step, TypeOK, Worker
<1>4. /\ status' \in [Messages -> Statuses]
      /\ status'[m] = "delivered"
      /\ \A n \in Messages : n # m => status'[n] = status[n]
  BY <1>2 DEF TypeOK, Statuses, Settled
<1>5. TypeOK'
  BY <1>1, <1>2, <1>3, <1>4 DEF TypeOK, message, used
<1>6. WorkerInv'
  BY <1>1, <1>2, <1>3 DEF WorkerInv
<1>7. ClaimInv' /\ StaleInv'
  BY <1>1, <1>3, <1>4 DEF ClaimInv, StaleInv
<1>8. DeliveredWasApplied' /\ FailedAfterAllAttempts'
  BY <1>1, <1>2, <1>4 DEF DeliveredWasApplied, FailedAfterAllAttempts
<1> QED
  BY <1>5, <1>6, <1>7, <1>8

\* A task writes its outcome by id, or is lost, and is idle again.
LEMMA OutcomeIInv ==
  ASSUME IInv, NEW w \in Workers, worker[w].step # "idle",
         worker' = [worker EXCEPT ![w] = Idle],
         UNCHANGED <<message, attempt_count, stale, applied, doubtful, slow>>,
         losses' \in Nat,
         NEW s \in Statuses,
         status' = status \/ status' = [status EXCEPT ![worker[w].message] = s],
         s = "delivered" => worker[w].message \in applied,
         s = "failed" => worker[w].attempt >= MaxAttempts
  PROVE  IInv'
<1> USE DEF IInv
<1> DEFINE m == worker[w].message
<1>1. /\ worker[w] \in Worker
      /\ m \in Messages
      /\ worker[w].attempt <= attempt_count[m]
  BY Busy
<1>2. /\ status' \in [Messages -> Statuses]
      /\ status'[m] = status[m] \/ status'[m] = s
      /\ \A n \in Messages : n # m => status'[n] = status[n]
  BY <1>1 DEF TypeOK
<1>3. /\ worker' \in [Workers -> Worker]
      /\ worker'[w] = Idle
      /\ \A v \in Workers : v # w => worker'[v] = worker[v]
  BY IdleType DEF TypeOK
<1>4. TypeOK'
  BY <1>2, <1>3 DEF TypeOK, message
<1>5. WorkerInv' /\ StaleInv'
  BY <1>3 DEF WorkerInv, StaleInv, Idle
<1>6. ClaimInv'
  BY <1>1, <1>2, <1>3, IdleType DEF ClaimInv
<1>7. DeliveredWasApplied'
  BY <1>1, <1>2 DEF DeliveredWasApplied
<1>8. FailedAfterAllAttempts'
  BY <1>1, <1>2 DEF FailedAfterAllAttempts, TypeOK, Worker
<1> QED
  BY <1>4, <1>5, <1>6, <1>7, <1>8

LEMMA WorkerIInv ==
  ASSUME IInv, NEW w \in Workers, Process(w) \/ Lose(w)
  PROVE  IInv'
<1>1. CASE Apply(w)
  <2>1. worker[w].step # "idle"
    BY <1>1 DEF Apply
  <2>2. PICK s \in {"applied", "error"} :
           /\ Step(w, s)
           /\ s = "applied" => applied' = applied \cup {worker[w].message}
           /\ \/ UNCHANGED applied
              \/ applied' = applied \cup {worker[w].message}
    BY <1>1 DEF Apply
  <2> QED
    BY <1>1, <2>1, <2>2, StepIInv DEF Apply
<1>2. CASE MarkDelivered(w)
  <2>1. worker[w].step # "idle" /\ worker[w].message \in applied
    BY <1>2, IdleType DEF MarkDelivered, IInv, WorkerInv
  <2>2. CASE Step(w, "error") /\ UNCHANGED <<status, doubtful>>
    BY <1>2, <2>1, <2>2, StepIInv DEF MarkDelivered, job
  <2>3. CASE /\ status' = [status EXCEPT ![worker[w].message] = "delivered"]
             /\ worker' = [worker EXCEPT ![w] = Idle]
             /\ UNCHANGED doubtful
    BY <1>2, <2>1, <2>3, OutcomeIInv DEF MarkDelivered, Statuses, Settled, used, IInv, TypeOK
  <2>4. CASE /\ status' = [status EXCEPT ![worker[w].message] = "delivered"]
             /\ Step(w, "error")
             /\ doubtful' = doubtful \cup {worker[w].message}
    BY <1>2, <2>4, UnansweredIInv
  <2> QED
    BY <1>2, <2>2, <2>3, <2>4 DEF MarkDelivered
<1>3. CASE MarkError(w)
  <2>1. worker[w].step # "idle"
    BY <1>3 DEF MarkError
  <2>2. PICK s \in {"failed", "queued"} :
           /\ status' = [status EXCEPT ![worker[w].message] = s]
           /\ s = "failed" => worker[w].attempt >= MaxAttempts
    BY <1>3 DEF MarkError
  <2> QED
    BY <1>3, <2>1, <2>2, OutcomeIInv DEF MarkError, Statuses, Settled, used, IInv, TypeOK
<1>4. CASE Lose(w)
  <2>1. worker[w].step # "idle"
    BY <1>4 DEF Lose, IInv, WorkerInv
  <2>2. losses' \in Nat /\ UNCHANGED status
    BY <1>4 DEF Lose, IInv, TypeOK, job
  <2> QED
    BY <1>4, <2>1, <2>2, OutcomeIInv DEF Lose, job, Statuses
<1> QED
  BY <1>1, <1>2, <1>3, <1>4 DEF Process

\* A recovery puts a job in doubt before it writes the row.
LEMMA RecoverIInv ==
  ASSUME IInv, NEW m \in Messages, NEW p \in Pollers,
         RecoverRead(p, m) \/ RecoverWrite(p, m)
  PROVE  IInv'
<1> USE DEF IInv
<1>1. /\ UNCHANGED <<kind, recent, handover, attempt_count, worker, applied, losses>>
      /\ slow' \in Nat
      /\ doubtful \subseteq doubtful' /\ doubtful' \subseteq Messages
      /\ stale' \in [Pollers -> SUBSET Messages]
      /\ \A q \in Pollers : stale'[q] \subseteq stale[q] \cup (doubtful' \cap {m})
  BY DEF RecoverRead, RecoverWrite, message, job, used, TypeOK
<1>2. /\ status' \in [Messages -> Statuses]
      /\ \A n \in Messages : n # m => status'[n] = status[n]
      /\ \/ status'[m] = status[m]
         \/ status'[m] = "queued" /\ m \in doubtful
  BY DEF RecoverRead, RecoverWrite, job, TypeOK, Statuses, StaleInv
<1>3. TypeOK'
  BY <1>1, <1>2 DEF TypeOK
<1>4. WorkerInv' /\ StaleInv'
  BY <1>1 DEF WorkerInv, StaleInv, Idle
<1>5. ClaimInv'
  BY <1>1, <1>2 DEF ClaimInv
<1>6. DeliveredWasApplied' /\ FailedAfterAllAttempts'
  BY <1>1, <1>2 DEF DeliveredWasApplied, FailedAfterAllAttempts
<1> QED
  BY <1>3, <1>4, <1>5, <1>6

LEMMA NextIInv == IInv /\ [Next]_vars => IInv'
<1> SUFFICES ASSUME IInv, [Next]_vars PROVE IInv'
  OBVIOUS
<1>1. CASE UNCHANGED vars
  BY <1>1 DEF vars, message, job, used, IInv, TypeOK, WorkerInv, ClaimInv,
              StaleInv, DeliveredWasApplied, FailedAfterAllAttempts, Idle
<1>2. CASE Next
  BY <1>2, MessageIInv, ClaimIInv, WorkerIInv, RecoverIInv DEF Next
<1> QED
  BY <1>1, <1>2

LEMMA Invariant == Spec => []IInv
  BY InitIInv, NextIInv, PTL DEF Spec

-----------------------------------------------------------------------------
\* Every column, every task's snapshot and every recovery's list keep their
\* types; an attempt count in particular never goes below zero.
THEOREM TypeCorrect == Spec => []TypeOK
  BY Invariant, PTL DEF IInv

\* A job says delivered only if its delivery state was committed, although
\* mark_delivered asks nothing of the row it writes.
THEOREM DeliveredIsTrue == Spec => []DeliveredWasApplied
  BY Invariant, PTL DEF IInv

\* A job says failed only after CHAT_EVENT_OUTBOX_MAX_ATTEMPTS claims.
THEOREM NoEarlyGivingUp == Spec => []FailedAfterAllAttempts
  BY Invariant, PTL DEF IInv

\* Without a recovery, the claim by poll and the claim by message exclude
\* each other.
THEOREM ExclusiveClaim == Spec => []OneWorkerPerJob
<1>1. IInv => OneWorkerPerJob
  BY IdleType DEF IInv, TypeOK, Worker, ClaimInv, OneWorkerPerJob
<1> QED
  BY <1>1, Invariant, PTL

\* An outcome is final unless a recovery took the job for stale: neither the
\* late enqueue nor the repair nor another task's outcome replaces it.
THEOREM OutcomeIsFinal == Spec => SettledStaysSettled
<1>1. ASSUME IInv, [Next]_vars
      PROVE  [\A m \in Messages \ doubtful :
                 status[m] \in Settled => status'[m] = status[m]]_vars
  <2> SUFFICES ASSUME NEW m \in Messages \ doubtful, status[m] \in Settled, Next
               PROVE  status'[m] = status[m]
    BY <1>1
  <2>1. status \in [Messages -> Statuses]
    BY <1>1 DEF IInv, TypeOK
  <2>2. status[m] # "none" /\ status[m] # "queued" /\ status[m] # "processing"
    BY DEF Settled
  <2>3. CASE \E n \in Messages :
                Send(n) \/ Enqueue(n) \/ DropHandover(n) \/ Age(n) \/ Repair(n)
    BY <2>1, <2>2, <2>3 DEF Send, Enqueue, DropHandover, Age, Repair, Insert, job
  <2>4. CASE \E n \in Messages, w \in Workers : Claim(w, n)
    BY <2>1, <2>2, <2>4 DEF Claim
  <2>5. CASE \E n \in Messages, p \in Pollers : RecoverRead(p, n) \/ RecoverWrite(p, n)
    BY <1>1, <2>1, <2>5 DEF RecoverRead, RecoverWrite, job, IInv, StaleInv
  <2>6. CASE \E w \in Workers : Process(w) \/ Lose(w)
    <3>1. PICK w \in Workers : Process(w) \/ Lose(w)
      BY <2>6
    <3>2. worker[w].message # m
      BY <1>1, <2>2 DEF IInv, ClaimInv
    <3> QED
      BY <2>1, <3>1, <3>2 DEF Process, Apply, MarkDelivered, MarkError, Lose, job
  <2> QED
    BY <2>3, <2>4, <2>5, <2>6 DEF Next
<1> QED
  BY <1>1, Invariant, PTL DEF Spec, SettledStaysSettled

-----------------------------------------------------------------------------
(* How often a job is tried.                                               *)

\* Outside doubt the count of the row is that of its task, and what waits for
\* a task has an attempt left.
CountInv == \A m \in Messages \ doubtful :
               /\ attempt_count[m] <= MaxAttempts
               /\ status[m] \in {"none", "queued"} => attempt_count[m] < MaxAttempts
               /\ \A w \in Workers : worker[w].message = m =>
                                        worker[w].attempt = attempt_count[m]

LEMMA NextCountInv ==
  ASSUME IInv, CountInv, [Next]_vars
  PROVE  CountInv'
<1>0. /\ status \in [Messages -> Statuses] /\ attempt_count \in [Messages -> Nat]
      /\ worker \in [Workers -> Worker]
      /\ MaxAttempts \in Nat /\ doubtful \subseteq doubtful'
  BY DEF IInv, TypeOK, Next, Send, Enqueue, DropHandover, Age, Repair, Claim,
     RecoverRead, RecoverWrite, Process, Apply, MarkDelivered, MarkError, Lose,
     vars
<1>1. ASSUME NEW n \in Messages,
             Send(n) \/ Enqueue(n) \/ DropHandover(n) \/ Age(n) \/ Repair(n)
      PROVE  CountInv'
  <2>1. /\ UNCHANGED <<attempt_count, worker, doubtful>>
        /\ \A m \in Messages : \/ status'[m] = status[m]
                               \/ status[m] = "none" /\ status'[m] = "queued"
    BY <1>0, <1>1 DEF Send, Enqueue, DropHandover, Age, Repair, Insert, job
  <2> QED
    BY <2>1 DEF CountInv
<1>2. ASSUME NEW n \in Messages, NEW v \in Workers, Claim(v, n)
      PROVE  CountInv'
  <2> DEFINE c == [message |-> n, step |-> "claimed", attempt |-> attempt_count[n] + 1]
  <2>1. /\ worker' = [worker EXCEPT ![v] = c]
        /\ c.message = n /\ c.attempt = attempt_count[n] + 1
        /\ status[n] = "queued" /\ UNCHANGED doubtful
    BY <1>2 DEF Claim
  <2> HIDE DEF c
  <2>2. /\ status'[n] = "processing" /\ attempt_count'[n] = attempt_count[n] + 1
        /\ \A m \in Messages : m # n => /\ status'[m] = status[m]
                                        /\ attempt_count'[m] = attempt_count[m]
    BY <1>0, <1>2 DEF Claim
  <2>3. \A w \in Workers : worker'[w] = IF w = v THEN c ELSE worker[w]
    BY <1>0, <2>1
  <2>4. n \notin doubtful => \A w \in Workers : worker[w].message # n
    BY <2>1 DEF IInv, ClaimInv
  <2>5. ASSUME NEW m \in Messages \ doubtful'
        PROVE  /\ attempt_count'[m] <= MaxAttempts
               /\ status'[m] \in {"none", "queued"} => attempt_count'[m] < MaxAttempts
    BY <1>0, <2>1, <2>2 DEF CountInv
  <2>6. ASSUME NEW m \in Messages \ doubtful', NEW w \in Workers,
               worker'[w].message = m
        PROVE  worker'[w].attempt = attempt_count'[m]
    BY <2>1, <2>2, <2>3, <2>4, <2>6 DEF CountInv
  <2> QED
    BY <2>5, <2>6 DEF CountInv
<1>3. ASSUME NEW n \in Messages, NEW p \in Pollers,
             RecoverRead(p, n) \/ RecoverWrite(p, n)
      PROVE  CountInv'
  <2>1. /\ UNCHANGED <<attempt_count, worker>>
        /\ \A m \in Messages \ doubtful' : status'[m] = status[m]
    BY <1>0, <1>3 DEF RecoverRead, RecoverWrite, job, IInv, StaleInv
  <2> QED
    BY <1>0, <2>1 DEF CountInv
<1>4. ASSUME NEW v \in Workers, Process(v) \/ Lose(v)
      PROVE  CountInv'
  <2>1. worker[v].step # "idle"
    BY <1>4 DEF Process, Apply, MarkDelivered, MarkError, Lose, IInv, WorkerInv
  <2>2. worker[v] \in Worker /\ worker[v].message \in Messages
    BY <2>1, Busy
  <2>3. UNCHANGED attempt_count
    BY <1>4 DEF Process, Apply, MarkDelivered, MarkError, Lose, job
  <2>4. \A w \in Workers : \/ worker'[w] = Idle
                           \/ /\ worker'[w].message = worker[w].message
                              /\ worker'[w].attempt = worker[w].attempt
    BY <1>0, <1>4, <2>2
    DEF Process, Apply, MarkDelivered, MarkError, Lose, Step, Worker
  <2>5. ASSUME NEW m \in Messages \ doubtful', status'[m] \in {"none", "queued"}
        PROVE  attempt_count[m] < MaxAttempts
    <3>1. CASE status'[m] = status[m]
      BY <1>0, <2>5, <3>1 DEF CountInv
    <3>2. CASE status'[m] # status[m]
      <4>1. /\ MarkError(v) /\ m = worker[v].message /\ status'[m] = "queued"
            /\ ~(worker[v].attempt >= MaxAttempts)
        BY <1>0, <1>4, <2>2, <2>5, <3>2
        DEF Process, Apply, MarkDelivered, MarkError, Lose, job
      <4>2. worker[v].attempt = attempt_count[m]
        BY <1>0, <2>5, <4>1 DEF CountInv
      <4> QED
        BY <1>0, <4>1, <4>2
    <3> QED
      BY <3>1, <3>2
  <2> QED
    BY <1>0, <2>3, <2>4, <2>5, IdleType DEF CountInv
<1>5. CASE UNCHANGED vars
  BY <1>5 DEF vars, job, CountInv
<1> QED
  BY <1>1, <1>2, <1>3, <1>4, <1>5 DEF Next

\* No race costs a job an attempt or gives it one more: outside doubt a job is
\* claimed MaxAttempts times at most, and exactly so often when it failed.  A
\* crash in the last attempt is what makes a recovery go beyond.
THEOREM NoAttemptTooMany ==
    Spec => [](\A m \in Messages \ doubtful :
                  /\ attempt_count[m] <= MaxAttempts
                  /\ status[m] = "failed" => attempt_count[m] = MaxAttempts)
<1>1. Init => CountInv
  BY IdleType DEF Init, CountInv
<1>2. IInv /\ CountInv /\ [Next]_vars => CountInv'
  BY NextCountInv
<1>3. IInv /\ CountInv => \A m \in Messages \ doubtful :
                             /\ attempt_count[m] <= MaxAttempts
                             /\ status[m] = "failed" => attempt_count[m] = MaxAttempts
  BY DEF IInv, TypeOK, CountInv, FailedAfterAllAttempts
<1> QED
  BY <1>1, <1>2, <1>3, Invariant, PTL DEF Spec
=============================================================================
