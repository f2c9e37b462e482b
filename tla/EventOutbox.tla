----------------------------- MODULE EventOutbox -----------------------------
(***************************************************************************)
(* The delivery-state jobs of chat_event_outbox.  A message is answered     *)
(* before its job is durable: the process that took the send enqueues the   *)
(* job afterwards, and a repair poll makes up for the ones it lost.  Jobs   *)
(* are claimed (by the poll, or by message right after the enqueue),        *)
(* applied to the read state, and marked; the poll of either chat node puts *)
(* back a job that has been processing for too long.                        *)
(*                                                                         *)
(* An outcome is written by the job's id alone, and the recovery reads the  *)
(* rows in one statement and writes them in another.  next_attempt_at only  *)
(* decides when a claim happens.                                           *)
(***************************************************************************)
EXTENDS Naturals, FiniteSets

CONSTANTS Messages, NoMessage,
          Workers,      \* tasks that process one job each
          Pollers,      \* chat nodes, each with one poll loop
          MaxAttempts,  \* CHAT_EVENT_OUTBOX_MAX_ATTEMPTS
          MaxLosses,    \* bound: jobs, or hand-overs, dropped by a dying process
          MaxSlow       \* bound: recoveries of a job somebody still works on

ASSUME ConstantsAssumption == /\ NoMessage \notin Messages
                              /\ MaxAttempts \in Nat \ {0}
                              /\ {MaxLosses, MaxSlow} \subseteq Nat

VARIABLES
    kind,               \* kind of each committed message, "none" before that
    recent,             \* messages the repair still looks at
    handover,           \* messages whose job the sending process still holds
    status, attempt_count,  \* columns of the job of each message
    worker,             \* what each task is doing
    stale,              \* jobs that each recovery read and has to write back
    applied,            \* messages whose delivery state is committed
    doubtful,           \* history: jobs that some recovery took for stale, or
                        \* whose mark_delivered was committed without an answer
    losses, slow        \* used-up bounds

message == <<kind, recent, handover>>
job     == <<status, attempt_count>>
used    == <<losses, slow>>
vars    == <<message, job, worker, stale, applied, doubtful, used>>

\* A message without a row has the status "none".
Settled == {"delivered", "failed"}
Statuses == {"none", "queued", "processing"} \cup Settled

Idle == [message |-> NoMessage, attempt |-> 0, step |-> "idle"]

InProgress(m) == \E w \in Workers : worker[w].message = m

Init == /\ kind = [m \in Messages |-> "none"]
        /\ recent = {}
        /\ handover = {}
        /\ status = [m \in Messages |-> "none"]
        /\ attempt_count = [m \in Messages |-> 0]
        /\ worker = [w \in Workers |-> Idle]
        /\ stale = [p \in Pollers |-> {}]
        /\ applied = {}
        /\ doubtful = {}
        /\ losses = 0 /\ slow = 0

-----------------------------------------------------------------------------
\* persist_text_message commits a message.  Its caller keeps the job for later,
\* unless it is one that leaves the job to the repair (scheduled messages, AI).
Send(m) ==
    /\ kind[m] = "none"
    /\ \E k \in {"text", "rich"} : kind' = [kind EXCEPT ![m] = k]
    /\ recent' = recent \cup {m}
    /\ \/ handover' = handover \cup {m}
       \/ kind'[m] = "text" /\ UNCHANGED handover
    /\ UNCHANGED <<job, worker, stale, applied, doubtful, used>>

\* Mutant: ON CONFLICT DO UPDATE, the row starts afresh.
InsertResets(m) ==
    /\ status' = [status EXCEPT ![m] = "queued"]
    /\ attempt_count' = [attempt_count EXCEPT ![m] = 0]

\* INSERT ... ON CONFLICT (dedupe_key) DO NOTHING.
Insert(m) ==
    /\ status' = [status EXCEPT ![m] = IF @ = "none" THEN "queued" ELSE @]
    /\ UNCHANGED attempt_count

\* The enqueue after the answer.
Enqueue(m) ==
    /\ m \in handover
    /\ handover' = handover \ {m}
    /\ Insert(m)
    /\ UNCHANGED <<kind, recent, worker, stale, applied, doubtful, used>>

\* The sending process dies, or its enqueue fails: the failure is only counted.
DropHandover(m) ==
    /\ m \in handover
    /\ losses < MaxLosses
    /\ losses' = losses + 1
    /\ handover' = handover \ {m}
    /\ UNCHANGED <<kind, recent, job, worker, stale, applied, doubtful, slow>>

\* Five minutes, or fifty newer messages, later.
Age(m) ==
    /\ m \in recent
    /\ recent' = recent \ {m}
    /\ UNCHANGED <<kind, handover, job, worker, stale, applied, doubtful, used>>

\* Mutant: the lookback is taken for granted once the enqueue was attempted.
RepairUnlessHandedOver(m) ==
    /\ m \in handover
    /\ m \in recent /\ kind[m] = "text"
    /\ status[m] = "none"
    /\ Insert(m)
    /\ UNCHANGED <<message, worker, stale, applied, doubtful, used>>

\* repair_missing_delivery_state_outbox, with the same INSERT.
Repair(m) ==
    /\ m \in recent /\ kind[m] = "text"
    /\ status[m] = "none"
    /\ Insert(m)
    /\ UNCHANGED <<message, worker, stale, applied, doubtful, used>>

-----------------------------------------------------------------------------
\* Mutant: the claim does not look at the status.
ClaimProcessing(w, m) ==
    /\ worker[w] = Idle
    /\ status[m] \in {"queued", "processing"}
    /\ status' = [status EXCEPT ![m] = "processing"]
    /\ attempt_count' = [attempt_count EXCEPT ![m] = @ + 1]
    /\ worker' = [worker EXCEPT ![w] = [message |-> m, step |-> "claimed",
                                        attempt |-> attempt_count[m] + 1]]
    /\ UNCHANGED <<message, stale, applied, doubtful, used>>

\* SELECT ... FOR UPDATE SKIP LOCKED of a queued row, and the UPDATE under it.
Claim(w, m) ==
    /\ worker[w] = Idle
    /\ status[m] = "queued"
    /\ status' = [status EXCEPT ![m] = "processing"]
    /\ attempt_count' = [attempt_count EXCEPT ![m] = @ + 1]
    /\ worker' = [worker EXCEPT ![w] = [message |-> m, step |-> "claimed",
                                        attempt |-> attempt_count[m] + 1]]
    /\ UNCHANGED <<message, stale, applied, doubtful, used>>

Step(w, s) == worker' = [worker EXCEPT ![w].step = s]

\* Mutant: a job that was applied once is taken for applied, come what may.
ApplyOptimistic(w) ==
    /\ worker[w].step = "claimed"
    /\ Step(w, "applied")
    /\ \/ applied' = applied \cup {worker[w].message}
       \/ UNCHANGED applied
    /\ UNCHANGED <<message, job, stale, doubtful, used>>

\* process_delivery_state_job_sync: the transaction of ReadState's job.  It
\* commits, fails, or commits without the answer arriving.
Apply(w) ==
    /\ worker[w].step = "claimed"
    /\ \/ applied' = applied \cup {worker[w].message} /\ Step(w, "applied")
       \/ applied' = applied \cup {worker[w].message} /\ Step(w, "error")
       \/ UNCHANGED applied /\ Step(w, "error")
    /\ UNCHANGED <<message, job, stale, doubtful, used>>

\* mark_delivered.  The same handler takes its failure, or the loss of its
\* answer, for a failure of the job.
MarkDelivered(w) ==
    /\ worker[w].step = "applied"
    /\ \/ /\ status' = [status EXCEPT ![worker[w].message] = "delivered"]
          /\ worker' = [worker EXCEPT ![w] = Idle]
          /\ UNCHANGED doubtful
       \/ /\ status' = [status EXCEPT ![worker[w].message] = "delivered"]
          /\ Step(w, "error")
          /\ doubtful' = doubtful \cup {worker[w].message}
       \/ Step(w, "error") /\ UNCHANGED <<status, doubtful>>
    /\ UNCHANGED <<message, attempt_count, stale, applied, used>>

\* mark_failed after the last attempt, mark_retry before it.
MarkError(w) ==
    /\ worker[w].step = "error"
    /\ status' = [status EXCEPT ![worker[w].message] =
                     IF worker[w].attempt >= MaxAttempts THEN "failed" ELSE "queued"]
    /\ worker' = [worker EXCEPT ![w] = Idle]
    /\ UNCHANGED <<message, attempt_count, stale, applied, doubtful, used>>

\* The process dies, or mark_failed or mark_retry raises.
Lose(w) ==
    /\ worker[w] # Idle
    /\ losses < MaxLosses
    /\ losses' = losses + 1
    /\ worker' = [worker EXCEPT ![w] = Idle]
    /\ UNCHANGED <<message, job, stale, applied, doubtful, slow>>

\* recover_stale_jobs: SELECT of the jobs processing for too long.  Nothing
\* tells a dead task from a slow one ...
RecoverRead(p, m) ==
    /\ status[m] = "processing"
    /\ m \notin stale[p]
    /\ \/ ~InProgress(m) /\ UNCHANGED slow
       \/ InProgress(m) /\ slow < MaxSlow /\ slow' = slow + 1
    /\ stale' = [stale EXCEPT ![p] = @ \cup {m}]
    /\ doubtful' = doubtful \cup {m}
    /\ UNCHANGED <<message, job, worker, applied, losses>>

\* Mutant: the recovery gives the attempt back, and two recoveries do so twice.
RecoverWriteRefunds(p, m) ==
    /\ m \in stale[p]
    /\ stale' = [stale EXCEPT ![p] = @ \ {m}]
    /\ status' = [status EXCEPT ![m] = "queued"]
    /\ attempt_count' = [attempt_count EXCEPT ![m] = @ - 1]
    /\ UNCHANGED <<message, worker, applied, doubtful, used>>

\* Mutant: only a job with attempts left is put back.
RecoverWriteOnce(p, m) ==
    /\ m \in stale[p]
    /\ stale' = [stale EXCEPT ![p] = @ \ {m}]
    /\ status' = [status EXCEPT ![m] =
                     IF attempt_count[m] < MaxAttempts THEN "queued" ELSE @]
    /\ UNCHANGED <<message, attempt_count, worker, applied, doubtful, used>>

\* ... and the flush, by id.
RecoverWrite(p, m) ==
    /\ m \in stale[p]
    /\ stale' = [stale EXCEPT ![p] = @ \ {m}]
    /\ status' = [status EXCEPT ![m] = "queued"]
    /\ UNCHANGED <<message, attempt_count, worker, applied, doubtful, used>>

Process(w) == Apply(w) \/ MarkDelivered(w) \/ MarkError(w)

Next == \/ \E m \in Messages :
              \/ Send(m) \/ Enqueue(m) \/ DropHandover(m) \/ Age(m) \/ Repair(m)
              \/ \E w \in Workers : Claim(w, m)
              \/ \E p \in Pollers : RecoverRead(p, m) \/ RecoverWrite(p, m)
        \/ \E w \in Workers : Process(w) \/ Lose(w)

Fairness ==
    /\ \A m \in Messages :
          /\ WF_vars(Enqueue(m))
          /\ WF_vars(Repair(m))
          /\ WF_vars(\E w \in Workers : Claim(w, m))
          /\ \A p \in Pollers : /\ WF_vars(RecoverRead(p, m) /\ ~InProgress(m))
                                /\ WF_vars(RecoverWrite(p, m))
    /\ \A w \in Workers : WF_vars(Process(w))

Spec == Init /\ [][Next]_vars
FairSpec == Spec /\ Fairness

-----------------------------------------------------------------------------
Worker == [message : Messages \cup {NoMessage},
           attempt : Nat,
           step : {"idle", "claimed", "applied", "error"}]

TypeOK == /\ kind \in [Messages -> {"none", "text", "rich"}]
          /\ recent \subseteq Messages
          /\ handover \subseteq Messages
          /\ status \in [Messages -> Statuses]
          /\ attempt_count \in [Messages -> Nat]
          /\ worker \in [Workers -> Worker]
          /\ stale \in [Pollers -> SUBSET Messages]
          /\ applied \subseteq Messages
          /\ doubtful \subseteq Messages
          /\ {losses, slow} \subseteq Nat

\* A job that says delivered has been applied, whoever wrote the outcome and
\* whatever became of the row in between.
DeliveredWasApplied == \A m \in Messages : status[m] = "delivered" => m \in applied

\* Two tasks work on one job only after a recovery took it for stale (or a
\* database answer was lost).
OneWorkerPerJob ==
    \A v, w \in Workers :
        /\ v # w
        /\ worker[v].message = worker[w].message
        => worker[v].message \in doubtful \cup {NoMessage}

\* A job is given up only after every attempt: no race of an enqueue, a repair
\* and a recovery cuts them short.
FailedAfterAllAttempts ==
    \A m \in Messages : status[m] = "failed" => attempt_count[m] >= MaxAttempts

\* The late enqueue of a job that the repair had already inserted, and that
\* has run meanwhile, does not bring it back to life.
SettledStaysSettled ==
    [][\A m \in Messages \ doubtful : status[m] \in Settled => status'[m] = status[m]]_vars

\* Every job settles for good once processes stop dying.
EveryJobSettles == \A m \in Messages : <>[](status[m] \in Settled \cup {"none"})

\* What becomes of a message: applied, given up, or never enqueued because
\* nobody did so within the lookback.
Decided(m) == \/ m \in applied
              \/ status[m] = "failed"
              \/ status[m] = "none" /\ m \notin recent

\* A crash between the answer and the enqueue does not lose the delivery state
\* of a text message: within the lookback the repair brings its job back.
TextIsDecided == \A m \in Messages : kind[m] = "text" ~> Decided(m)

\* "Deferred outbox first (aux slot), then apply - closes crash window via
\* repair poll."
CrashWindowCloses == \A m \in Messages : kind[m] # "none" ~> Decided(m)
=============================================================================
