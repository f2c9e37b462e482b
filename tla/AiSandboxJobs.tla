---------------------------- MODULE AiSandboxJobs ----------------------------
(***************************************************************************)
(* The jobs of one OpenCode conversation (ai_sandbox): the request handler  *)
(* that reserves and queues a prompt, the workers that claim it, run it in  *)
(* a container and publish its answer, the reaper, the durable recovery of  *)
(* cleanups and finalizations, and the user who stops a job or deletes the  *)
(* conversation.  Rows are changed by compare-and-set on the status and the *)
(* claiming worker, so a worker that was given up on finds its writes       *)
(* refused; what it does outside the database it does all the same.         *)
(*                                                                         *)
(* A user has one active job at most: jobs of the user's other              *)
(* conversations can only keep Reserve waiting.  Heartbeats and deadlines   *)
(* decide when the reaper takes a job, so it may take one at any time.      *)
(***************************************************************************)
EXTENDS Naturals, FiniteSets

CONSTANTS Jobs, NoJob,
          Workers, NoWorker,  \* worker processes, in normal or cleanup-only mode
          MaxAttempts,        \* max_attempts of reap_stale_jobs
          MaxLosses           \* bound: crashes and failed aborts or deliveries

ASSUME SandboxAssumption == /\ NoJob \notin Jobs
                            /\ NoWorker \notin Workers
                            /\ MaxAttempts \in Nat \ {0}
                            /\ MaxLosses \in Nat

VARIABLES
    status, claimed_by, attempt,  \* columns of ai_sandbox_jobs
    cleanup,                      \* cleanup_terminal_status
    permission,                   \* the permission card of each job
    session,                      \* status of the conversation's session
    request,                      \* what the handler of each prompt is doing
    worker,                       \* what each worker is doing
    containers, grants,           \* jobs with a container, with gateway access
    answered,                     \* jobs whose answer is in the chat
    started,                      \* history: how often each job was executed
    stopped,                      \* history: jobs whose stop was accepted
    overtaken,                    \* history: jobs cleaned up under their worker
    losses                        \* used-up bound

row     == <<status, claimed_by, attempt, cleanup, permission, session>>
outside == <<containers, grants, answered>>
history == <<started, stopped, overtaken>>
vars    == <<row, request, worker, outside, history, losses>>

Held     == {"claimed", "running", "waiting_permission"}
Closed   == {"succeeded", "failed", "cancelled", "expired"}
Active   == {"preparing", "queued", "finalizing", "cleanup_pending"} \cup Held
Statuses == {"none"} \cup Active \cup Closed
Fenced   == {"purging", "purged"}

Executing == {"running", "found", "provisioned", "issued", "container", "asking"}
Steps == Executing \cup {"idle", "claimed", "result", "failed", "publish", "send",
                        "close", "cleanup", "aborted"}

Idle == [job |-> NoJob, step |-> "idle"]

NoActiveJob == \A j \in Jobs : status[j] \notin Active

Init == /\ status = [j \in Jobs |-> "none"]
        /\ claimed_by = [j \in Jobs |-> NoWorker]
        /\ attempt = [j \in Jobs |-> 0]
        /\ cleanup = [j \in Jobs |-> "none"]
        /\ permission = [j \in Jobs |-> "none"]
        /\ session = "new"
        /\ request = [j \in Jobs |-> "none"]
        /\ worker = [w \in Workers |-> Idle]
        /\ containers = {} /\ grants = {} /\ answered = {}
        /\ started = [j \in Jobs |-> 0]
        /\ stopped = {} /\ overtaken = {}
        /\ losses = 0

SetStatus(j, s) == status' = [status EXCEPT ![j] = s]
SetRequest(j, s) == request' = [request EXCEPT ![j] = s]
Step(w, s) == worker' = [worker EXCEPT ![w].step = s]
Rest(w) == worker' = [worker EXCEPT ![w] = Idle]

-----------------------------------------------------------------------------
(* The request handler: AiSandboxService.enqueue.                          *)

\* reserve_job, under the lock of the session: the partial unique index
\* refuses a second active job, and a prompt has one job for ever.
Reserve(j) ==
    /\ status[j] = "none" /\ request[j] = "none"
    /\ NoActiveJob
    /\ session \notin Fenced
    /\ SetStatus(j, "preparing") /\ SetRequest(j, "staging")
    /\ UNCHANGED <<claimed_by, attempt, cleanup, permission, session>>
    /\ UNCHANGED <<worker, outside, history, losses>>

\* activate_prepared_job, once the inputs are staged.  If the reservation is
\* gone the handler raises.
Activate(j) ==
    /\ request[j] = "staging"
    /\ IF status[j] = "preparing"
       THEN SetStatus(j, "queued") /\ SetRequest(j, "touching")
       ELSE UNCHANGED status /\ SetRequest(j, "none")
    /\ UNCHANGED <<claimed_by, attempt, cleanup, permission, session>>
    /\ UNCHANGED <<worker, outside, history, losses>>

\* touch_session, in a transaction of its own.
Touch(j) ==
    /\ request[j] = "touching"
    /\ SetRequest(j, "none")
    /\ UNCHANGED <<row, worker, outside, history, losses>>

\* fail_prepared_job: the SELECT takes no lock ...
FailPreparedRead(j) ==
    /\ request[j] = "staging"
    /\ SetRequest(j, IF status[j] = "preparing" THEN "failing" ELSE "none")
    /\ UNCHANGED <<row, worker, outside, history, losses>>

\* ... and the UPDATE is by id.
FailPreparedWrite(j) ==
    /\ request[j] = "failing"
    /\ SetStatus(j, "failed") /\ SetRequest(j, "none")
    /\ UNCHANGED <<claimed_by, attempt, cleanup, permission, session>>
    /\ UNCHANGED <<worker, outside, history, losses>>

\* The server dies, or the client goes away while the inputs are staged.
LoseRequest(j) ==
    /\ request[j] # "none"
    /\ SetRequest(j, "none")
    /\ UNCHANGED <<row, worker, outside, history, losses>>

-----------------------------------------------------------------------------
(* The worker: run_once and the executor.                                  *)

\* claim_next_job.
Claim(w, j) ==
    /\ worker[w] = Idle
    /\ status[j] = "queued"
    /\ SetStatus(j, "claimed")
    /\ claimed_by' = [claimed_by EXCEPT ![j] = w]
    /\ attempt' = [attempt EXCEPT ![j] = @ + 1]
    /\ session' = "busy"
    /\ worker' = [worker EXCEPT ![w] = [job |-> j, step |-> "claimed"]]
    /\ UNCHANGED <<cleanup, permission, request, outside, history, losses>>

\* The compare-and-set every write of a worker starts with.
Holds(w, S) == LET j == worker[w].job IN status[j] \in S /\ claimed_by[j] = w

\* fail_job of a job whose deadline has passed before it was claimed.
FailOverdue(w) ==
    /\ worker[w].step = "claimed"
    /\ IF Holds(w, Held)
       THEN /\ SetStatus(worker[w].job, "expired")
            /\ cleanup' = [cleanup EXCEPT ![worker[w].job] = "none"]
            /\ session' = "stopped"
       ELSE UNCHANGED <<status, cleanup, session>>
    /\ Rest(w)
    /\ UNCHANGED <<claimed_by, attempt, permission, request, outside, history, losses>>

\* mark_job_running, and execute begins.
MarkRunning(w) ==
    /\ worker[w].step = "claimed"
    /\ IF Holds(w, {"claimed"})
       THEN /\ SetStatus(worker[w].job, "running")
            /\ started' = [started EXCEPT ![worker[w].job] = @ + 1]
            /\ Step(w, "running")
       ELSE Rest(w) /\ UNCHANGED <<status, started>>
    /\ UNCHANGED <<claimed_by, attempt, cleanup, permission, session>>
    /\ UNCHANGED <<request, outside, stopped, overtaken, losses>>

\* get_session_for_user ...
FindSession(w) ==
    /\ worker[w].step = "running"
    /\ session \notin Fenced
    /\ Step(w, "found")
    /\ UNCHANGED <<row, request, outside, history, losses>>

\* ... and provision: the workspace directory is there.
Provision(w) ==
    /\ worker[w].step = "found"
    /\ Step(w, "provisioned")
    /\ UNCHANGED <<row, request, outside, history, losses>>

\* Mutant: access for a job whatever its status.
IssueToAny(w) ==
    /\ worker[w].step = "provisioned"
    /\ grants' = grants \cup {worker[w].job}
    /\ Step(w, "issued")
    /\ UNCHANGED <<row, request, containers, answered, history, losses>>

\* issue: gateway access, for a job that is still held.
Issue(w) ==
    /\ worker[w].step = "provisioned"
    /\ status[worker[w].job] \in Held
    /\ grants' = grants \cup {worker[w].job}
    /\ Step(w, "issued")
    /\ UNCHANGED <<row, request, containers, answered, history, losses>>

\* runtime_runner.start.  When it fails there may be a container all the same,
\* and only the access is revoked on the way out.
Start(w) ==
    /\ worker[w].step = "issued"
    /\ \/ /\ containers' = containers \cup {worker[w].job}
          /\ Step(w, "container")
          /\ UNCHANGED grants
       \/ /\ containers' \in {containers, containers \cup {worker[w].job}}
          /\ grants' = grants \ {worker[w].job}
          /\ Step(w, "failed")
    /\ UNCHANGED <<row, request, answered, history, losses>>

\* create_permission_request.
Ask(w) ==
    /\ worker[w].step = "container"
    /\ status[worker[w].job] = "running"
    /\ permission[worker[w].job] = "none"
    /\ SetStatus(worker[w].job, "waiting_permission")
    /\ permission' = [permission EXCEPT ![worker[w].job] = "pending"]
    /\ Step(w, "asking")
    /\ UNCHANGED <<claimed_by, attempt, cleanup, session>>
    /\ UNCHANGED <<request, outside, history, losses>>

\* _handle_permission sees the decision, or its deadline.
Resume(w) ==
    /\ worker[w].step = "asking"
    /\ Step(w, "container")
    /\ UNCHANGED <<row, request, outside, history, losses>>

\* execute returns a result: the container is stopped and the access revoked.
Finish(w) ==
    /\ worker[w].step = "container"
    /\ containers' = containers \ {worker[w].job}
    /\ grants' = grants \ {worker[w].job}
    /\ Step(w, "result")
    /\ UNCHANGED <<row, request, answered, history, losses>>

\* execute raises: an error, a stop it noticed, a timeout.  Stopping the
\* container and revoking the access are tried and may fail.
Fail(w) ==
    /\ worker[w].step \in Executing \ {"issued"}
    /\ containers' \in {containers, containers \ {worker[w].job}}
    /\ grants' \in {grants, grants \ {worker[w].job}}
    /\ Step(w, "failed")
    /\ UNCHANGED <<row, request, answered, history, losses>>

\* Mutant: the failure closes the job with no cleanup in between.
CloseFailed(w) ==
    /\ worker[w].step \in {"result", "failed"}
    /\ IF Holds(w, Held \cup {"cleanup_pending"})
       THEN /\ SetStatus(worker[w].job, "failed")
            /\ cleanup' = [cleanup EXCEPT ![worker[w].job] = "none"]
            /\ session' = "stopped"
       ELSE UNCHANGED <<status, cleanup, session>>
    /\ Rest(w)
    /\ UNCHANGED <<claimed_by, attempt, permission, request, outside, history, losses>>

\* Mutant: the row keeps the status it had as the outcome of the cleanup.
KeepStatusForCleanup(w) ==
    /\ worker[w].step \in {"result", "failed"}
    /\ LET j == worker[w].job IN
       IF Holds(w, Held \cup {"cleanup_pending"})
       THEN /\ SetStatus(j, "cleanup_pending")
            /\ cleanup' = [cleanup EXCEPT ![j] = status[j]]
            /\ session' = "busy"
       ELSE UNCHANGED <<status, cleanup, session>>
    /\ Rest(w)
    /\ UNCHANGED <<claimed_by, attempt, permission, request, outside, history, losses>>

\* mark_cleanup_pending after a failure, or a result that comes while the
\* worker shuts down.  A stop that was faster keeps its "cancelled".
MarkCleanup(w) ==
    /\ worker[w].step \in {"result", "failed"}
    /\ LET j == worker[w].job IN
       IF Holds(w, Held \cup {"cleanup_pending"})
       THEN /\ SetStatus(j, "cleanup_pending")
            /\ cleanup' = [cleanup EXCEPT ![j] =
                  IF status[j] = "cleanup_pending" /\ @ = "cancelled"
                  THEN "cancelled" ELSE "failed"]
            /\ session' = "busy"
       ELSE UNCHANGED <<status, cleanup, session>>
    /\ Rest(w)
    /\ UNCHANGED <<claimed_by, attempt, permission, request, outside, history, losses>>

\* Mutant: the intent is stored by worker, without a look at the status.
FinalizeOwned(w) ==
    /\ worker[w].step = "result"
    /\ IF Holds(w, Statuses)
       THEN /\ SetStatus(worker[w].job, "finalizing")
            /\ cleanup' = [cleanup EXCEPT ![worker[w].job] = "none"]
            /\ Step(w, "publish")
       ELSE Rest(w) /\ UNCHANGED <<status, cleanup>>
    /\ UNCHANGED <<claimed_by, attempt, permission, session>>
    /\ UNCHANGED <<request, outside, history, losses>>

\* begin_job_finalization stores the answer before it is delivered.
BeginFinalization(w) ==
    /\ worker[w].step = "result"
    /\ IF Holds(w, Held)
       THEN /\ SetStatus(worker[w].job, "finalizing")
            /\ cleanup' = [cleanup EXCEPT ![worker[w].job] = "none"]
            /\ Step(w, "publish")
       ELSE Rest(w) /\ UNCHANGED <<status, cleanup>>
    /\ UNCHANGED <<claimed_by, attempt, permission, session>>
    /\ UNCHANGED <<request, outside, history, losses>>

-----------------------------------------------------------------------------
(* Delivery and recovery: any worker, in any cycle.                        *)

\* list_pending_finalizations: its row locks end with the SELECT.
ListFinalizing(w, j) ==
    /\ worker[w] = Idle
    /\ status[j] = "finalizing"
    /\ worker' = [worker EXCEPT ![w] = [job |-> j, step |-> "publish"]]
    /\ UNCHANGED <<row, request, outside, history, losses>>

\* finalize_worker_result, its first transaction ...
FinalizeRead(w) ==
    /\ worker[w].step = "publish"
    /\ IF status[worker[w].job] = "finalizing" THEN Step(w, "send") ELSE Rest(w)
    /\ UNCHANGED <<row, request, outside, history, losses>>

\* ... send_message with a client id made of the job's: a repeat finds the
\* message and adds none ...
Send(w) ==
    /\ worker[w].step = "send"
    /\ answered' = answered \cup {worker[w].job}
    /\ Step(w, "close")
    /\ UNCHANGED <<row, request, containers, grants, history, losses>>

\* ... and its last transaction.
Close(w) ==
    /\ worker[w].step = "close"
    /\ IF status[worker[w].job] = "finalizing"
       THEN SetStatus(worker[w].job, "succeeded") /\ session' = "stopped"
       ELSE UNCHANGED <<status, session>>
    /\ Rest(w)
    /\ UNCHANGED <<claimed_by, attempt, cleanup, permission>>
    /\ UNCHANGED <<request, outside, history, losses>>

\* list_cleanup_pending.
ListCleanup(w, j) ==
    /\ worker[w] = Idle
    /\ status[j] = "cleanup_pending"
    /\ worker' = [worker EXCEPT ![w] = [job |-> j, step |-> "cleanup"]]
    /\ UNCHANGED <<row, request, outside, history, losses>>

Overtake(j) ==
    overtaken' = overtaken \cup {i \in {j} : \E v \in Workers :
                     worker[v].job = j /\ worker[v].step \in Executing}

\* abort_job: the container is verified to be absent, the access is revoked.
Abort(w) ==
    /\ worker[w].step = "cleanup"
    /\ containers' = containers \ {worker[w].job}
    /\ grants' = grants \ {worker[w].job}
    /\ Overtake(worker[w].job)
    /\ Step(w, "aborted")
    /\ UNCHANGED <<row, request, answered, started, stopped, losses>>

\* Mutant: only the worker that ran the job may complete its cleanup.
CompleteOwnCleanup(w) ==
    /\ worker[w].step = "aborted"
    /\ LET j == worker[w].job IN
       IF Holds(w, {"cleanup_pending"})
       THEN /\ SetStatus(j, IF cleanup[j] = "none" THEN "failed" ELSE cleanup[j])
            /\ cleanup' = [cleanup EXCEPT ![j] = "none"]
            /\ session' = "stopped"
       ELSE UNCHANGED <<status, cleanup, session>>
    /\ Rest(w)
    /\ UNCHANGED <<claimed_by, attempt, permission, request, outside, history, losses>>

\* complete_cleanup.
CompleteCleanup(w) ==
    /\ worker[w].step = "aborted"
    /\ LET j == worker[w].job IN
       IF status[j] = "cleanup_pending"
       THEN /\ SetStatus(j, IF cleanup[j] = "none" THEN "failed" ELSE cleanup[j])
            /\ cleanup' = [cleanup EXCEPT ![j] = "none"]
            /\ session' = "stopped"
       ELSE UNCHANGED <<status, cleanup, session>>
    /\ Rest(w)
    /\ UNCHANGED <<claimed_by, attempt, permission, request, outside, history, losses>>

\* A worker dies, or an abort, a delivery or a write fails with an error, with
\* its effect or without: the job is left to the next cycle of any worker.
Lose(w) ==
    /\ worker[w] # Idle
    /\ losses < MaxLosses
    /\ losses' = losses + 1
    /\ \/ UNCHANGED outside
       \/ /\ worker[w].step = "send"
          /\ answered' = answered \cup {worker[w].job}
          /\ UNCHANGED <<containers, grants>>
       \/ /\ worker[w].step = "cleanup"
          /\ grants' = grants \ {worker[w].job}
          /\ containers' \in {containers, containers \ {worker[w].job}}
          /\ UNCHANGED answered
    /\ Rest(w)
    /\ UNCHANGED <<row, request, history>>

-----------------------------------------------------------------------------
(* The user, and the reaper.                                               *)

RejectPending(S) ==
    permission' = [j \in Jobs |-> IF j \in S /\ permission[j] = "pending"
                                  THEN "rejected" ELSE permission[j]]

\* respond_permission: a decision counts while the job waits for it.
Respond(j) ==
    /\ permission[j] = "pending"
    /\ IF status[j] = "waiting_permission"
       THEN /\ \E d \in {"approved", "rejected"} :
                  permission' = [permission EXCEPT ![j] = d]
            /\ SetStatus(j, "running")
       ELSE RejectPending({j}) /\ UNCHANGED status
    /\ UNCHANGED <<claimed_by, attempt, cleanup, session>>
    /\ UNCHANGED <<request, worker, outside, history, losses>>

\* Mutant: the session reads stopped while the cleanup is still to come.
StopSession(S) ==
    LET begun == {j \in S : status[j] \in Held \cup {"cleanup_pending"}} IN
    /\ status' = [j \in Jobs |-> IF j \in begun THEN "cleanup_pending"
                                 ELSE IF j \in S THEN "cancelled" ELSE status[j]]
    /\ cleanup' = [j \in Jobs |-> IF j \in begun THEN "cancelled"
                                  ELSE IF j \in S THEN "none" ELSE cleanup[j]]
    /\ session' = "stopped"

\* What a worker may have begun ends with a cleanup, the rest at once.
StopJobs(S) ==
    LET begun == {j \in S : status[j] \in Held \cup {"cleanup_pending"}} IN
    /\ status' = [j \in Jobs |-> IF j \in begun THEN "cleanup_pending"
                                 ELSE IF j \in S THEN "cancelled" ELSE status[j]]
    /\ cleanup' = [j \in Jobs |-> IF j \in begun THEN "cancelled"
                                  ELSE IF j \in S THEN "none" ELSE cleanup[j]]
    /\ session' = IF begun = {} THEN "stopped" ELSE "busy"

\* cancel_job.  It is too late for a job whose answer is being delivered.
Cancel(j) ==
    /\ status[j] \in Active \ {"finalizing"}
    /\ StopJobs({j}) /\ RejectPending({j})
    /\ stopped' = stopped \cup {j}
    /\ UNCHANGED <<claimed_by, attempt, request, worker, outside>>
    /\ UNCHANGED <<started, overtaken, losses>>

\* retire_conversation, before the conversation is deleted: a delivery in
\* progress is called off, too.
Retire ==
    LET S == {j \in Jobs : status[j] \in Active} IN
    /\ StopJobs(S) /\ RejectPending(Jobs)
    /\ stopped' = stopped \cup {j \in S : status[j] # "finalizing"}
    /\ UNCHANGED <<claimed_by, attempt, request, worker, outside>>
    /\ UNCHANGED <<started, overtaken, losses>>

\* fail_unstarted_jobs_for_disabled.
FailUnstarted(j) ==
    /\ status[j] \in {"preparing", "queued"}
    /\ SetStatus(j, "failed")
    /\ cleanup' = [cleanup EXCEPT ![j] = "none"]
    /\ session' = "stopped"
    /\ UNCHANGED <<claimed_by, attempt, permission, request, worker>>
    /\ UNCHANGED <<outside, history, losses>>

\* Mutant: a job whose worker fell silent is queued again.
RequeueRunning(j) ==
    /\ status[j] \in Held \ {"claimed"}
    /\ SetStatus(j, "queued")
    /\ claimed_by' = [claimed_by EXCEPT ![j] = NoWorker]
    /\ session' = "ready"
    /\ UNCHANGED <<attempt, cleanup, permission, request, worker>>
    /\ UNCHANGED <<outside, history, losses>>

\* reap_stale_jobs: what a worker was running is never run again ...
ReapRunning(j) ==
    /\ status[j] \in Held \ {"claimed"}
    /\ SetStatus(j, "cleanup_pending")
    /\ cleanup' = [cleanup EXCEPT ![j] = "failed"]
    /\ session' = "busy"
    /\ UNCHANGED <<claimed_by, attempt, permission, request, worker>>
    /\ UNCHANGED <<outside, history, losses>>

\* ... while a claim is ended by its deadline, cleaned up while the feature is
\* off, or put back until the attempts are used up.
ReapClaimed(j) ==
    /\ status[j] = "claimed"
    /\ \/ /\ SetStatus(j, "expired") /\ session' = "stopped"
          /\ UNCHANGED <<claimed_by, cleanup>>
       \/ /\ SetStatus(j, "cleanup_pending") /\ session' = "busy"
          /\ cleanup' = [cleanup EXCEPT ![j] = "failed"]
          /\ UNCHANGED claimed_by
       \/ /\ attempt[j] < MaxAttempts
          /\ SetStatus(j, "queued") /\ session' = "ready"
          /\ claimed_by' = [claimed_by EXCEPT ![j] = NoWorker]
          /\ UNCHANGED cleanup
       \/ /\ attempt[j] >= MaxAttempts
          /\ SetStatus(j, "failed") /\ session' = "stopped"
          /\ UNCHANGED <<claimed_by, cleanup>>
    /\ UNCHANGED <<attempt, permission, request, worker, outside, history, losses>>

-----------------------------------------------------------------------------
(* The session, as its retention changes it.                               *)

\* mark_session_for_purge, under the lock that reserve_job takes as well.
MarkForPurge ==
    /\ session \in {"ready", "stopped"}
    /\ NoActiveJob
    /\ session' = "purging"
    /\ permission' = [j \in Jobs |-> IF permission[j] = "pending"
                                     THEN "expired" ELSE permission[j]]
    /\ UNCHANGED <<status, claimed_by, attempt, cleanup>>
    /\ UNCHANGED <<request, worker, outside, history, losses>>

\* mark_session_purged, and create_session of a purged one.
SetSession(from, to) ==
    /\ session = from
    /\ session' = to
    /\ UNCHANGED <<status, claimed_by, attempt, cleanup, permission>>
    /\ UNCHANGED <<request, worker, outside, history, losses>>

MarkPurged == SetSession("purging", "purged")
Reopen     == SetSession("purged", "new")

Run(w) == \/ FailOverdue(w) \/ MarkRunning(w) \/ FindSession(w) \/ Provision(w)
          \/ Issue(w) \/ Start(w) \/ Ask(w) \/ Resume(w) \/ Finish(w) \/ Fail(w)
          \/ MarkCleanup(w) \/ BeginFinalization(w)
Recover(w) == FinalizeRead(w) \/ Send(w) \/ Close(w) \/ Abort(w) \/ CompleteCleanup(w)
TakeUp(j) == \E w \in Workers : Claim(w, j) \/ ListFinalizing(w, j) \/ ListCleanup(w, j)
Reap(j) == ReapRunning(j) \/ ReapClaimed(j)

\* The steps that write last_activity_at of the session when they succeed ...
Activity == \/ \E w \in Workers : FailOverdue(w) \/ Close(w) \/ CompleteCleanup(w)
            \/ \E j \in Jobs : Activate(j) \/ Cancel(j)

\* ... and those that leave the session's retention alone.
Quiet == \/ \E w \in Workers :
               \/ MarkRunning(w) \/ FindSession(w) \/ Issue(w) \/ Start(w) \/ Ask(w)
               \/ Resume(w) \/ Finish(w) \/ Fail(w) \/ MarkCleanup(w)
               \/ BeginFinalization(w) \/ FinalizeRead(w) \/ Send(w) \/ Abort(w) \/ Lose(w)
         \/ \E j \in Jobs :
               \/ Reserve(j) \/ FailPreparedRead(j) \/ FailPreparedWrite(j)
               \/ LoseRequest(j) \/ TakeUp(j) \/ Reap(j) \/ Respond(j) \/ FailUnstarted(j)

Next == \/ Activity \/ Quiet \/ Retire \/ MarkForPurge \/ MarkPurged \/ Reopen
        \/ \E j \in Jobs : Touch(j)
        \/ \E w \in Workers : Provision(w)

Abandoned(j) == \A w \in Workers : worker[w].job # j

\* The poll loop of a worker never ends; the reaper takes what nobody works on.
Fairness == /\ \A w \in Workers : WF_vars(Run(w) \/ Recover(w))
            /\ \A j \in Jobs : WF_vars(TakeUp(j)) /\ WF_vars(Reap(j) /\ Abandoned(j))

Spec == Init /\ [][Next]_vars
FairSpec == Spec /\ Fairness

-----------------------------------------------------------------------------
Worker == [job : Jobs \cup {NoJob}, step : Steps]

TypeOK == /\ status \in [Jobs -> Statuses]
          /\ claimed_by \in [Jobs -> Workers \cup {NoWorker}]
          /\ attempt \in [Jobs -> Nat]
          /\ cleanup \in [Jobs -> {"none", "failed", "cancelled"}]
          /\ permission \in [Jobs -> {"none", "pending", "approved", "rejected", "expired"}]
          /\ session \in {"new", "ready", "busy", "stopped"} \cup Fenced
          /\ request \in [Jobs -> {"none", "staging", "touching", "failing"}]
          /\ worker \in [Workers -> Worker]
          /\ containers \subseteq Jobs /\ grants \subseteq Jobs /\ answered \subseteq Jobs
          /\ started \in [Jobs -> Nat]
          /\ stopped \subseteq Jobs /\ overtaken \subseteq Jobs
          /\ losses \in Nat

\* However often a job is reaped, put back and claimed again, its prompt is
\* executed once at most: an edit or a command is never repeated.
ExecutedOnce == \A j \in Jobs : started[j] <= 1

\* A stop that was accepted holds against the worker that finishes meanwhile:
\* the answer is not published and the job ends as cancelled.  Only a failing
\* preparation, which writes by id, may record its own failure over it.
StopWins ==
    \A j \in stopped :
        /\ j \notin answered
        /\ \/ status[j] = "cancelled"
           \/ status[j] = "cleanup_pending" /\ cleanup[j] = "cancelled"
           \/ status[j] = "failed" /\ attempt[j] = 0

\* Whoever closes a job, its container's access to the model gateway has been
\* revoked by then, and no worker that lags behind obtains another.
AccessEndsWithJob == \A j \in grants : status[j] \in Held \cup {"cleanup_pending"}

\* While a job has a container, the reaper or the cleanup will still come to
\* the job and remove it, unless a cleanup overtook the worker that starts it.
OrphanIsFound ==
    \A j \in containers \ overtaken :
        status[j] \in {"running", "waiting_permission", "cleanup_pending"}

\* The session is busy exactly while a worker may have begun one of its jobs,
\* and fenced only when no job is active: no workspace is purged under a job,
\* and none is kept from the purge without one.
SessionMatchesJobs ==
    /\ session = "busy" <=>
          \E j \in Jobs : status[j] \in Held \cup {"finalizing", "cleanup_pending"}
    /\ session \in Fenced => NoActiveJob

\* A queued prompt comes to an end, whatever its worker does.
QueuedJobEnds == \A j \in Jobs : status[j] = "queued" ~> status[j] \in Closed
=============================================================================
