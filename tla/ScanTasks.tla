----------------------------- MODULE ScanTasks ------------------------------
(* A scan_now task of the scan server from its creation to its end: the      *)
(* server's tables scan_tasks and scan_jobs and its spool of PDF payloads    *)
(* (scan_server/database.py, pdf_spool.py), the threads of the scan worker   *)
(* (scan_server/worker.py), and one agent with its outbox, dead letters and  *)
(* state file (scan_agent/agent.py).  A file does not change here: its event *)
(* id, which does not depend on the task, names one job.                     *)
EXTENDS FiniteSets, Naturals

CONSTANTS Tasks, NoTask, Files, NoFile, Threads,
          Forced,        \* the tasks whose payload asks for force_rescan
          RetryLimit,    \* min(scan_job_max_attempts, 2)
          MaxUpsets      \* bound: what happens out of turn: losses, crashes,
                         \* refusals, overruns, ttls, files for the watchdog

ASSUME ScanAssumption ==
    /\ NoTask \notin Tasks /\ NoFile \notin Files
    /\ Forced \subseteq Tasks
    /\ RetryLimit \in Nat \ {0} /\ MaxUpsets \in Nat

VARIABLES task,      \* scan_tasks: status, and the phase of result_json
          job,       \* scan_jobs: status, scan_task_id, attempt_count and
                     \* whether error_text says the payload is missing
          spool,     \* the jobs whose payload file exists
          requests,  \* ingest requests sent and not finished by the API, and
                     \* its maintenance of the spool after a start
          reports,   \* task results sent and not processed
          agent,     \* what the agent's only thread is doing
          scanned,   \* the agent's state: files registered as scanned
          outbox, dead, \* pending and dead letters: task, attached result
          thread,    \* the worker's pool: job, step and the row it claimed
          boot,      \* the worker process: down, starting or up
          upsets,    \* bounded by MaxUpsets
          doubtful   \* history: files that were given up or mixed up

server == <<task, job, spool>>
client == <<agent, scanned, outbox, dead>>
worker == <<thread, boot>>
vars == <<server, requests, reports, client, worker, upsets, doubtful>>

Active == {"queued", "delivered", "acknowledged"}
Final == {"completed", "failed", "expired"}
Pending == {"queued", "processing"}

NoJob == [status |-> "none", task |-> NoTask, tries |-> 0, missing |-> FALSE]
NoItem == [held |-> FALSE, task |-> NoTask, result |-> FALSE]
AtRest == [step |-> "idle", task |-> NoTask, file |-> NoFile,
           todo |-> {}, queued |-> FALSE, failed |-> FALSE]
Free == [step |-> "idle", file |-> NoFile, task |-> NoTask, tries |-> 0]
Startup == [file |-> NoFile, task |-> NoTask, live |-> FALSE,
            step |-> "startup", spooled |-> FALSE]

Init == /\ task = [t \in Tasks |-> [status |-> "none", phase |-> "none"]]
        /\ job = [f \in Files |-> NoJob]
        /\ spool = {} /\ requests = {} /\ reports = {}
        /\ agent = AtRest /\ scanned = {}
        /\ outbox = [f \in Files |-> NoItem]
        /\ dead = [f \in Files |-> NoItem]
        /\ thread = [h \in Threads |-> Free]
        /\ boot = "up"
        /\ upsets = 0 /\ doubtful = {}

Upset == upsets < MaxUpsets /\ upsets' = upsets + 1

-----------------------------------------------------------------------------
(* scan_tasks: reconciliation with the jobs, reports, creation and polls.    *)

Ended == {t \in Tasks : task[t].status \in Final}

Linked(t, jobs) == {f \in Files : jobs[f].task = t}

Told(row) == /\ row.status = "acknowledged"
             /\ row.phase \in {"server_processing", "completed"}

\* Mutant: a task is completed when the jobs that are left are analysed,
\* whatever became of the others.
ReconciledLoosely(row, t, jobs) ==
    IF /\ Told(row)
       /\ \A f \in Linked(t, jobs) : jobs[f].status \notin Pending
       /\ Linked(t, jobs) # {} \/ row.phase = "completed"
    THEN [status |-> "completed", phase |-> "completed"]
    ELSE row

\* Mutant: only the job that is being recorded is looked at, so a task whose
\* jobs were analysed before the agent's report is not completed by it.
ReconciledByJobs(row, t, jobs) ==
    IF Told(row) /\ \E f \in Linked(t, jobs) : jobs[f].status = "incomplete"
    THEN [status |-> "failed", phase |-> "failed"]
    ELSE row

\* _reconcile_scan_task_progress_locked: a task whose agent has sent
\* everything fails with a job that is not analysed, and is completed when all
\* are.  Without a job only the agent's own word completes it.
Reconciled(row, t, jobs) ==
    LET linked == Linked(t, jobs) IN
    IF ~Told(row) THEN row
    ELSE IF \E f \in linked : jobs[f].status = "incomplete"
    THEN [status |-> "failed", phase |-> "failed"]
    ELSE IF /\ \A f \in linked : jobs[f].status = "done"
            /\ linked # {} \/ row.phase = "completed"
    THEN [status |-> "completed", phase |-> "completed"]
    ELSE row

Reconcile(ts) ==
    task' = [t \in Tasks |->
                IF t \in ts THEN Reconciled(task[t], t, job') ELSE task[t]]

\* Without "force" the debounce may skip any of them (_should_skip_reconcile).
MayReconcile(ts) == \E some \in SUBSET ts : Reconcile(some)

\* Mutant: a report is stored whatever became of the task.
AppliedAnyway(m) ==
    LET stored == IF m.status = "completed" THEN "acknowledged" ELSE m.status
        row == [status |-> stored, phase |-> m.phase] IN
    [task EXCEPT ![m.task] = Reconciled(row, m.task, job)]

\* report_task_result: a task that has ended keeps its status; "completed" is
\* stored as acknowledged and left to the reconciliation.
Applied(m) ==
    LET stored == IF m.status = "completed" THEN "acknowledged" ELSE m.status
        row == [status |-> stored, phase |-> m.phase] IN
    IF task[m.task].status \in Final THEN task
    ELSE [task EXCEPT ![m.task] = Reconciled(row, m.task, job)]

\* _task_result: the result is processed, or the call fails: the message is
\* lost or processed later.
Send(m) == \/ task' = Applied(m) /\ UNCHANGED <<reports, upsets>>
           \/ Upset /\ reports' = reports \cup {m} /\ UNCHANGED task

LateReport(m) == /\ m \in reports
                 /\ reports' = reports \ {m}
                 /\ task' = Applied(m)
                 /\ UNCHANGED <<job, spool, requests, client, worker, upsets,
                                doubtful>>

\* create_task: one active scan of an agent, and none while it has a job.
Create(t) ==
    /\ task[t].status = "none"
    /\ \A u \in Tasks : task[u].status \notin Active
    /\ \A f \in Files : job[f].status \notin Pending
    /\ task' = [task EXCEPT ![t].status = "queued"]
    /\ UNCHANGED <<job, spool, requests, reports, client, worker, upsets,
                   doubtful>>

\* _maintain_tasks: tasks past their ttl expire, unanswered ones are queued.
Maintained(old, stale) ==
    [t \in Tasks |->
        IF t \in old /\ task[t].status \in Active
        THEN [task[t] EXCEPT !.status = "expired"]
        ELSE IF t \in stale /\ task[t].status = "delivered"
        THEN [task[t] EXCEPT !.status = "queued"]
        ELSE task[t]]

\* poll_tasks of the server with poll_tasks of the agent, which acknowledges
\* the task it received; the answer may be lost.  With an acknowledgement that
\* is lost the task is handed out again.
Poll(t, old, stale) ==
    LET rows == Maintained(old, stale) IN
    /\ agent.step = "idle"
    /\ rows[t].status = "queued"
    /\ task' = [rows EXCEPT ![t].status = "delivered"]
    /\ \/ agent' = [AtRest EXCEPT !.step = "polled", !.task = t]
          /\ UNCHANGED upsets
       \/ Upset /\ UNCHANGED agent
    /\ UNCHANGED <<job, spool, requests, reports, scanned, outbox, dead,
                   worker, doubtful>>

\* The poll of this or another agent with nothing to hand out.
Maintain(old, stale) ==
    /\ task' = Maintained(old, stale)
    /\ task' # task
    /\ Upset
    /\ UNCHANGED <<job, spool, requests, reports, client, worker, doubtful>>

-----------------------------------------------------------------------------
(* The agent: a run of a task, the watchdog, the outbox.                     *)

\* poll_tasks: "acknowledged", then run_scan_once over what is not registered.
Acknowledge ==
    /\ agent.step = "polled"
    /\ Send([task |-> agent.task, status |-> "acknowledged",
             phase |-> "local_scan"])
    /\ agent' = [agent EXCEPT !.step = "scan",
                    !.todo = IF agent.task \in Forced THEN Files
                             ELSE Files \ scanned]
    /\ UNCHANGED <<job, spool, requests, scanned, outbox, dead, worker,
                   doubtful>>

Ask(f, t) == requests' = requests \cup {[file |-> f, task |-> t, live |-> TRUE,
                                         step |-> "sent", spooled |-> FALSE]}

\* _scan_path in a run, and for a file the watchdog saw.
ScanPath(f) ==
    /\ \/ agent.step = "scan" /\ f \in agent.todo /\ UNCHANGED upsets
       \/ agent.step = "idle" /\ f \notin scanned /\ Upset
    /\ Ask(f, agent.task)
    /\ agent' = [agent EXCEPT !.step = "scanning", !.file = f,
                              !.todo = @ \ {f}]
    /\ UNCHANGED <<server, reports, scanned, outbox, dead, worker, doubtful>>

\* Mutant: the watchdog's file is followed by the end of a run.
AlwaysRuns(step) == step

\* What follows a file: the run of the task, or nothing for the watchdog's.
Afterwards(step) == IF agent.task = NoTask THEN "idle" ELSE step

\* The answer to a request whose caller still waits: _scan_path registers the
\* file; _drain_outbox has more to do (Drained).
Answer(r, new) ==
    /\ requests' = requests \ {r}
    /\ IF ~r.live
       THEN UNCHANGED <<agent, scanned>>
       ELSE IF agent.step = "scanning"
       THEN /\ scanned' = scanned \cup {r.file}
            /\ agent' = [agent EXCEPT !.step = Afterwards("scan"),
                            !.file = NoFile,
                            !.queued = agent.task # NoTask /\ (@ \/ new)]
       ELSE agent' = [agent EXCEPT !.step = "drained"] /\ UNCHANGED scanned

\* _scan_path puts what it could not send into the outbox; an event that is
\* there already counts as not persisted, like a file that cannot be written.
\* A letter of the outbox that could not be sent stays.
PutOff(written) ==
    LET f == agent.file
        fits == ~outbox[f].held /\ written IN
    IF agent.step = "scanning"
    THEN /\ agent' = [agent EXCEPT !.step = Afterwards("scan"), !.file = NoFile,
                        !.failed = agent.task # NoTask /\ (@ \/ ~fits)]
         /\ outbox' = IF fits
                      THEN [outbox EXCEPT ![f] = [held |-> TRUE, result |-> FALSE,
                                                  task |-> agent.task]]
                      ELSE outbox
    ELSE /\ agent' = [agent EXCEPT !.step = Afterwards("drain"), !.file = NoFile]
         /\ UNCHANGED outbox

\* The request fails for the agent, which puts the file off; the API may still
\* be working on it, or find it later.
GiveUp ==
    /\ agent.step \in {"scanning", "draining"}
    /\ Upset
    /\ requests' = {[r EXCEPT !.live = FALSE] : r \in requests}
    /\ \E written \in BOOLEAN : PutOff(written)
    /\ UNCHANGED <<server, reports, scanned, dead, worker, doubtful>>

\* The outbox is pruned to its limits: old letters are dead letters.
Pruned(old) ==
    /\ outbox' = [f \in Files |-> IF f \in old THEN NoItem ELSE outbox[f]]
    /\ dead' = [f \in Files |-> IF f \in old THEN outbox[f] ELSE dead[f]]
    /\ doubtful' = doubtful \cup old

EndScan ==
    /\ agent.step = "scan" /\ agent.todo = {}
    /\ agent' = [agent EXCEPT !.step = "drain"]
    /\ \/ UNCHANGED <<outbox, dead, upsets, doubtful>>
       \/ \E old \in SUBSET {f \in Files : outbox[f].held} :
              old # {} /\ Pruned(old) /\ Upset
    /\ UNCHANGED <<server, requests, reports, scanned, worker>>

\* _requeue_dead_letter; the event may have a letter in the outbox again.
Revive(f) ==
    /\ agent.step = "idle" /\ dead[f].held
    /\ dead' = [dead EXCEPT ![f] = NoItem]
    /\ outbox' = IF outbox[f].held THEN outbox
                 ELSE [outbox EXCEPT ![f] = dead[f]]
    /\ UNCHANGED <<server, requests, reports, agent, scanned, worker,
                   upsets, doubtful>>

\* _drain_outbox, in a run and between runs: one letter is sent.
Drain(f) ==
    /\ agent.step \in {"idle", "drain"} /\ outbox[f].held
    /\ Ask(f, outbox[f].task)
    /\ agent' = [agent EXCEPT !.step = "draining", !.file = f]
    /\ UNCHANGED <<server, reports, scanned, outbox, dead, worker,
                   upsets, doubtful>>

OthersOf(t, f) == {g \in Files \ {f} : outbox[g].held /\ outbox[g].task = t}

\* The letter was received.  The last one of a task takes the task's result
\* along, and stays when that call fails, also if only its answer is lost.
Drained ==
    LET f == agent.file
        t == outbox[f].task
        last == t # NoTask /\ outbox[f].result /\ OthersOf(t, f) = {}
        m == [task |-> t, status |-> "acknowledged",
              phase |-> "server_processing"]
        removed == /\ outbox' = [outbox EXCEPT ![f] = NoItem]
                   /\ scanned' = scanned \cup {f} IN
    /\ agent.step = "drained"
    /\ agent' = [agent EXCEPT !.step = Afterwards("drain"), !.file = NoFile]
    /\ \/ ~last /\ removed /\ UNCHANGED <<task, reports, upsets>>
       \/ last /\ removed /\ task' = Applied(m) /\ UNCHANGED <<reports, upsets>>
       \/ last /\ Upset /\ UNCHANGED <<outbox, scanned>>
          /\ \/ task' = Applied(m) /\ UNCHANGED reports
             \/ reports' = reports \cup {m} /\ UNCHANGED task
    /\ UNCHANGED <<job, spool, requests, dead, worker, doubtful>>

\* The end of run_scan_once and the report of poll_tasks.  A task with letters
\* in the outbox attaches its result to each of them.
Report ==
    LET t == agent.task
        left == {f \in Files : outbox[f].held /\ outbox[f].task = t}
        phase == IF agent.failed THEN "failed"
                 ELSE IF left # {} THEN "agent_outbox"
                 ELSE IF agent.queued THEN "server_processing"
                 ELSE "completed"
        status == IF phase \in {"failed", "completed"} THEN phase
                  ELSE "acknowledged" IN
    /\ agent.step = "drain"
    /\ outbox' = IF phase = "agent_outbox"
                 THEN [f \in Files |-> IF f \in left
                                       THEN [outbox[f] EXCEPT !.result = TRUE]
                                       ELSE outbox[f]]
                 ELSE outbox
    /\ Send([task |-> t, status |-> status, phase |-> phase])
    /\ agent' = AtRest
    /\ UNCHANGED <<job, spool, requests, scanned, dead, worker, doubtful>>

\* run_scan_once raises, for instance when the state cannot be written: the task
\* is reported as failed, a report that may be late like any other.
AbortRun ==
    LET m == [task |-> agent.task, status |-> "failed", phase |-> "failed"] IN
    /\ agent.step \in {"scan", "drain"} /\ Upset
    /\ \/ task' = Applied(m) /\ UNCHANGED reports
       \/ reports' = reports \cup {m} /\ UNCHANGED task
    /\ agent' = AtRest
    /\ UNCHANGED <<job, spool, requests, scanned, outbox, dead, worker, doubtful>>

\* The state file is written at the end of a run and now and then.
AgentCrash == /\ Upset
              /\ agent' = AtRest
              /\ \E lost \in SUBSET scanned : scanned' = scanned \ lost
              /\ requests' = {[r EXCEPT !.live = FALSE] : r \in requests}
              /\ UNCHANGED <<server, reports, outbox, dead, worker,
                             doubtful>>

-----------------------------------------------------------------------------
(* The API: ingest, queue_job in its transactions, restarts.                 *)

Queued(f, t) == [job[f] EXCEPT !.status = "queued", !.task = t,
                               !.missing = FALSE]

\* A repeated event with its payload reopens a job that had none.
Reopens(f) == job[f].status = "incomplete" /\ job[f].missing

\* Backpressure: 429, and the agent puts the file off.
Refuse(r) ==
    /\ r \in requests /\ r.step = "sent" /\ r.live /\ Upset
    /\ requests' = requests \ {r}
    /\ PutOff(TRUE)
    /\ UNCHANGED <<server, reports, scanned, dead, worker, doubtful>>

\* The answer "deduped"; the observation of a job of the same task reconciles.
Dedupe(r) ==
    /\ MayReconcile({job[r.file].task} \cap {r.task} \cap Tasks)
    /\ UNCHANGED <<job, spool>>
    /\ Answer(r, FALSE)

\* The lookup by event id.  The payload is written before the next transaction,
\* for a new job under an id of its own.
Lookup(r) ==
    LET f == r.file IN
    /\ r \in requests /\ r.step = "sent"
    /\ IF job[f].status = "none"
       THEN /\ requests' = (requests \ {r})
                  \cup {[r EXCEPT !.step = "insert", !.spooled = TRUE]}
            /\ UNCHANGED <<server, agent, scanned>>
       ELSE IF Reopens(f)
       THEN /\ requests' = (requests \ {r}) \cup {[r EXCEPT !.step = "reopen"]}
            /\ spool' = spool \cup {f}
            /\ UNCHANGED <<task, job, agent, scanned>>
       ELSE job' = job /\ Dedupe(r)
    /\ UNCHANGED <<reports, outbox, dead, worker, upsets, doubtful>>

\* The INSERT; the unique index on event_id refuses a second job.
Insert(r) ==
    LET f == r.file IN
    /\ r \in requests /\ r.step = "insert"
    /\ IF job[f].status = "none"
       THEN /\ job' = [job EXCEPT ![f] = Queued(f, r.task)]
            /\ spool' = IF r.spooled THEN spool \cup {f} ELSE spool
            /\ MayReconcile({r.task} \cap Tasks)
            /\ Answer(r, TRUE)
       ELSE job' = job /\ Dedupe(r)
    /\ UNCHANGED <<reports, outbox, dead, worker, upsets, doubtful>>

\* The retry of a job without payload, by id: whatever became of it since.
Reopen(r) ==
    LET f == r.file IN
    /\ r \in requests /\ r.step = "reopen"
    /\ job' = [job EXCEPT ![f] = Queued(f, r.task)]
    /\ MayReconcile({r.task} \cap Tasks)
    /\ Answer(r, TRUE)
    /\ doubtful' = IF /\ Reopens(f) /\ r.task \notin Ended
                      /\ job[f].task \in {r.task, NoTask} \cup Ended
                   THEN doubtful ELSE doubtful \cup {f}
    /\ UNCHANGED <<spool, reports, outbox, dead, worker, upsets>>

\* _ensure_schema, run by every process that opens the store: what was handed
\* out is queued again, acknowledged tasks are reconciled, and a local scan that
\* was silent for too long fails if it has no job.
OpenStore ==
    \E silent \in SUBSET {t \in Tasks :
                             /\ task[t].status = "acknowledged"
                             /\ task[t].phase = "local_scan"
                             /\ Linked(t, job) = {}} :
        task' = [t \in Tasks |->
                    IF task[t].status = "delivered"
                    THEN [task[t] EXCEPT !.status = "queued"]
                    ELSE IF t \in silent
                    THEN [status |-> "failed", phase |-> "failed"]
                    ELSE Reconciled(task[t], t, job)]

\* The API starts anew; _run_startup_maintenance has a thread of its own.
ApiRestart == /\ Upset
              /\ OpenStore
              /\ requests' = {Startup}
              /\ UNCHANGED <<job, spool, reports, client, worker, doubtful>>

-----------------------------------------------------------------------------
(* The worker process, and the maintenance of the spool.                     *)

Processing == {f \in Files : job[f].status = "processing"}
WorkedOn == {thread[h].file : h \in Threads}

WorkerCrash == /\ Upset
               /\ boot # "down"
               /\ boot' = "down" /\ thread' = [h \in Threads |-> Free]
               /\ UNCHANGED <<server, requests, reports, client, doubtful>>

WorkerStart == /\ boot = "down" /\ boot' = "opened"
               /\ OpenStore
               /\ UNCHANGED <<job, spool, requests, reports, client, thread,
                              upsets, doubtful>>

\* requeue_interrupted_processing_jobs.
RequeueInterrupted ==
    /\ boot = "opened" /\ boot' = "requeued"
    /\ job' = [f \in Files |->
                  IF f \in Processing
                  THEN [job[f] EXCEPT !.status = "queued",
                            !.tries = IF @ > 0 THEN @ - 1 ELSE 0]
                  ELSE job[f]]
    /\ MayReconcile({job[f].task : f \in Processing} \cap Tasks)
    /\ UNCHANGED <<spool, requests, reports, client, thread, upsets, doubtful>>

\* reconcile_job_pdf_spool: payloads of settled jobs and of jobs that are not
\* inserted yet are deleted.  A pending job without payload is not analysed,
\* unless it is being processed and its lease has not lapsed.
CleanSpool(left, lapsed) ==
    LET settled == {f \in Files : job[f].status \in {"done", "incomplete"}}
        queued == {f \in Files : job[f].status = "queued"}
        bare == (queued \cup lapsed) \ spool IN
    /\ spool' = spool \ settled
    /\ requests' = {[r EXCEPT !.spooled = FALSE] : r \in left}
    /\ job' = [f \in Files |->
                  IF f \in bare
                  THEN [job[f] EXCEPT !.status = "incomplete", !.missing = TRUE]
                  ELSE job[f]]
    /\ MayReconcile({job[f].task : f \in bare} \cap Tasks)

\* The worker cleans when it has put back what was interrupted ...
ReconcileSpool ==
    /\ boot = "requeued" /\ boot' = "up"
    /\ CleanSpool(requests, {})
    /\ UNCHANGED <<reports, client, thread, upsets, doubtful>>

\* ... and the API beside the requests and the threads that are at work.
StartupMaintenance ==
    /\ Startup \in requests
    /\ \E lapsed \in SUBSET (Processing \ spool) :
           /\ CleanSpool(requests \ {Startup}, lapsed)
           /\ IF lapsed \cap WorkedOn = {} THEN UNCHANGED <<upsets, doubtful>>
              ELSE Upset /\ doubtful' = doubtful \cup (lapsed \cap WorkedOn)
    /\ UNCHANGED <<reports, client, worker>>

\* requeue_stale_processing_jobs in _tick: a lease is over, by age alone.
RequeueStale(f) ==
    /\ boot = "up" /\ f \in Processing
    /\ IF f \in WorkedOn THEN Upset /\ doubtful' = doubtful \cup {f}
       ELSE UNCHANGED <<upsets, doubtful>>
    /\ job' = [job EXCEPT ![f].status = "queued"]
    /\ MayReconcile({job[f].task} \cap Tasks)
    /\ UNCHANGED <<spool, requests, reports, client, worker>>

\* attempt_count of a claimed job, counted as far as RetryLimit and the crashes
\* that take one off can tell apart.
Tried(f) == IF job[f].tries < RetryLimit + MaxUpsets THEN job[f].tries + 1
            ELSE job[f].tries

\* claim_next_jobs.
Claim(h, f) ==
    /\ boot = "up" /\ thread[h].step = "idle" /\ job[f].status = "queued"
    /\ job' = [job EXCEPT ![f].status = "processing", ![f].tries = Tried(f)]
    /\ thread' = [thread EXCEPT ![h] = [step |-> "claimed", file |-> f,
                                        task |-> job[f].task,
                                        tries |-> Tried(f)]]
    /\ UNCHANGED <<task, spool, requests, reports, client, boot, upsets,
                   doubtful>>

\* _process_job reads the payload first.
ReadPayload(h) ==
    /\ thread[h].step = "claimed"
    /\ thread' = [thread EXCEPT ![h].step =
                     IF thread[h].file \in spool THEN "analysing" ELSE "bare"]
    /\ UNCHANGED <<server, requests, reports, client, boot, upsets, doubtful>>

\* finalize_job and create_finding_and_incident, which reconciles the task of
\* the row that was claimed.
Finalize(h, status, missing) ==
    LET f == thread[h].file IN
    /\ job' = [job EXCEPT ![f].status = status, ![f].missing = missing]
    /\ \E t \in {job[f].task, thread[h].task} : Reconcile({t} \cap Tasks)
    /\ thread' = [thread EXCEPT ![h].step = "recorded"]

\* Mutant: a job whose OCR was too slow is tried again without end.
AnalyseAgain(h) ==
    /\ thread[h].step = "analysing"
    /\ \/ \E status \in {"done", "incomplete"} : Finalize(h, status, FALSE)
       \/ /\ job' = [job EXCEPT ![thread[h].file].status = "queued",
                                ![thread[h].file].missing = FALSE]
          /\ MayReconcile({job[thread[h].file].task} \cap Tasks)
          /\ thread' = [thread EXCEPT ![h] = Free]
    /\ UNCHANGED <<spool, requests, reports, client, boot, upsets, doubtful>>

\* _process_job: clean or with an incident, not analysed, or the OCR was too
\* slow and the job is tried again.
Analyse(h) ==
    /\ thread[h].step = "analysing"
    /\ \/ \E status \in {"done", "incomplete"} : Finalize(h, status, FALSE)
       \/ /\ thread[h].tries < RetryLimit
          /\ job' = [job EXCEPT ![thread[h].file].status = "queued",
                                ![thread[h].file].missing = FALSE]
          /\ MayReconcile({job[thread[h].file].task} \cap Tasks)
          /\ thread' = [thread EXCEPT ![h] = Free]
    /\ UNCHANGED <<spool, requests, reports, client, boot, upsets, doubtful>>

\* A job without payload is not analysed; without rules no job is, and then the
\* payload is not asked for.
RefuseBare(h) ==
    /\ thread[h].step = "bare"
    /\ \E missing \in BOOLEAN : Finalize(h, "incomplete", missing)
    /\ UNCHANGED <<spool, requests, reports, client, boot, upsets, doubtful>>

\* Both attempts to record the outcome fail: the job stays 'processing'.
Abandon(h) ==
    /\ thread[h].step \in {"analysing", "bare"}
    /\ Upset
    /\ thread' = [thread EXCEPT ![h] = Free]
    /\ UNCHANGED <<server, requests, reports, client, boot, doubtful>>

\* The payload is deleted after the transaction.
DeletePayload(h) ==
    /\ thread[h].step = "recorded"
    /\ spool' = spool \ {thread[h].file}
    /\ thread' = [thread EXCEPT ![h] = Free]
    /\ UNCHANGED <<task, job, requests, reports, client, boot, upsets, doubtful>>

Agent == \/ Acknowledge \/ GiveUp \/ EndScan \/ Drained
         \/ Report \/ AbortRun \/ AgentCrash
         \/ \E f \in Files : ScanPath(f) \/ Drain(f) \/ Revive(f)

Api == \/ \E t \in Tasks : Create(t)
       \/ \E old, stale \in SUBSET Tasks :
              Maintain(old, stale) \/ \E t \in Tasks : Poll(t, old, stale)
       \/ \E m \in reports : LateReport(m)
       \/ \E r \in requests : Refuse(r) \/ Lookup(r) \/ Insert(r) \/ Reopen(r)
       \/ ApiRestart \/ StartupMaintenance

Thread(h) == \/ ReadPayload(h) \/ Analyse(h) \/ RefuseBare(h)
             \/ DeletePayload(h)

Worker == \/ WorkerCrash \/ WorkerStart \/ RequeueInterrupted \/ ReconcileSpool
          \/ \E f \in Files : RequeueStale(f)
          \/ \E h \in Threads : \/ Thread(h) \/ Abandon(h)
                                \/ \E f \in Files : Claim(h, f)

Next == Agent \/ Api \/ Worker

\* The worker process is started again and its loop goes on; a lease that no
\* thread holds any more ends.
Fairness ==
    /\ WF_vars(WorkerStart) /\ WF_vars(RequeueInterrupted)
    /\ WF_vars(ReconcileSpool)
    /\ \A f \in Files : /\ WF_vars(RequeueStale(f) /\ f \notin WorkedOn)
                        /\ WF_vars(\E h \in Threads : Claim(h, f))
    /\ \A h \in Threads : WF_vars(Thread(h))

Spec == Init /\ [][Next]_vars
FairSpec == Spec /\ Fairness

-----------------------------------------------------------------------------
Steps == {"idle", "polled", "scan", "scanning", "drain", "draining", "drained"}
Phases == {"none", "local_scan", "agent_outbox", "server_processing",
           "completed", "failed"}
Owner == Tasks \cup {NoTask}
Message == [task : Tasks, phase : Phases,
            status : {"acknowledged", "completed", "failed"}]
Tries == 0..(RetryLimit + MaxUpsets)
Item == [held : BOOLEAN, task : Owner, result : BOOLEAN]
Request == [file : Files, task : Owner, live : BOOLEAN,
            step : {"sent", "insert", "reopen"}, spooled : BOOLEAN]

TypeOK ==
    /\ task \in [Tasks -> [status : Active \cup Final \cup {"none"},
                           phase : Phases]]
    /\ job \in [Files -> [status : Pending \cup {"none", "done", "incomplete"},
                          task : Owner, tries : Tries, missing : BOOLEAN]]
    /\ spool \subseteq Files
    /\ requests \subseteq Request \cup {Startup}
    /\ reports \subseteq Message
    /\ agent \in [step : Steps, task : Owner, file : Files \cup {NoFile},
                  todo : SUBSET Files, queued : BOOLEAN, failed : BOOLEAN]
    /\ agent.task = NoTask =>
           agent.step \in {"idle", "scanning", "draining", "drained"}
    /\ agent.step \in {"scanning", "draining", "drained"}
           <=> agent.file # NoFile
    /\ \A h \in Threads : thread[h].step = "idle" <=> thread[h].file = NoFile
    /\ scanned \subseteq Files
    /\ outbox \in [Files -> Item] /\ dead \in [Files -> Item]
    /\ thread \in [Threads -> [step : {"idle", "claimed", "analysing", "bare",
                                       "recorded"},
                               file : Files \cup {NoFile}, task : Owner,
                               tries : Tries]]
    /\ boot \in {"down", "opened", "requeued", "up"}
    /\ upsets \in 0..MaxUpsets /\ doubtful \subseteq Files

\* A completed task leaves nothing out: every file of the agent was received,
\* and those that are jobs of the task were analysed, whatever was lost,
\* repeated, delayed or restarted.  Not said of a file whose letter was given
\* up, whose job's lease ended under a thread at work, or whose job was reopened
\* after it had changed, for a task that had ended, or away from one that had not.
CompletedIsComplete ==
    \A t \in Tasks : task[t].status = "completed" =>
        \A f \in Files \ doubtful :
            /\ job[f].status # "none"
            /\ job[f].task = t => job[f].status = "done"

\* No completion is missed, although reconciliations are skipped: a task whose
\* agent has sent everything waits for a pending job.  It waits for its ttl only
\* when it has no job at all, or one that a restart refused for want of its
\* payload, or when something was mixed up.
WaitsForAJob ==
    doubtful = {} => \A t \in Tasks : Told(task[t]) =>
        \/ \E f \in Linked(t, job) : \/ job[f].status \in Pending
                                     \/ job[f].status = "incomplete"
                                        /\ job[f].missing
        \/ Linked(t, job) = {} /\ task[t].phase = "server_processing"

\* A task that has ended stays as it ended: late reports, polls, restarts and
\* jobs that come in afterwards do not move it.
EndedStaysEnded ==
    [][\A t \in Tasks : task[t].status \in Final => task'[t] = task[t]]_vars

\* Every job is analysed or refused: crashes, lost leases, slow OCR and failed
\* writes delay it only.
EveryJobSettles ==
    \A f \in Files : job[f].status \in Pending
                         ~> job[f].status \in {"done", "incomplete"}
=============================================================================
