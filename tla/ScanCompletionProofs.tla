------------------------ MODULE ScanCompletionProofs -------------------------
(* That a completed task of ScanTasks left nothing out, for any number of     *)
(* tasks, files and threads.  The argument follows a file: from the run that  *)
(* had to send it, through the outbox, to its job, and the report that says   *)
(* so, through the server, to the row of the task.  At the end: that a task   *)
(* is alone with its agent, and that what the argument excepts, the files in  *)
(* doubt, takes more than an unlucky order of steps.                          *)
EXTENDS ScanTasksProofs

-----------------------------------------------------------------------------
(* What the agent knows and what the server has.                             *)

\* The file has a job, or a letter of the task in the outbox.
Got(f) == job[f].status # "none"
Posted(f, t) == outbox[f].held /\ outbox[f].task = t
Covered(f, t) == Got(f) \/ Posted(f, t)

Received == \A f \in Files \ doubtful : Got(f)

\* A row, or a report, that says that the agent has sent everything.
TellsAll(row) == \/ row.phase \in {"server_processing", "completed"}
                 \/ row.status = "completed"

RowsTrue == \A t \in Tasks : TellsAll(task[t]) => Received

ReportsTrue == \A m \in reports : TellsAll(m) => Received

\* The agent takes for sent only what the server has.
Registered == /\ \A f \in scanned : Got(f)
              /\ agent.step = "drained" => Got(agent.file)

\* A run that has not failed has covered every file that it does not still
\* have to scan.
RunInv ==
    /\ agent.step = "idle" => agent.task = NoTask
    /\ agent.task # NoTask /\ agent.step \in {"drain", "draining", "drained"}
           => agent.todo = {}
    /\ agent.task # NoTask /\ agent.step # "polled" /\ ~agent.failed =>
           \A f \in Files \ doubtful : \/ Covered(f, agent.task)
                                       \/ f \in agent.todo
                                       \/ agent.step = "scanning" /\ agent.file = f

\* A letter that carries the result of its task is of a run that has covered
\* every file; a dead letter is of a file that was given up.
LetterInv ==
    /\ \A f \in Files : dead[f].held => f \in doubtful
    /\ \A f \in Files : outbox[f].result =>
           \A g \in Files \ doubtful : Covered(g, outbox[f].task)
    /\ \A f \in Files : dead[f].result =>
           \A g \in Files \ doubtful : Covered(g, dead[f].task)

SentInv == Registered /\ RunInv /\ LetterInv /\ RowsTrue /\ ReportsTrue

\* A step takes no file back from the server and settles no doubt.
Grows == /\ \A f \in Files : Got(f) => Got(f)'
         /\ doubtful \subseteq doubtful'

LEMMA ReceivedStays ==
  ASSUME Grows, Received
  PROVE  Received'
  BY DEF Grows, Received

LEMMA JobsGrow ==
  ASSUME IInv, [Next]_vars
  PROVE  Grows
<1>0. job \in [Files -> Job]
  BY DEF IInv, ServerType
<1>1. CASE UNCHANGED <<job, doubtful>>
  BY <1>1 DEF Grows, Got
<1>2. CASE Agent
  BY <1>0, <1>2 DEF Agent, Acknowledge, GiveUp, EndScan, Pruned, Drained, Report,
     AbortRun, AgentCrash, ScanPath, Drain, Revive, server, Grows, Got
<1>3. ASSUME NEW r \in requests, Insert(r) \/ Reopen(r)
      PROVE  Grows
  <2>1. r.file \in Files /\ r.task \in Owner
    BY <1>3, TypedRequest DEF Insert, Reopen, Request
  <2>2. Queued(r.file, r.task).status = "queued"
    BY <1>0, <2>1 DEF Queued, Job
  <2>3. job' = job \/ job' = [job EXCEPT ![r.file] = Queued(r.file, r.task)]
    BY <1>3 DEF Insert, Reopen
  <2>4. doubtful \subseteq doubtful'
    BY <1>3 DEF Insert, Reopen
  <2> QED
    BY <1>0, <2>1, <2>2, <2>3, <2>4 DEF Grows, Got
<1>4. ASSUME NEW left, NEW lapsed, CleanSpool(left, lapsed),
             doubtful \subseteq doubtful'
      PROVE  Grows
  <2>1. ASSUME NEW f \in Files
        PROVE  job'[f] = job[f] \/ job'[f].status = "incomplete"
    BY <1>0, <1>4 DEF CleanSpool, Job
  <2> QED
    BY <1>4, <2>1 DEF Grows, Got
<1>5. CASE StartupMaintenance
  BY <1>4, <1>5 DEF StartupMaintenance
<1>6. CASE Api
  BY <1>1, <1>3, <1>5, <1>6 DEF Api, Create, Maintain, Poll, LateReport, Refuse,
     Lookup, ApiRestart, server
<1>7. CASE ReconcileSpool
  BY <1>4, <1>7 DEF ReconcileSpool
<1>8. CASE RequeueInterrupted
  <2>1. ASSUME NEW f \in Files
        PROVE  job'[f] = job[f] \/ job'[f].status = "queued"
    BY <1>0, <1>8 DEF RequeueInterrupted, Job
  <2> QED
    BY <1>8, <2>1 DEF RequeueInterrupted, Grows, Got
<1>9. ASSUME NEW h \in Threads, Analyse(h) \/ RefuseBare(h)
      PROVE  Grows
  <2>1. thread[h].file \in Files /\ doubtful' = doubtful
    BY <1>9, WorkFile DEF Analyse, RefuseBare
  <2>2. \E status \in {"queued", "done", "incomplete"} : \E missing :
            job' = [job EXCEPT ![thread[h].file].status = status,
                               ![thread[h].file].missing = missing]
    BY <1>9 DEF Analyse, RefuseBare, Finalize
  <2>3. ASSUME NEW f \in Files
        PROVE  \/ job'[f] = job[f]
               \/ job'[f].status \in {"queued", "done", "incomplete"}
    BY <1>0, <2>1, <2>2 DEF Job
  <2> QED
    BY <2>1, <2>3 DEF Grows, Got
<1>10. CASE Worker
  <2>1. ASSUME NEW f \in Files, RequeueStale(f)
        PROVE  Grows
    BY <1>0, <2>1 DEF RequeueStale, Grows, Got
  <2>2. ASSUME NEW h \in Threads, NEW f \in Files, Claim(h, f)
        PROVE  Grows
    BY <1>0, <2>2 DEF Claim, Grows, Got
  <2> QED
    BY <1>1, <1>7, <1>8, <1>9, <1>10, <2>1, <2>2 DEF Worker, WorkerCrash,
       WorkerStart, Thread, ReadPayload, DeletePayload, Abandon, server
<1> QED
  BY <1>1, <1>2, <1>6, <1>10 DEF Next, vars, server

-----------------------------------------------------------------------------
(* What a step writes into scan_tasks.                                       *)

AllDone(t, jobs) == \A f \in Linked(t, jobs) : jobs[f].status = "done"

\* A row says that everything was sent only when it was, and is completed only
\* when its jobs are done.
Honest(t) ==
    /\ TellsAll(task'[t]) => TellsAll(task[t]) \/ Received'
    /\ task'[t].status = "completed"
           => task[t].status = "completed" \/ AllDone(t, job')

AllHonest == \A t \in Tasks : Honest(t)

LEMMA ReconciledHonest ==
  ASSUME NEW row \in Row, NEW t, NEW jobs
  PROVE  /\ TellsAll(Reconciled(row, t, jobs)) => TellsAll(row)
         /\ Reconciled(row, t, jobs).status = "completed"
                => row.status = "completed" \/ AllDone(t, jobs)
  BY DEF Reconciled, Told, TellsAll, AllDone

LEMMA SameRows ==
  ASSUME UNCHANGED task
  PROVE  AllHonest
  BY DEF AllHonest, Honest

LEMMA ReconcileHonest ==
  ASSUME task \in [Tasks -> Row], NEW ts, Reconcile(ts)
  PROVE  AllHonest
<1> SUFFICES ASSUME NEW t \in Tasks PROVE Honest(t)
  BY DEF AllHonest
<1>1. task[t] \in Row
  OBVIOUS
<1>2. task'[t] = task[t] \/ task'[t] = Reconciled(task[t], t, job')
  BY DEF Reconcile
<1> QED
  BY <1>1, <1>2, ReconciledHonest DEF Honest

LEMMA MayReconcileHonest ==
  ASSUME task \in [Tasks -> Row], NEW ts, MayReconcile(ts)
  PROVE  AllHonest
  BY ReconcileHonest DEF MayReconcile

\* A report that is processed: "completed" is not taken at its word.
LEMMA AppliedHonest ==
  ASSUME task \in [Tasks -> Row], NEW m \in Message, task' = Applied(m),
         UNCHANGED job, TellsAll(m) => Received'
  PROVE  AllHonest
<1> DEFINE stored == IF m.status = "completed" THEN "acknowledged" ELSE m.status
           row == [status |-> stored, phase |-> m.phase]
<1> SUFFICES ASSUME NEW t \in Tasks PROVE Honest(t)
  BY DEF AllHonest
<1>1. CASE task'[t] = task[t]
  BY <1>1 DEF Honest
<1>2. CASE t = m.task /\ task'[t] # task[t]
  <2>1. row \in Row /\ row.status # "completed"
    BY DEF Message, Row, Active, Final
  <2>2. TellsAll(row) => TellsAll(m)
    BY <2>1 DEF TellsAll
  <2>3. task'[t] = Reconciled(row, t, job')
    BY <1>2 DEF Applied
  <2> HIDE DEF row
  <2> QED
    BY <2>1, <2>2, <2>3, ReconciledHonest DEF Honest
<1> QED
  BY <1>1, <1>2 DEF Applied

LEMMA SendHonest ==
  ASSUME task \in [Tasks -> Row], NEW m \in Message, Send(m), UNCHANGED job,
         TellsAll(m) => Received'
  PROVE  AllHonest /\ reports' \subseteq reports \cup {m}
  BY AppliedHonest, SameRows DEF Send

LEMMA OpenStoreHonest ==
  ASSUME task \in [Tasks -> Row], OpenStore, UNCHANGED job
  PROVE  AllHonest
<1> SUFFICES ASSUME NEW t \in Tasks PROVE Honest(t)
  BY DEF AllHonest
<1>1. task[t] \in Row
  OBVIOUS
<1>2. \/ task'[t] = [task[t] EXCEPT !.status = "queued"]
      \/ task'[t] = [status |-> "failed", phase |-> "failed"]
      \/ task'[t] = Reconciled(task[t], t, job')
  BY DEF OpenStore
<1> QED
  BY <1>1, <1>2, ReconciledHonest DEF Honest, TellsAll, Row

\* A new task, the ttl of tasks and the poll say nothing about what was sent.
LEMMA PolledHonest ==
  ASSUME task \in [Tasks -> Row], NEW old, NEW stale, NEW u \in Tasks,
         \/ task' = Maintained(old, stale)
         \/ task' = [Maintained(old, stale) EXCEPT ![u].status = "delivered"]
         \/ task' = [task EXCEPT ![u].status = "queued"]
  PROVE  AllHonest
<1> SUFFICES ASSUME NEW t \in Tasks PROVE Honest(t)
  BY DEF AllHonest
<1>1. task[t] \in Row
  OBVIOUS
<1>2. Maintained(old, stale)[t] \in
          {task[t], [task[t] EXCEPT !.status = "expired"],
                    [task[t] EXCEPT !.status = "queued"]}
  BY DEF Maintained
<1>3. Maintained(old, stale) \in [Tasks -> Row]
  BY MaintainedKeeps
<1>4. \/ task'[t] \in {task[t], [task[t] EXCEPT !.status = "expired"],
                       [task[t] EXCEPT !.status = "queued"]}
      \/ task'[t] = [Maintained(old, stale)[t] EXCEPT !.status = "delivered"]
  BY <1>2, <1>3
<1>5. /\ task'[t].phase = task[t].phase
      /\ task'[t].status \in {task[t].status, "expired", "queued", "delivered"}
  BY <1>1, <1>2, <1>4 DEF Row
<1> QED
  BY <1>5 DEF Honest, TellsAll

\* What the server and the worker write.
LEMMA ServerHonest ==
  ASSUME IInv, ReportsTrue, Grows, Api \/ Worker
  PROVE  AllHonest /\ reports' \subseteq reports
<1>0. task \in [Tasks -> Row]
  BY DEF IInv, ServerType
<1>1. reports' \subseteq reports
  BY DEF Api, Worker, Create, Maintain, Poll, LateReport, Refuse, Lookup, Insert,
     Reopen, ApiRestart, StartupMaintenance, WorkerCrash, WorkerStart,
     RequeueInterrupted, ReconcileSpool, RequeueStale, Claim, Thread,
     ReadPayload, Analyse, RefuseBare, Abandon, DeletePayload
<1> SUFFICES AllHonest
  BY <1>1
<1>2. ASSUME NEW m \in reports, LateReport(m)
      PROVE  AllHonest
  <2>1. m \in Message /\ (TellsAll(m) => Received')
    BY ReceivedStays DEF IInv, MessageType, ReportsTrue
  <2> QED
    BY <1>0, <1>2, <2>1, AppliedHonest DEF LateReport
<1>3. ASSUME NEW r \in requests, Refuse(r) \/ Lookup(r) \/ Insert(r) \/ Reopen(r)
      PROVE  AllHonest
  <2>1. UNCHANGED task \/ \E ts : MayReconcile(ts)
    BY <1>3 DEF Refuse, Lookup, Insert, Reopen, Dedupe, server
  <2> QED
    BY <1>0, <2>1, SameRows, MayReconcileHonest
<1>4. CASE ApiRestart \/ WorkerStart
  BY <1>0, <1>4, OpenStoreHonest DEF ApiRestart, WorkerStart
<1>5. CASE Api
  <2>1. ASSUME NEW t \in Tasks, NEW old, NEW stale,
               Create(t) \/ Maintain(old, stale) \/ Poll(t, old, stale)
        PROVE  AllHonest
    BY <1>0, <2>1, PolledHonest DEF Create, Maintain, Poll
  <2>2. ASSUME NEW old, NEW stale, Maintain(old, stale)
        PROVE  AllHonest
    <3>1. CASE Tasks = {}
      BY <3>1 DEF AllHonest
    <3>2. CASE Tasks # {}
      BY <2>1, <2>2, <3>2
    <3> QED
      BY <3>1, <3>2
  <2>3. CASE StartupMaintenance
    <3>1. \E ts : MayReconcile(ts)
      BY <2>3 DEF StartupMaintenance, CleanSpool
    <3> QED
      BY <1>0, <3>1, MayReconcileHonest
  <2> QED
    BY <1>2, <1>3, <1>4, <1>5, <2>1, <2>2, <2>3 DEF Api
<1>6. ASSUME NEW h \in Threads, Analyse(h) \/ RefuseBare(h)
      PROVE  AllHonest
  BY <1>0, <1>6, ReconcileHonest, MayReconcileHonest
  DEF Analyse, RefuseBare, Finalize
<1>7. CASE Worker
  <2>1. CASE RequeueInterrupted \/ ReconcileSpool \/ \E f \in Files : RequeueStale(f)
    <3>1. \E ts : MayReconcile(ts)
      BY <2>1 DEF RequeueInterrupted, ReconcileSpool, CleanSpool, RequeueStale
    <3> QED
      BY <1>0, <3>1, MayReconcileHonest
  <2>2. CASE UNCHANGED task
    BY <2>2, SameRows
  <2> QED
    BY <1>4, <1>6, <1>7, <2>1, <2>2 DEF Worker, WorkerCrash, Claim, Thread,
       ReadPayload, Abandon, DeletePayload, server
<1> QED
  BY <1>5, <1>7

\* The reports of the agent.  A run says that it has sent everything when it
\* has; a letter takes the result along when it is the last of a covered run.
LEMMA AgentHonest ==
  ASSUME IInv, SentInv, Grows, Agent
  PROVE  /\ AllHonest
         /\ \A m \in reports' : m \in reports \/ (TellsAll(m) => Received')
<1>0. task \in [Tasks -> Row] /\ UNCHANGED <<job, thread, boot>>
  BY DEF IInv, ServerType, Agent, Acknowledge, GiveUp, EndScan, Drained, Report,
         AbortRun, AgentCrash, ScanPath, Drain, Revive, server, worker
<1>1. ASSUME NEW m \in Message, TellsAll(m) => Received,
             \/ Send(m)
             \/ task' = Applied(m) /\ UNCHANGED reports
             \/ UNCHANGED task /\ reports' = reports \cup {m}
      PROVE  /\ AllHonest
             /\ \A n \in reports' : n \in reports \/ (TellsAll(n) => Received')
  <2>1. TellsAll(m) => Received'
    BY <1>1, ReceivedStays
  <2>2. AllHonest
    BY <1>0, <1>1, <2>1, AppliedHonest, SendHonest, SameRows
  <2>3. reports' \subseteq reports \cup {m}
    BY <1>1 DEF Send
  <2> QED
    BY <2>1, <2>2, <2>3
<1>2. CASE Acknowledge
  <2> DEFINE m == [task |-> agent.task, status |-> "acknowledged",
                   phase |-> "local_scan"]
  <2>1. m \in Message /\ Send(m) /\ ~TellsAll(m)
    BY <1>2 DEF Acknowledge, IInv, AgentType, Owner, Message, Phases, TellsAll
  <2> HIDE DEF m
  <2> QED
    BY <1>1, <2>1
<1>3. CASE AbortRun
  <2> DEFINE m == [task |-> agent.task, status |-> "failed", phase |-> "failed"]
  <2>1. m \in Message /\ ~TellsAll(m)
    BY <1>3 DEF AbortRun, IInv, AgentType, Owner, Message, Phases, TellsAll
  <2>2. \/ task' = Applied(m) /\ UNCHANGED reports
        \/ UNCHANGED task /\ reports' = reports \cup {m}
    BY <1>3 DEF AbortRun
  <2> HIDE DEF m
  <2> QED
    BY <1>1, <2>1, <2>2
<1>4. CASE Report
  <2> DEFINE t == agent.task
             left == {f \in Files : outbox[f].held /\ outbox[f].task = t}
             phase == IF agent.failed THEN "failed"
                      ELSE IF left # {} THEN "agent_outbox"
                      ELSE IF agent.queued THEN "server_processing"
                      ELSE "completed"
             status == IF phase \in {"failed", "completed"} THEN phase
                       ELSE "acknowledged"
             m == [task |-> t, status |-> status, phase |-> phase]
  <2>1. agent.step = "drain" /\ t \in Tasks /\ t # NoTask
    BY <1>4, ScanAssumption DEF Report, IInv, AgentType, Owner
  <2>2. m \in Message /\ Send(m)
    BY <1>4, <2>1 DEF Report, Message, Phases
  <2>3. ASSUME TellsAll(m)
        PROVE  Received
    <3>1. ~agent.failed /\ left = {}
      BY <2>3 DEF TellsAll
    <3>2. ASSUME NEW f \in Files \ doubtful
          PROVE  Got(f)
      <4>1. Covered(f, t)
        BY <2>1, <3>1, <3>2 DEF SentInv, RunInv
      <4> QED
        BY <3>1, <4>1 DEF Covered, Posted
    <3> QED
      BY <3>2 DEF Received
  <2> HIDE DEF m
  <2> QED
    BY <1>1, <2>2, <2>3
<1>5. CASE Drained
  <2> DEFINE f == agent.file
             t == outbox[f].task
             m == [task |-> t, status |-> "acknowledged",
                   phase |-> "server_processing"]
  <2>1. f \in Files /\ t \in Owner
    BY <1>5 DEF Drained, IInv, AgentType, BoxType, Item
  <2>2. \/ UNCHANGED <<task, reports>>
        \/ /\ t # NoTask /\ outbox[f].result /\ OthersOf(t, f) = {}
           /\ \/ task' = Applied(m) /\ UNCHANGED reports
              \/ UNCHANGED task /\ reports' = reports \cup {m}
    BY <1>5 DEF Drained
  <2>3. CASE UNCHANGED <<task, reports>>
    BY <2>3, SameRows
  <2>4. CASE /\ t # NoTask /\ outbox[f].result /\ OthersOf(t, f) = {}
             /\ \/ task' = Applied(m) /\ UNCHANGED reports
                \/ UNCHANGED task /\ reports' = reports \cup {m}
    <3>1. m \in Message
      BY <2>1, <2>4 DEF Message, Owner, Phases
    <3>2. ASSUME NEW g \in Files \ doubtful
          PROVE  Got(g)
      <4>1. Covered(g, t)
        BY <2>1, <2>4 DEF SentInv, LetterInv
      <4>2. g # f => ~Posted(g, t)
        BY <2>4 DEF OthersOf, Posted
      <4>3. Got(f)
        BY <1>5 DEF Drained, SentInv, Registered
      <4> QED
        BY <4>1, <4>2, <4>3 DEF Covered
    <3>3. Received
      BY <3>2 DEF Received
    <3> HIDE DEF m
    <3> QED
      BY <1>1, <2>4, <3>1, <3>3
  <2> QED
    BY <2>2, <2>3, <2>4
<1>6. CASE UNCHANGED <<task, reports>>
  BY <1>6, SameRows
<1> QED
  BY <1>2, <1>3, <1>4, <1>5, <1>6
  DEF Agent, GiveUp, EndScan, AgentCrash, ScanPath, Drain, Revive, server

-----------------------------------------------------------------------------
(* A file stays covered, and what the agent concludes from it stays true.    *)

Stays == \A g \in Files \ doubtful', t \in Owner : Covered(g, t) => Covered(g, t)'

\* A letter leaves the outbox when the server has its file, or given up.
LEMMA LettersStay ==
  ASSUME Grows,
         \A g \in Files :
            \/ outbox[g].held => /\ outbox'[g].held
                                 /\ outbox'[g].task = outbox[g].task
            \/ Got(g) \/ g \in doubtful'
  PROVE  Stays
  BY DEF Stays, Covered, Posted, Grows

LEMMA RegisteredStays ==
  ASSUME Grows, IInv', Registered, scanned' \subseteq scanned,
         agent'.step = "drained" => agent.step = "drained" /\ agent'.file = agent.file
  PROVE  Registered'
<1>1. \A f \in scanned' : Got(f)'
  BY DEF Registered, Grows, IInv, BoxType
<1>2. agent'.step = "drained" => agent'.file \in Files
  BY DEF IInv, AgentType
<1> QED
  BY <1>1, <1>2 DEF Registered, Grows, Got

\* The results that letters carry are those they carried before.
LEMMA LettersKeep ==
  ASSUME IInv, IInv', LetterInv, Grows, Stays,
         \A f \in Files : dead'[f].held => dead[f].held \/ f \in doubtful',
         \A f \in Files : outbox'[f].result =>
             \/ outbox[f].result /\ outbox'[f].task = outbox[f].task
             \/ dead[f].result /\ outbox'[f].task = dead[f].task,
         \A f \in Files : dead'[f].result =>
             \/ outbox[f].result /\ dead'[f].task = outbox[f].task
             \/ dead[f].result /\ dead'[f].task = dead[f].task
  PROVE  LetterInv'
<1>1. \A f \in Files : outbox[f].task \in Owner /\ dead[f].task \in Owner
  BY DEF IInv, BoxType, Item
<1>2. \A t \in Owner : (\A g \in Files \ doubtful : Covered(g, t))
                       => \A g \in Files \ doubtful' : Covered(g, t)'
  BY DEF Stays, Grows
<1>3. ASSUME NEW f \in Files, outbox'[f].result
      PROVE  \A g \in Files \ doubtful' : Covered(g, outbox[f].task)'
  <2>1. \A g \in Files \ doubtful : Covered(g, outbox'[f].task)
    BY <1>3 DEF LetterInv
  <2>2. outbox'[f].task \in Owner
    BY <1>1, <1>3
  <2> QED
    BY <1>2, <2>1, <2>2 DEF Covered, Got, Posted
<1>4. ASSUME NEW f \in Files, dead'[f].result
      PROVE  \A g \in Files \ doubtful' : Covered(g, dead[f].task)'
  <2>1. \A g \in Files \ doubtful : Covered(g, dead'[f].task)
    BY <1>4 DEF LetterInv
  <2>2. dead'[f].task \in Owner
    BY <1>1, <1>4
  <2> QED
    BY <1>2, <2>1, <2>2 DEF Covered, Got, Posted
<1>5. \A f \in Files : dead'[f].held => f \in doubtful'
  BY DEF LetterInv, Grows
<1> QED
  BY <1>3, <1>4, <1>5 DEF LetterInv

\* Steps that leave the agent alone, but for what it has to do.
LEMMA ClientStays ==
  ASSUME IInv, IInv', SentInv, Grows, UNCHANGED client
  PROVE  (Registered /\ RunInv /\ LetterInv)'
<1>1. Stays
  BY LettersStay DEF client
<1>2. Registered'
  BY RegisteredStays DEF SentInv, client
<1>3. LetterInv'
  BY <1>1, LettersKeep DEF SentInv, client
<1>4. agent.task \in Owner
  BY DEF IInv, AgentType
<1>5. RunInv'
  BY <1>1, <1>4 DEF SentInv, RunInv, Stays, Grows, client
<1> QED
  BY <1>2, <1>3, <1>5

\* The agent is told that the server has the file it sent.
LEMMA AnswerSent ==
  ASSUME IInv, IInv', SentInv, Grows, NEW r \in requests, r \in Request,
         NEW new \in BOOLEAN, Answer(r, new), Got(r.file)', UNCHANGED <<outbox, dead>>
  PROVE  (Registered /\ RunInv /\ LetterInv)'
<1>1. CASE ~r.live
  BY <1>1, ClientStays DEF Answer, client
<1>2. CASE r.live
  <2>0. Stays /\ agent.file = r.file /\ agent.task \in Owner /\ r.file \in Files
    BY <1>2, LettersStay DEF IInv, LiveInv, AgentType, Request
  <2>1. LetterInv'
    BY <2>0, LettersKeep DEF SentInv
  <2>2. CASE agent.step = "scanning"
    <3>1. /\ scanned' = scanned \cup {r.file}
          /\ agent' = [agent EXCEPT !.step = Afterwards("scan"), !.file = NoFile,
                          !.queued = agent.task # NoTask /\ (@ \/ new)]
      BY <1>2, <2>2 DEF Answer
    <3>2. /\ agent'.task = agent.task /\ agent'.todo = agent.todo
          /\ agent'.failed = agent.failed
          /\ agent'.step = IF agent.task = NoTask THEN "idle" ELSE "scan"
      BY <3>1 DEF IInv, AgentType, Afterwards
    <3>3. Registered'
      BY <3>1, <3>2 DEF SentInv, Registered, Grows, IInv, BoxType
    <3>4. RunInv'
      <4>1. ASSUME agent.task # NoTask, ~agent.failed, NEW f \in Files \ doubtful'
            PROVE  (Covered(f, agent.task))' \/ f \in agent.todo
        <5>1. \/ Covered(f, agent.task) \/ f \in agent.todo
              \/ f = r.file
          BY <2>0, <2>2, <4>1 DEF SentInv, RunInv, Grows
        <5> QED
          BY <2>0, <3>2, <4>1, <5>1 DEF Stays, Covered, Posted
      <4> QED
        BY <2>0, <3>2, <4>1 DEF RunInv
    <3> QED
      BY <2>1, <3>3, <3>4
  <2>3. CASE agent.step = "draining"
    <3>1. agent' = [agent EXCEPT !.step = "drained"] /\ UNCHANGED scanned
      BY <1>2, <2>3 DEF Answer
    <3>2. /\ agent'.task = agent.task /\ agent'.todo = agent.todo
          /\ agent'.failed = agent.failed /\ agent'.step = "drained"
          /\ agent'.file = r.file
      BY <2>0, <3>1 DEF IInv, AgentType
    <3>3. Registered'
      BY <3>1, <3>2 DEF SentInv, Registered, Grows, IInv, BoxType, Got
    <3>4. RunInv'
      BY <2>0, <2>3, <3>2 DEF SentInv, RunInv, Grows, Stays, Covered, Posted
    <3> QED
      BY <2>1, <3>3, <3>4
  <2> QED
    BY <1>2, <2>2, <2>3 DEF IInv, LiveInv
<1> QED
  BY <1>1, <1>2

\* A file that could not be sent is in the outbox, or the run has failed.
LEMMA PutOffSent ==
  ASSUME IInv, IInv', SentInv, Grows, agent.step \in {"scanning", "draining"},
         NEW written \in BOOLEAN, PutOff(written), UNCHANGED <<scanned, dead>>
  PROVE  (Registered /\ RunInv /\ LetterInv)'
<1> DEFINE f == agent.file
           letter == [held |-> TRUE, result |-> FALSE, task |-> agent.task]
<1>0. /\ f \in Files /\ agent.task \in Owner /\ outbox \in [Files -> Item]
      /\ letter.held /\ letter.task = agent.task /\ ~letter.result
  BY DEF IInv, AgentType, BoxType
<1>1. \/ outbox' = outbox
      \/ ~outbox[f].held /\ outbox' = [outbox EXCEPT ![f] = letter]
  BY DEF PutOff
<1>2. /\ agent'.task = agent.task /\ agent'.todo = agent.todo
      /\ agent'.step = IF agent.task = NoTask THEN "idle"
                       ELSE IF agent.step = "scanning" THEN "scan" ELSE "drain"
  BY DEF PutOff, Afterwards, IInv, AgentType
<1>3. \/ agent.step = "draining" /\ agent'.failed = agent.failed
      \/ /\ agent.step = "scanning"
         /\ agent.task # NoTask => \/ agent'.failed
                                   \/ ~agent.failed /\ outbox'[f] = letter
  <2>1. CASE agent.step = "scanning"
    <3>1. agent'.failed = (agent.task # NoTask /\ (agent.failed
                              \/ ~(~outbox[f].held /\ written)))
      BY <2>1 DEF PutOff, IInv, AgentType
    <3>2. ~outbox[f].held /\ written => outbox' = [outbox EXCEPT ![f] = letter]
      BY <2>1 DEF PutOff
    <3> HIDE DEF letter
    <3> QED
      BY <1>0, <2>1, <3>1, <3>2
  <2>2. CASE agent.step = "draining"
    BY <2>2 DEF PutOff, IInv, AgentType
  <2> QED
    BY <2>1, <2>2
<1> HIDE DEF f, letter
<1>4. Stays
  BY <1>0, <1>1, LettersStay
<1>5. Registered'
  BY <1>2, RegisteredStays DEF SentInv
<1>6. LetterInv'
  BY <1>0, <1>1, <1>4, LettersKeep DEF SentInv
<1>7. RunInv'
  <2>1. ASSUME agent.task # NoTask, ~agent'.failed, NEW g \in Files \ doubtful'
        PROVE  (Covered(g, agent.task))' \/ g \in agent.todo
    <3>1. \/ Covered(g, agent.task) \/ g \in agent.todo
          \/ agent.step = "scanning" /\ g = f
      BY <1>3, <2>1 DEF SentInv, RunInv, Grows, f
    <3>2. CASE Covered(g, agent.task)
      BY <1>0, <1>2, <1>4, <2>1, <3>2 DEF Stays, Covered, Posted
    <3>3. CASE agent.step = "scanning" /\ g = f
      BY <1>0, <1>2, <1>3, <2>1, <3>3 DEF Covered, Posted
    <3> QED
      BY <3>1, <3>2, <3>3
  <2> QED
    BY <1>2, <2>1 DEF SentInv, RunInv
<1> QED
  BY <1>5, <1>6, <1>7

\* The agent is at rest, or has a new task.
LEMMA RestSent ==
  ASSUME IInv, IInv', SentInv, Grows, UNCHANGED dead, scanned' \subseteq scanned,
         agent' = AtRest \/ agent'.step = "polled",
         \A f \in Files : /\ outbox'[f].held = outbox[f].held
                          /\ outbox'[f].task = outbox[f].task,
         \A f \in Files : outbox'[f].result =>
             \/ outbox[f].result
             \/ \A g \in Files \ doubtful : Covered(g, outbox[f].task)
  PROVE  (Registered /\ RunInv /\ LetterInv)'
<1>1. /\ agent'.step \in {"idle", "polled"}
      /\ agent'.step = "idle" => agent'.task = NoTask
  BY DEF AtRest
<1>2. Stays /\ \A f \in Files : outbox[f].task \in Owner
  BY LettersStay DEF IInv, BoxType, Item
<1>3. Registered'
  BY <1>1, RegisteredStays DEF SentInv
<1>4. RunInv'
  BY <1>1 DEF RunInv
<1>5. ASSUME NEW f \in Files, outbox'[f].result
      PROVE  \A g \in Files \ doubtful' : Covered(g, outbox[f].task)'
  <2>1. \A g \in Files \ doubtful : Covered(g, outbox[f].task)
    BY <1>5 DEF SentInv, LetterInv
  <2> QED
    BY <1>2, <2>1 DEF Stays, Grows, Covered, Got, Posted
<1>6. ASSUME NEW f \in Files, dead'[f].result
      PROVE  \A g \in Files \ doubtful' : Covered(g, dead[f].task)'
  <2>1. \A g \in Files \ doubtful : Covered(g, dead[f].task)
    BY <1>6 DEF SentInv, LetterInv
  <2>2. dead[f].task \in Owner /\ dead' = dead
    BY DEF IInv, BoxType, Item
  <2> QED
    BY <1>2, <2>1, <2>2 DEF Stays, Grows, Covered, Got, Posted
<1>7. LetterInv'
  BY <1>5, <1>6 DEF SentInv, LetterInv, Grows
<1> QED
  BY <1>3, <1>4, <1>7

LEMMA AcknowledgeSent ==
  ASSUME IInv, IInv', SentInv, Grows, Acknowledge
  PROVE  (Registered /\ RunInv /\ LetterInv)'
<1>1. /\ agent'.step = "scan" /\ agent'.task = agent.task /\ agent.task # NoTask
      /\ agent'.todo = IF agent.task \in Forced THEN Files ELSE Files \ scanned
      /\ UNCHANGED <<scanned, outbox, dead>>
  BY DEF Acknowledge, IInv, AgentType
<1>2. Stays
  BY <1>1, LettersStay
<1>3. Registered'
  BY <1>1, RegisteredStays DEF SentInv
<1>4. LetterInv'
  BY <1>1, <1>2, LettersKeep DEF SentInv
<1>5. \A f \in Files : f \in agent'.todo \/ Got(f)'
  BY <1>1 DEF SentInv, Registered, Grows
<1>6. RunInv'
  BY <1>1, <1>5 DEF RunInv, Covered
<1> QED
  BY <1>3, <1>4, <1>6

LEMMA ScanPathSent ==
  ASSUME IInv, IInv', SentInv, Grows, NEW f \in Files, ScanPath(f)
  PROVE  (Registered /\ RunInv /\ LetterInv)'
<1>1. /\ agent'.step = "scanning" /\ agent'.file = f /\ agent'.task = agent.task
      /\ agent'.todo = agent.todo \ {f} /\ agent'.failed = agent.failed
      /\ UNCHANGED <<scanned, outbox, dead>>
  BY DEF ScanPath, IInv, AgentType
<1>2. Stays /\ agent.task \in Owner
  BY <1>1, LettersStay DEF IInv, AgentType
<1>3. Registered'
  BY <1>1, RegisteredStays DEF SentInv
<1>4. LetterInv'
  BY <1>1, <1>2, LettersKeep DEF SentInv
<1>5. agent.step = "scan" \/ agent.task = NoTask
  BY DEF ScanPath, SentInv, RunInv
<1>6. RunInv'
  BY <1>1, <1>2, <1>5 DEF SentInv, RunInv, Stays, Grows, Covered, Posted
<1> QED
  BY <1>3, <1>4, <1>6

\* What is pruned is given up.
LEMMA EndScanSent ==
  ASSUME IInv, IInv', SentInv, Grows, EndScan
  PROVE  (Registered /\ RunInv /\ LetterInv)'
<1>1. /\ agent'.step = "drain" /\ agent'.task = agent.task
      /\ agent'.todo = {} /\ agent.todo = {} /\ agent'.failed = agent.failed
      /\ UNCHANGED scanned /\ agent.step = "scan"
  BY DEF EndScan, IInv, AgentType
<1>2. \/ UNCHANGED <<outbox, dead>>
      \/ \E old \in SUBSET Files :
            /\ outbox' = [f \in Files |-> IF f \in old THEN NoItem ELSE outbox[f]]
            /\ dead' = [f \in Files |-> IF f \in old THEN outbox[f] ELSE dead[f]]
            /\ doubtful' = doubtful \cup old
  BY DEF EndScan, Pruned
<1>3. ASSUME NEW f \in Files
      PROVE  /\ outbox'[f] = outbox[f] \/ (f \in doubtful' /\ ~outbox'[f].result)
             /\ dead'[f] = dead[f] \/ (f \in doubtful' /\ dead'[f] = outbox[f])
  BY <1>2 DEF NoItem
<1>4. Stays /\ agent.task \in Owner
  BY <1>3, LettersStay DEF IInv, AgentType
<1>5. Registered'
  BY <1>1, RegisteredStays DEF SentInv
<1>6. LetterInv'
  BY <1>3, <1>4, LettersKeep DEF SentInv
<1>7. RunInv'
  BY <1>1, <1>4 DEF SentInv, RunInv, Stays, Grows, Covered, Posted
<1> QED
  BY <1>5, <1>6, <1>7

LEMMA ReviveSent ==
  ASSUME IInv, IInv', SentInv, Grows, NEW f \in Files, Revive(f)
  PROVE  (Registered /\ RunInv /\ LetterInv)'
<1>1. UNCHANGED <<agent, scanned>> /\ ~NoItem.held /\ ~NoItem.result
  BY DEF Revive, NoItem
<1>2. ASSUME NEW g \in Files
      PROVE  /\ \/ outbox'[g] = outbox[g]
                \/ ~outbox[g].held /\ outbox'[g] = dead[g]
             /\ dead'[g] = dead[g] \/ dead'[g] = NoItem
  BY DEF Revive, IInv, BoxType
<1>3. Stays /\ agent.task \in Owner
  BY <1>2, LettersStay DEF IInv, AgentType
<1>4. Registered'
  BY <1>1, RegisteredStays DEF SentInv
<1>5. LetterInv'
  BY <1>1, <1>2, <1>3, LettersKeep DEF SentInv
<1>6. RunInv'
  BY <1>1, <1>3 DEF SentInv, RunInv, Stays, Grows, Covered, Posted
<1> QED
  BY <1>4, <1>5, <1>6

LEMMA DrainSent ==
  ASSUME IInv, IInv', SentInv, Grows, NEW f \in Files, Drain(f)
  PROVE  (Registered /\ RunInv /\ LetterInv)'
<1>1. /\ agent'.step = "draining" /\ agent'.task = agent.task
      /\ agent'.todo = agent.todo /\ agent'.failed = agent.failed
      /\ agent.step \in {"idle", "drain"} /\ UNCHANGED <<scanned, outbox, dead>>
  BY DEF Drain, IInv, AgentType
<1>2. Stays /\ agent.task \in Owner
  BY <1>1, LettersStay DEF IInv, AgentType
<1>3. Registered'
  BY <1>1, RegisteredStays DEF SentInv
<1>4. LetterInv'
  BY <1>1, <1>2, LettersKeep DEF SentInv
<1>5. RunInv'
  BY <1>1, <1>2 DEF SentInv, RunInv, Stays, Grows, Covered, Posted
<1> QED
  BY <1>3, <1>4, <1>5

\* A letter is taken from the outbox when the server has its file.
LEMMA DrainedSent ==
  ASSUME IInv, IInv', SentInv, Grows, Drained
  PROVE  (Registered /\ RunInv /\ LetterInv)'
<1> DEFINE f == agent.file
<1>1. /\ agent.step = "drained" /\ UNCHANGED dead /\ f \in Files /\ Got(f)
      /\ agent'.task = agent.task /\ agent'.todo = agent.todo
      /\ agent'.failed = agent.failed
      /\ agent'.step = IF agent.task = NoTask THEN "idle" ELSE "drain"
  BY DEF Drained, IInv, AgentType, Afterwards, SentInv, Registered
<1>2. \/ UNCHANGED <<outbox, scanned>>
      \/ outbox' = [outbox EXCEPT ![f] = NoItem] /\ scanned' = scanned \cup {f}
  BY DEF Drained
<1> HIDE DEF f
<1>3. ASSUME NEW g \in Files
      PROVE  outbox'[g] = outbox[g] \/ (Got(g) /\ ~outbox'[g].result)
  BY <1>1, <1>2 DEF IInv, BoxType, NoItem
<1>4. Stays /\ agent.task \in Owner
  BY <1>3, LettersStay DEF IInv, AgentType
<1>5. Registered'
  BY <1>1, <1>2 DEF SentInv, Registered, Grows, IInv, BoxType
<1>6. LetterInv'
  BY <1>1, <1>3, <1>4, LettersKeep DEF SentInv
<1>7. RunInv'
  BY <1>1, <1>4 DEF SentInv, RunInv, Stays, Grows, Covered, Posted
<1> QED
  BY <1>5, <1>6, <1>7

\* The result is attached to letters of a run that has covered every file.
LEMMA ReportSent ==
  ASSUME IInv, IInv', SentInv, Grows, Report
  PROVE  (Registered /\ RunInv /\ LetterInv)'
<1> DEFINE left == {f \in Files : outbox[f].held /\ outbox[f].task = agent.task}
<1>1. /\ agent.step = "drain" /\ agent.task # NoTask
      /\ agent' = AtRest /\ UNCHANGED <<scanned, dead>>
  BY DEF Report, IInv, AgentType
<1>2. \/ outbox' = outbox
      \/ /\ ~agent.failed
         /\ outbox' = [f \in Files |-> IF f \in left
                                       THEN [outbox[f] EXCEPT !.result = TRUE]
                                       ELSE outbox[f]]
  BY DEF Report
<1>3. ~agent.failed => \A g \in Files \ doubtful : Covered(g, agent.task)
  BY <1>1 DEF SentInv, RunInv
<1>4. ASSUME NEW f \in Files
      PROVE  /\ outbox'[f].held = outbox[f].held
             /\ outbox'[f].task = outbox[f].task
             /\ outbox'[f].result =>
                   \/ outbox[f].result
                   \/ \A g \in Files \ doubtful : Covered(g, outbox[f].task)
  <2>1. outbox[f] \in Item
    BY DEF IInv, BoxType
  <2>2. CASE outbox'[f] = outbox[f]
    BY <2>2
  <2>3. CASE f \in left /\ ~agent.failed /\ outbox'[f] = [outbox[f] EXCEPT !.result = TRUE]
    BY <1>3, <2>1, <2>3 DEF Item
  <2> QED
    BY <1>2, <2>2, <2>3
<1> QED
  BY <1>1, <1>4, RestSent

LEMMA AgentSent ==
  ASSUME IInv, IInv', SentInv, Grows, Agent
  PROVE  (Registered /\ RunInv /\ LetterInv)'
<1>1. CASE GiveUp
  BY <1>1, PutOffSent DEF GiveUp
<1>2. CASE AbortRun \/ AgentCrash
  BY <1>2, RestSent DEF AbortRun, AgentCrash
<1> QED
  BY <1>1, <1>2, AcknowledgeSent, EndScanSent, DrainedSent, ReportSent,
     ScanPathSent, DrainSent, ReviveSent DEF Agent

LEMMA ApiSent ==
  ASSUME IInv, IInv', SentInv, Grows, Api
  PROVE  (Registered /\ RunInv /\ LetterInv)'
<1>1. ASSUME NEW r \in requests, Refuse(r)
      PROVE  (Registered /\ RunInv /\ LetterInv)'
  <2>1. agent.step \in {"scanning", "draining"}
    BY <1>1 DEF Refuse, IInv, LiveInv
  <2> QED
    BY <1>1, <2>1, PutOffSent DEF Refuse
<1>2. ASSUME NEW r \in requests, Lookup(r) \/ Insert(r) \/ Reopen(r)
      PROVE  (Registered /\ RunInv /\ LetterInv)'
  <2>1. r \in Request /\ r.file \in Files /\ r.task \in Owner
    BY <1>2, TypedRequest DEF Lookup, Insert, Reopen, Request
  <2>2. job \in [Files -> Job] /\ Queued(r.file, r.task).status = "queued"
    BY <2>1 DEF IInv, ServerType, Queued, Job
  <2>3. \/ UNCHANGED client
        \/ \E new \in BOOLEAN : Answer(r, new) /\ UNCHANGED <<outbox, dead>>
    BY <1>2 DEF Lookup, Insert, Reopen, Dedupe, client
  <2>4. UNCHANGED client \/ Got(r.file)'
    BY <1>2, <2>1, <2>2 DEF Lookup, Insert, Reopen, client, Got
  <2> QED
    BY <2>1, <2>3, <2>4, AnswerSent, ClientStays
<1>3. ASSUME NEW t \in Tasks, NEW old, NEW stale, Poll(t, old, stale)
      PROVE  (Registered /\ RunInv /\ LetterInv)'
  <2>1. UNCHANGED agent \/ agent'.step = "polled"
    BY <1>3 DEF Poll, AtRest
  <2> QED
    BY <1>3, <2>1, ClientStays, RestSent DEF Poll, client
<1> QED
  BY <1>1, <1>2, <1>3, ClientStays DEF Api, Create, Maintain, LateReport,
     ApiRestart, StartupMaintenance, client

LEMMA WorkerSent ==
  ASSUME IInv, IInv', SentInv, Grows, Worker
  PROVE  (Registered /\ RunInv /\ LetterInv)'
<1>1. UNCHANGED client
  BY DEF Worker, WorkerCrash, WorkerStart, RequeueInterrupted, ReconcileSpool,
     RequeueStale, Claim, Thread, ReadPayload, Analyse, RefuseBare, Abandon,
     DeletePayload, client
<1> QED
  BY <1>1, ClientStays

\* What is said to be sent was sent, after every step; and no row is completed
\* before its jobs are done.
LEMMA NextSent ==
  ASSUME IInv, IInv', SentInv, [Next]_vars
  PROVE  SentInv' /\ Grows /\ AllHonest
<1>1. Grows
  BY JobsGrow
<1>2. AllHonest /\ \A m \in reports' : m \in reports \/ (TellsAll(m) => Received')
  <2>1. CASE Agent
    BY <1>1, <2>1, AgentHonest
  <2>2. CASE Api \/ Worker
    BY <1>1, <2>2, ServerHonest DEF SentInv
  <2>3. CASE UNCHANGED vars
    BY <2>3, SameRows DEF vars, server
  <2> QED
    BY <2>1, <2>2, <2>3 DEF Next
<1>3. (Registered /\ RunInv /\ LetterInv)'
  BY <1>1, AgentSent, ApiSent, WorkerSent, ClientStays DEF Next, vars, client
<1>4. RowsTrue'
  BY <1>1, <1>2, ReceivedStays DEF AllHonest, Honest, SentInv, RowsTrue
<1>5. ReportsTrue'
  BY <1>1, <1>2, ReceivedStays DEF SentInv, ReportsTrue
<1> QED
  BY <1>1, <1>2, <1>3, <1>4, <1>5 DEF SentInv

-----------------------------------------------------------------------------
(* The worker: outside doubt a thread at work has its job to itself, so that *)
(* no analysed job is touched again but by an event for a task still going on. *)

AloneInv ==
    /\ \A h \in Threads :
           AtWork(h) /\ thread[h].file \notin doubtful
               => job[thread[h].file].status = "processing"
    /\ \A h, g \in Threads :
           AtWork(h) /\ AtWork(g) /\ thread[h].file = thread[g].file
           /\ thread[h].file \notin doubtful => h = g
    /\ boot # "up" => \A h \in Threads : thread[h].step = "idle"

\* What a step does to a job that is not in doubt after it.
Steady(f) ==
    \/ /\ job'[f].task = job[f].task
       /\ job[f].status = "done" => job'[f].status = "done"
    \/ ~Got(f)
    \/ job'[f].task \notin Ended

\* Threads that go on, or stop: none takes a new job.
GoesOn(h) ==
    AtWork(h)' /\ thread'[h].file \notin doubtful' =>
        /\ AtWork(h) /\ thread'[h].file = thread[h].file
        /\ job'[thread[h].file].status = "processing"

LEMMA StillAlone ==
  ASSUME IInv, AloneInv, Grows, \A h \in Threads : GoesOn(h),
         boot' # "up" => \A h \in Threads : thread'[h].step = "idle"
  PROVE  AloneInv'
<1>1. ASSUME NEW h \in Threads, AtWork(h)', thread'[h].file \notin doubtful'
      PROVE  /\ AtWork(h) /\ thread'[h].file = thread[h].file
             /\ thread[h].file \notin doubtful
             /\ job'[thread'[h].file].status = "processing"
  BY <1>1 DEF GoesOn, Grows
<1>2. ASSUME NEW h \in Threads, NEW g \in Threads, AtWork(h)', AtWork(g)',
             thread'[h].file = thread'[g].file, thread'[h].file \notin doubtful'
      PROVE  h = g
  <2>1. thread'[g].file \notin doubtful'
    BY <1>2
  <2> QED
    BY <1>1, <1>2, <2>1 DEF AloneInv
<1> QED
  BY <1>1, <1>2 DEF AloneInv

AllSteady == \A f \in Files \ doubtful' : Steady(f)

\* Jobs, threads and the worker process stay as they are.
LEMMA NobodyWorks ==
  ASSUME IInv, AloneInv, Grows, UNCHANGED <<job, thread, boot>>
  PROVE  AloneInv' /\ AllSteady
<1>1. \A h \in Threads : GoesOn(h)
  BY DEF AloneInv, GoesOn, AtWork, Grows
<1>2. AllSteady
  BY DEF AllSteady, Steady
<1> QED
  BY <1>1, <1>2, StillAlone DEF AloneInv

\* An event makes, or reopens, the job of its file: nobody works on it.
LEMMA QueuedAlone ==
  ASSUME IInv, AloneInv, Grows, NEW f \in Files, NEW u \in Owner,
         UNCHANGED <<thread, boot>>, job' = [job EXCEPT ![f] = Queued(f, u)],
         \/ ~Got(f)
         \/ f \notin doubtful' => job[f].status = "incomplete" /\ u \notin Ended
  PROVE  AloneInv' /\ AllSteady
<1>1. job \in [Files -> Job] /\ Queued(f, u).task = u
  BY DEF IInv, ServerType, Queued, Job
<1>2. ASSUME NEW h \in Threads
      PROVE  GoesOn(h)
  <2> SUFFICES ASSUME AtWork(h), thread[h].file \notin doubtful'
               PROVE  job'[thread[h].file].status = "processing"
    BY DEF GoesOn, AtWork
  <2>1. job[thread[h].file].status = "processing" /\ thread[h].file \in Files
    BY WorkFile DEF AloneInv, AtWork, Grows
  <2>2. thread[h].file # f
    BY <2>1 DEF Got
  <2> QED
    BY <1>1, <2>1, <2>2
<1>3. AllSteady
  BY <1>1 DEF AllSteady, Steady
<1> QED
  BY <1>2, <1>3, StillAlone DEF AloneInv

\* The jobs of some files change that nobody can have analysed, and on which
\* nobody works unless they are in doubt now.
LEMMA UndoneAlone ==
  ASSUME IInv, AloneInv, Grows, UNCHANGED thread, boot' \in {boot, "up"},
         \A f \in Files : \/ job'[f] = job[f]
                          \/ /\ job'[f].task = job[f].task
                             /\ job[f].status # "done"
                             /\ f \in doubtful' \/ f \notin WorkedOn
                                \/ job[f].status = "queued"
  PROVE  AloneInv' /\ AllSteady
<1>1. ASSUME NEW h \in Threads
      PROVE  GoesOn(h)
  <2> SUFFICES ASSUME AtWork(h), thread[h].file \notin doubtful'
               PROVE  job'[thread[h].file].status = "processing"
    BY DEF GoesOn, AtWork
  <2>1. job[thread[h].file].status = "processing" /\ thread[h].file \in Files
    BY WorkFile DEF AloneInv, AtWork, Grows
  <2> QED
    BY <2>1 DEF WorkedOn
<1>2. AllSteady
  BY DEF AllSteady, Steady
<1>3. boot' # "up" => \A h \in Threads : thread'[h].step = "idle"
  BY DEF AloneInv
<1> QED
  BY <1>1, <1>2, <1>3, StillAlone

LEMMA CleanSpoolAlone ==
  ASSUME IInv, AloneInv, Grows, NEW left, NEW lapsed \in SUBSET Processing,
         CleanSpool(left, lapsed), UNCHANGED thread, boot' \in {boot, "up"},
         lapsed \cap WorkedOn \subseteq doubtful'
  PROVE  AloneInv' /\ AllSteady
<1>1. job \in [Files -> Job]
  BY DEF IInv, ServerType
<1>2. ASSUME NEW f \in Files
      PROVE  \/ job'[f] = job[f]
             \/ /\ job'[f].task = job[f].task
                /\ job[f].status = "queued" \/ f \in lapsed
  BY <1>1 DEF CleanSpool, Job
<1>3. \A f \in lapsed : job[f].status = "processing"
  BY DEF Processing
<1>4. \A f \in Files : \/ job'[f] = job[f]
                       \/ /\ job'[f].task = job[f].task
                          /\ job[f].status # "done"
                          /\ f \in doubtful' \/ f \notin WorkedOn
                             \/ job[f].status = "queued"
  BY <1>2, <1>3
<1> QED
  BY <1>4, UndoneAlone

LEMMA ApiAlone ==
  ASSUME IInv, AloneInv, Grows, Api
  PROVE  AloneInv' /\ AllSteady
<1>1. ASSUME NEW r \in requests, Insert(r)
      PROVE  AloneInv' /\ AllSteady
  <2>1. r.file \in Files /\ r.task \in Owner
    BY <1>1, TypedRequest DEF Insert, Request
  <2>2. CASE ~Got(r.file)
    <3>1. job' = [job EXCEPT ![r.file] = Queued(r.file, r.task)]
      BY <1>1, <2>2 DEF Insert, Got
    <3> QED
      BY <1>1, <2>1, <2>2, <3>1, QueuedAlone DEF Insert, worker
  <2>3. CASE Got(r.file)
    BY <1>1, <2>3, NobodyWorks DEF Insert, Got, worker
  <2> QED
    BY <2>2, <2>3
<1>2. ASSUME NEW r \in requests, Reopen(r)
      PROVE  AloneInv' /\ AllSteady
  <2>1. r.file \in Files /\ r.task \in Owner
    BY <1>2, TypedRequest DEF Reopen, Request
  <2>2. r.file \notin doubtful' => /\ job[r.file].status = "incomplete"
                                   /\ r.task \notin Ended
    BY <1>2 DEF Reopen, Reopens
  <2> QED
    BY <1>2, <2>1, <2>2, QueuedAlone DEF Reopen, worker
<1>3. CASE StartupMaintenance
  <2>1. PICK lapsed \in SUBSET (Processing \ spool) :
            /\ CleanSpool(requests \ {Startup}, lapsed)
            /\ lapsed \cap WorkedOn \subseteq doubtful'
    BY <1>3 DEF StartupMaintenance
  <2> QED
    BY <1>3, <2>1, CleanSpoolAlone DEF StartupMaintenance, worker
<1>4. CASE UNCHANGED <<job, thread, boot>>
  BY <1>4, NobodyWorks
<1> QED
  BY <1>1, <1>2, <1>3, <1>4 DEF Api, Create, Maintain, Poll, LateReport, Refuse,
     Lookup, ApiRestart, server, worker

LEMMA ClaimAlone ==
  ASSUME IInv, AloneInv, Grows, NEW h \in Threads, NEW f \in Files, Claim(h, f)
  PROVE  AloneInv' /\ AllSteady
<1>1. job \in [Files -> Job] /\ job[f].status = "queued"
      /\ boot = "up" /\ boot' = "up" /\ doubtful' = doubtful
  BY DEF Claim, IInv, ServerType
<1>2. /\ job'[f].status = "processing" /\ job'[f].task = job[f].task
      /\ \A g \in Files \ {f} : job'[g] = job[g]
  BY <1>1 DEF Claim, Job
<1>3. AllSteady
  BY <1>1, <1>2 DEF AllSteady, Steady
<1>4. ASSUME NEW g \in Threads, AtWork(g)', thread'[g].file \notin doubtful
      PROVE  \/ g = h /\ thread'[g].file = f
             \/ /\ g # h /\ thread'[g] = thread[g] /\ AtWork(g)
                /\ thread[g].file \in Files \ {f}
  <2>1. CASE g = h
    BY <2>1 DEF Claim, IInv, ThreadType
  <2>2. CASE g # h
    <3>1. thread'[g] = thread[g] /\ AtWork(g)
      BY <1>4, <2>2 DEF Claim, IInv, ThreadType, AtWork
    <3>2. thread[g].file \in Files
      BY <3>1, WorkFile DEF AtWork
    <3>3. job[thread[g].file].status = "processing"
      BY <1>4, <3>1 DEF AloneInv
    <3> QED
      BY <1>1, <2>2, <3>1, <3>2, <3>3
  <2> QED
    BY <2>1, <2>2
<1>5. ASSUME NEW g \in Threads, AtWork(g)', thread'[g].file \notin doubtful'
      PROVE  job'[thread'[g].file].status = "processing"
  BY <1>1, <1>2, <1>4, <1>5 DEF AloneInv
<1>6. ASSUME NEW g \in Threads, NEW k \in Threads, AtWork(g)', AtWork(k)',
             thread'[g].file = thread'[k].file, thread'[g].file \notin doubtful'
      PROVE  g = k
  <2>1. thread'[g].file \notin doubtful /\ thread'[k].file \notin doubtful
    BY <1>1, <1>6
  <2>2. \/ g = h /\ k = h
        \/ g # h /\ k # h /\ thread'[g] = thread[g] /\ thread'[k] = thread[k]
           /\ AtWork(g) /\ AtWork(k)
    BY <1>4, <1>6, <2>1
  <2> QED
    BY <1>6, <2>1, <2>2 DEF AloneInv
<1>7. AloneInv'
  BY <1>1, <1>5, <1>6 DEF AloneInv
<1> QED
  BY <1>3, <1>7

\* A thread records its outcome or lets its job go.
LEMMA StoppedAlone ==
  ASSUME IInv, AloneInv, Grows, NEW h \in Threads, AtWork(h),
         UNCHANGED boot, ~AtWork(h)', \A g \in Threads \ {h} : thread'[g] = thread[g],
         \A g \in Files : /\ job'[g].task = job[g].task
                          /\ g = thread[h].file \/ job'[g] = job[g]
  PROVE  AloneInv' /\ AllSteady
<1>1. ASSUME NEW g \in Threads
      PROVE  GoesOn(g)
  <2> SUFFICES ASSUME g # h, AtWork(g), thread[g].file \notin doubtful'
               PROVE  job'[thread[g].file].status = "processing"
    BY DEF GoesOn, AtWork
  <2>1. thread[g].file # thread[h].file
    BY DEF AloneInv, Grows
  <2>2. thread[g].file \in Files /\ job[thread[g].file].status = "processing"
    BY WorkFile DEF AloneInv, AtWork, Grows
  <2> QED
    BY <2>1, <2>2
<1>2. ASSUME NEW f \in Files \ doubtful'
      PROVE  Steady(f)
  <2>1. f = thread[h].file => job[f].status = "processing"
    BY <1>2 DEF AloneInv, Grows
  <2> QED
    BY <2>1 DEF Steady
<1>3. boot' = "up"
  BY DEF AloneInv, AtWork
<1> QED
  BY <1>1, <1>2, <1>3, StillAlone DEF AllSteady

LEMMA FinalizeAlone ==
  ASSUME IInv, AloneInv, Grows, NEW h \in Threads, AtWork(h), UNCHANGED boot,
         NEW status, NEW missing, Finalize(h, status, missing)
  PROVE  AloneInv' /\ AllSteady
<1>1. job \in [Files -> Job] /\ thread[h].file \in Files
  BY WorkFile DEF IInv, ServerType, AtWork
<1>2. ~AtWork(h)' /\ \A g \in Threads \ {h} : thread'[g] = thread[g]
  BY DEF Finalize, AtWork, IInv, ThreadType
<1>3. \A g \in Files : /\ job'[g].task = job[g].task
                       /\ g = thread[h].file \/ job'[g] = job[g]
  BY <1>1 DEF Finalize, Job
<1> QED
  BY <1>2, <1>3, StoppedAlone

LEMMA WorkerAlone ==
  ASSUME IInv, AloneInv, Grows, Worker
  PROVE  AloneInv' /\ AllSteady
<1>0. job \in [Files -> Job]
  BY DEF IInv, ServerType
<1>1. CASE WorkerCrash
  <2>1. \A h \in Threads : GoesOn(h) /\ thread'[h].step = "idle"
    BY <1>1 DEF WorkerCrash, GoesOn, AtWork, Free
  <2>2. AllSteady
    BY <1>1 DEF WorkerCrash, server, AllSteady, Steady
  <2> QED
    BY <2>1, <2>2, StillAlone
<1>2. CASE WorkerStart
  <2>1. \A h \in Threads : thread'[h].step = "idle"
    BY <1>2 DEF WorkerStart, AloneInv
  <2>2. \A h \in Threads : GoesOn(h)
    BY <2>1 DEF GoesOn, AtWork
  <2>3. AllSteady
    BY <1>2 DEF WorkerStart, AllSteady, Steady
  <2> QED
    BY <2>1, <2>2, <2>3, StillAlone
<1>3. CASE RequeueInterrupted
  <2>1. \A h \in Threads : thread'[h].step = "idle"
    BY <1>3 DEF RequeueInterrupted, AloneInv
  <2>2. \A h \in Threads : GoesOn(h)
    BY <2>1 DEF GoesOn, AtWork
  <2>3. ASSUME NEW f \in Files
        PROVE  \/ job'[f] = job[f]
               \/ job'[f].task = job[f].task /\ job[f].status = "processing"
    BY <1>0, <1>3 DEF RequeueInterrupted, Processing, Job
  <2>4. AllSteady
    BY <2>3 DEF AllSteady, Steady
  <2> QED
    BY <2>1, <2>2, <2>4, StillAlone
<1>4. CASE ReconcileSpool
  BY <1>4, CleanSpoolAlone DEF ReconcileSpool
<1>5. ASSUME NEW f \in Files, RequeueStale(f)
      PROVE  AloneInv' /\ AllSteady
  <2>1. \A g \in Files : \/ job'[g] = job[g]
                         \/ /\ job'[g].task = job[g].task
                            /\ job[g].status # "done"
                            /\ g \in doubtful' \/ g \notin WorkedOn
                               \/ job[g].status = "queued"
    BY <1>0, <1>5 DEF RequeueStale, Processing, Job
  <2> QED
    BY <1>5, <2>1, UndoneAlone DEF RequeueStale, worker
<1>6. ASSUME NEW h \in Threads, ReadPayload(h)
      PROVE  AloneInv' /\ AllSteady
  <2>1. \A g \in Threads : /\ AtWork(g)' => AtWork(g)
                           /\ thread'[g].file = thread[g].file
                           /\ thread[g].step = "idle" => thread'[g].step = "idle"
    BY <1>6 DEF ReadPayload, AtWork, IInv, ThreadType
  <2>2. UNCHANGED <<job, boot>>
    BY <1>6 DEF ReadPayload, server
  <2>3. \A g \in Threads : GoesOn(g)
    BY <2>1, <2>2 DEF GoesOn, AloneInv, Grows
  <2>4. AllSteady
    BY <2>2 DEF AllSteady, Steady
  <2> QED
    BY <2>1, <2>2, <2>3, <2>4, StillAlone DEF AloneInv
<1>7. ASSUME NEW h \in Threads, Analyse(h)
      PROVE  AloneInv' /\ AllSteady
  <2>1. AtWork(h) /\ UNCHANGED boot /\ thread[h].file \in Files
    BY <1>7, WorkFile DEF Analyse, AtWork
  <2>2. CASE \E status \in {"done", "incomplete"} : Finalize(h, status, FALSE)
    BY <2>1, <2>2, FinalizeAlone
  <2>3. CASE /\ job' = [job EXCEPT ![thread[h].file].status = "queued",
                                   ![thread[h].file].missing = FALSE]
             /\ thread' = [thread EXCEPT ![h] = Free]
    <3>1. \A g \in Files : /\ job'[g].task = job[g].task
                           /\ g = thread[h].file \/ job'[g] = job[g]
      BY <1>0, <2>1, <2>3 DEF Job
    <3>2. ~AtWork(h)' /\ \A g \in Threads \ {h} : thread'[g] = thread[g]
      BY <2>3 DEF AtWork, Free, IInv, ThreadType
    <3> QED
      BY <2>1, <3>1, <3>2, StoppedAlone
  <2> QED
    BY <1>7, <2>2, <2>3 DEF Analyse
<1>8. ASSUME NEW h \in Threads, RefuseBare(h)
      PROVE  AloneInv' /\ AllSteady
  BY <1>8, FinalizeAlone DEF RefuseBare, AtWork
<1>9. ASSUME NEW h \in Threads, Abandon(h) \/ DeletePayload(h)
      PROVE  AloneInv' /\ AllSteady
  <2>1. thread' = [thread EXCEPT ![h] = Free] /\ UNCHANGED <<job, boot>>
    BY <1>9 DEF Abandon, DeletePayload, server
  <2>2. \A g \in Threads : /\ AtWork(g)' => AtWork(g) /\ thread'[g] = thread[g]
                           /\ thread[g].step = "idle" => thread'[g].step = "idle"
    BY <2>1 DEF AtWork, Free, IInv, ThreadType
  <2>3. \A g \in Threads : GoesOn(g)
    BY <2>1, <2>2 DEF GoesOn, AloneInv, Grows
  <2>4. AllSteady
    BY <2>1 DEF AllSteady, Steady
  <2> QED
    BY <2>1, <2>2, <2>3, <2>4, StillAlone DEF AloneInv
<1>10. ASSUME NEW h \in Threads, NEW f \in Files, Claim(h, f)
       PROVE  AloneInv' /\ AllSteady
  BY <1>10, ClaimAlone
<1> QED
  BY <1>1, <1>2, <1>3, <1>4, <1>5, <1>6, <1>7, <1>8, <1>9, <1>10
  DEF Worker, Thread

LEMMA NextAlone ==
  ASSUME IInv, AloneInv, Grows, [Next]_vars
  PROVE  AloneInv' /\ AllSteady
<1>1. CASE Agent \/ UNCHANGED vars
  <2>1. UNCHANGED <<job, thread, boot>>
    BY <1>1 DEF Agent, Acknowledge, GiveUp, EndScan, Drained, Report, AbortRun,
       AgentCrash, ScanPath, Drain, Revive, vars, server, worker
  <2> QED
    BY <2>1, NobodyWorks
<1> QED
  BY <1>1, ApiAlone, WorkerAlone DEF Next

-----------------------------------------------------------------------------
(* The theorem.                                                              *)

\* The jobs of a completed task are analysed and stay so.
AnalysedInv ==
    \A t \in Tasks : task[t].status = "completed" =>
        \A f \in Files \ doubtful : job[f].task = t => job[f].status = "done"

CInv == SentInv /\ AloneInv /\ AnalysedInv

LEMMA NextAnalysed ==
  ASSUME IInv, SentInv, AnalysedInv, Grows, AllHonest, AllSteady
  PROVE  AnalysedInv'
<1> SUFFICES ASSUME NEW t \in Tasks, task'[t].status = "completed",
                    NEW f \in Files \ doubtful', job'[f].task = t
             PROVE  job'[f].status = "done"
  BY DEF AnalysedInv
<1>1. CASE AllDone(t, job')
  BY <1>1 DEF AllDone, Linked
<1>2. CASE task[t].status = "completed"
  <2>1. t \in Ended /\ f \notin doubtful /\ Got(f)
    BY <1>2 DEF Ended, Final, Grows, SentInv, RowsTrue, TellsAll, Received
  <2>2. job'[f].task = job[f].task /\ (job[f].status = "done" => job'[f].status = "done")
    BY <2>1 DEF AllSteady, Steady
  <2> QED
    BY <1>2, <2>1, <2>2 DEF AnalysedInv
<1> QED
  BY <1>1, <1>2 DEF AllHonest, Honest

LEMMA CompletionInvariant == Spec => [](IInv /\ CInv)
<1>1. ASSUME Init
      PROVE  IInv /\ CInv
  <2>1. SentInv
    BY <1>1 DEF Init, AtRest, NoItem, SentInv, Registered, RunInv, LetterInv,
       RowsTrue, ReportsTrue, TellsAll
  <2>2. AloneInv
    BY <1>1 DEF Init, Free, AloneInv, AtWork
  <2>3. AnalysedInv
    BY <1>1 DEF Init, AnalysedInv
  <2> QED
    BY <1>1, <2>1, <2>2, <2>3, InitIInv DEF CInv
<1>2. IInv /\ CInv /\ [Next]_vars => (IInv /\ CInv)'
  <2> SUFFICES ASSUME IInv, CInv, [Next]_vars PROVE (IInv /\ CInv)'
    OBVIOUS
  <2>1. IInv'
    BY NextIInv
  <2>2. SentInv' /\ Grows /\ AllHonest
    BY <2>1, NextSent DEF CInv
  <2>3. AloneInv' /\ AllSteady
    BY <2>2, NextAlone DEF CInv
  <2>4. AnalysedInv'
    BY <2>2, <2>3, NextAnalysed DEF CInv
  <2> QED
    BY <2>1, <2>2, <2>3, <2>4 DEF CInv
<1> QED
  BY <1>1, <1>2, PTL DEF Spec

\* A completed task leaves nothing out: outside doubt every file of the agent has
\* a job, and the jobs of the task are analysed, whatever requests, answers and
\* reports are lost, repeated or late and whichever process is restarted.
THEOREM NothingLeftOut == Spec => []CompletedIsComplete
<1>1. CInv => CompletedIsComplete
  BY DEF CInv, SentInv, RowsTrue, TellsAll, Received, Got, AnalysedInv,
         CompletedIsComplete
<1> QED
  BY <1>1, CompletionInvariant, PTL

\* The agent's word is true: a report on its way, or a task that recorded one,
\* says that everything was sent only when every file outside doubt has a job,
\* however long a report was late and whatever letter carried it.
THEOREM ReportsAreTrue == Spec => [](RowsTrue /\ ReportsTrue)
<1>1. CInv => RowsTrue /\ ReportsTrue
  BY DEF CInv, SentInv
<1> QED
  BY <1>1, CompletionInvariant, PTL

\* What the agent registers as scanned, and so leaves out of later runs, is what
\* the server has: a lost answer or a crash may make it send a file again, but
\* never forget one.
THEOREM RegisteredIsReceived == Spec => []Registered
<1>1. CInv => Registered
  BY DEF CInv, SentInv
<1> QED
  BY <1>1, CompletionInvariant, PTL

\* Outside doubt a job is analysed by one thread at a time, and stays in progress
\* until this thread has recorded its outcome; no thread outlives a restart.
THEOREM OneThreadPerJob == Spec => []AloneInv
<1>1. CInv => AloneInv
  BY DEF CInv
<1> QED
  BY <1>1, CompletionInvariant, PTL

-----------------------------------------------------------------------------
(* One scan at a time.  create_task looks at the tasks of the agent once; that *)
(* none comes back later is a matter of what still names them: the agent, its *)
(* letters, requests, jobs and late reports.                                  *)

OneActive == \A t, u \in Tasks :
                task[t].status \in Active /\ task[u].status \in Active => t = u

Started == {t \in Tasks : task[t].status # "none"} \cup {NoTask}

NamedInv ==
    /\ agent.task \in Started
    /\ \A f \in Files : {job[f].task, outbox[f].task, dead[f].task} \subseteq Started
    /\ \A r \in requests : r.task \in Started
    /\ \A m \in reports : m.task \in Started

\* A task that was created stays, and none becomes active again.
AllGoOn == \A t \in Tasks :
              /\ task[t].status # "none" => task'[t].status # "none"
              /\ task'[t].status \in Active => task[t].status \in Active

LEMMA ReconciledGoesOn ==
  ASSUME NEW row, NEW t, NEW jobs
  PROVE  \/ Reconciled(row, t, jobs) = row
         \/ /\ row.status \in Active
            /\ Reconciled(row, t, jobs).status \in Final
  BY DEF Reconciled, Told, Active, Final

LEMMA MayReconcileGoesOn ==
  ASSUME NEW ts, MayReconcile(ts)
  PROVE  AllGoOn
<1>1. PICK some \in SUBSET ts : Reconcile(some)
  BY DEF MayReconcile
<1>2. ASSUME NEW t \in Tasks
      PROVE  task'[t] = task[t] \/ task'[t] = Reconciled(task[t], t, job')
  BY <1>1 DEF Reconcile
<1> QED
  BY <1>2, ReconciledGoesOn DEF AllGoOn, Active, Final

LEMMA AppliedGoesOn ==
  ASSUME task \in [Tasks -> Row], NEW m \in Message, m.task \in Started,
         task' = Applied(m)
  PROVE  AllGoOn
<1> DEFINE stored == IF m.status = "completed" THEN "acknowledged" ELSE m.status
           row == [status |-> stored, phase |-> m.phase]
<1>1. CASE task[m.task].status \in Final
  BY <1>1 DEF Applied, AllGoOn
<1>2. CASE task[m.task].status \notin Final
  <2>1. m.task \in Tasks /\ task[m.task].status \in Active
    BY <1>2, ScanAssumption DEF Message, Started, Row
  <2>2. row.status \in {"acknowledged", "failed"}
    BY DEF Message
  <2>3. task' = [task EXCEPT ![m.task] = Reconciled(row, m.task, job)]
    BY <1>2 DEF Applied
  <2> HIDE DEF row
  <2>4. Reconciled(row, m.task, job).status # "none"
    BY <2>2, ReconciledGoesOn DEF Final
  <2> QED
    BY <2>1, <2>3, <2>4 DEF AllGoOn
<1> QED
  BY <1>1, <1>2

LEMMA OpenStoreGoesOn ==
  ASSUME task \in [Tasks -> Row], OpenStore
  PROVE  AllGoOn
<1>1. ASSUME NEW t \in Tasks
      PROVE  \/ task[t].status = "delivered" /\ task'[t].status = "queued"
             \/ task[t].status = "acknowledged" /\ task'[t].status = "failed"
             \/ task'[t] = Reconciled(task[t], t, job)
  <2>1. task[t] \in Row
    OBVIOUS
  <2> QED
    BY <2>1 DEF OpenStore, Row
<1> QED
  BY <1>1, ReconciledGoesOn DEF AllGoOn, Active, Final

LEMMA MaintainedGoesOn ==
  ASSUME task \in [Tasks -> Row], NEW old, NEW stale, NEW t \in Tasks
  PROVE  \/ Maintained(old, stale)[t] = task[t]
         \/ /\ task[t].status \in Active
            /\ Maintained(old, stale)[t].status \in {"expired", "queued"}
<1>1. task[t] \in Row
  OBVIOUS
<1> QED
  BY <1>1 DEF Maintained, Row, Active

LEMMA PollGoesOn ==
  ASSUME task \in [Tasks -> Row], NEW t \in Tasks, NEW old, NEW stale,
         Poll(t, old, stale)
  PROVE  AllGoOn /\ task'[t].status = "delivered"
<1> DEFINE rows == Maintained(old, stale)
<1>1. rows \in [Tasks -> Row] /\ rows[t].status = "queued"
      /\ task' = [rows EXCEPT ![t].status = "delivered"]
  BY MaintainedKeeps DEF Poll
<1>2. \A u \in Tasks : \/ rows[u] = task[u]
                       \/ /\ task[u].status \in Active
                          /\ rows[u].status \in {"expired", "queued"}
  BY MaintainedGoesOn
<1> HIDE DEF rows
<1>3. \A u \in Tasks : task'[u] = rows[u] \/ (u = t /\ task'[u].status = "delivered")
  BY <1>1 DEF Row
<1>4. task'[t].status = "delivered" /\ task[t].status \in Active
  BY <1>1, <1>2 DEF Row, Active
<1> QED
  BY <1>2, <1>3, <1>4 DEF AllGoOn, Active

\* What the agent sends names a task that was created.
LEMMA SentGoesOn ==
  ASSUME IInv, NamedInv, NEW m \in Message, m.task \in Started,
         \/ Send(m)
         \/ task' = Applied(m) /\ UNCHANGED reports
         \/ UNCHANGED task /\ reports' = reports \cup {m}
  PROVE  AllGoOn /\ reports' \subseteq reports \cup {m}
<1>1. \/ task' = Applied(m) /\ UNCHANGED reports
      \/ UNCHANGED task /\ reports' = reports \cup {m}
  BY DEF Send
<1> QED
  BY <1>1, AppliedGoesOn DEF IInv, ServerType, AllGoOn

LEMMA StartedStays == AllGoOn => Started \subseteq Started'
  BY DEF AllGoOn, Started

\* A task is created when the agent has none, and no other step moves it back.
Created == \E t \in Tasks : Create(t)

LEMMA AgentNames ==
  ASSUME IInv, NamedInv, Agent
  PROVE  AllGoOn /\ \A m \in reports' : m.task \in Started
<1>1. ASSUME NEW m \in Message, m.task \in Started,
             \/ Send(m)
             \/ task' = Applied(m) /\ UNCHANGED reports
             \/ UNCHANGED task /\ reports' = reports \cup {m}
      PROVE  AllGoOn /\ \A n \in reports' : n.task \in Started
  BY <1>1, SentGoesOn DEF NamedInv
<1>2. CASE Acknowledge
  <2> DEFINE m == [task |-> agent.task, status |-> "acknowledged",
                   phase |-> "local_scan"]
  <2>1. m \in Message /\ Send(m) /\ m.task \in Started
    BY <1>2 DEF Acknowledge, IInv, AgentType, Owner, Message, Phases, NamedInv
  <2> HIDE DEF m
  <2> QED
    BY <1>1, <2>1
<1>3. CASE AbortRun
  <2> DEFINE m == [task |-> agent.task, status |-> "failed", phase |-> "failed"]
  <2>1. m \in Message /\ m.task \in Started
    BY <1>3 DEF AbortRun, IInv, AgentType, Owner, Message, Phases, NamedInv
  <2>2. \/ task' = Applied(m) /\ UNCHANGED reports
        \/ UNCHANGED task /\ reports' = reports \cup {m}
    BY <1>3 DEF AbortRun
  <2> HIDE DEF m
  <2> QED
    BY <1>1, <2>1, <2>2
<1>4. CASE Report
  <2> DEFINE t == agent.task
             left == {f \in Files : outbox[f].held /\ outbox[f].task = t}
             phase == IF agent.failed THEN "failed"
                      ELSE IF left # {} THEN "agent_outbox"
                      ELSE IF agent.queued THEN "server_processing"
                      ELSE "completed"
             status == IF phase \in {"failed", "completed"} THEN phase
                       ELSE "acknowledged"
             m == [task |-> t, status |-> status, phase |-> phase]
  <2>1. t \in Tasks /\ t \in Started
    BY <1>4 DEF Report, IInv, AgentType, Owner, NamedInv
  <2>2. m \in Message /\ Send(m) /\ m.task \in Started
    BY <1>4, <2>1 DEF Report, Message, Phases
  <2> HIDE DEF m
  <2> QED
    BY <1>1, <2>2
<1>5. CASE Drained
  <2> DEFINE f == agent.file
             t == outbox[f].task
             m == [task |-> t, status |-> "acknowledged",
                   phase |-> "server_processing"]
  <2>1. f \in Files /\ t \in Owner /\ t \in Started
    BY <1>5 DEF Drained, IInv, AgentType, BoxType, Item, NamedInv
  <2>2. \/ UNCHANGED <<task, reports>>
        \/ /\ t # NoTask
           /\ \/ task' = Applied(m) /\ UNCHANGED reports
              \/ UNCHANGED task /\ reports' = reports \cup {m}
    BY <1>5 DEF Drained
  <2>3. CASE UNCHANGED <<task, reports>>
    BY <2>3 DEF AllGoOn, NamedInv
  <2>4. CASE /\ t # NoTask
             /\ \/ task' = Applied(m) /\ UNCHANGED reports
                \/ UNCHANGED task /\ reports' = reports \cup {m}
    <3>1. m \in Message /\ m.task \in Started
      BY <2>1, <2>4 DEF Message, Owner, Phases
    <3> HIDE DEF m
    <3> QED
      BY <1>1, <2>4, <3>1
  <2> QED
    BY <2>2, <2>3, <2>4
<1>6. CASE UNCHANGED <<task, reports>>
  BY <1>6 DEF AllGoOn, NamedInv
<1> QED
  BY <1>2, <1>3, <1>4, <1>5, <1>6
  DEF Agent, GiveUp, EndScan, AgentCrash, ScanPath, Drain, Revive, server

LEMMA ServerGoesOn ==
  ASSUME IInv, NamedInv, Api \/ Worker
  PROVE  (AllGoOn \/ Created) /\ reports' \subseteq reports
<1>0. task \in [Tasks -> Row]
  BY DEF IInv, ServerType
<1>1. reports' \subseteq reports
  BY DEF Api, Worker, Create, Maintain, Poll, LateReport, Refuse, Lookup, Insert,
     Reopen, ApiRestart, StartupMaintenance, WorkerCrash, WorkerStart,
     RequeueInterrupted, ReconcileSpool, RequeueStale, Claim, Thread,
     ReadPayload, Analyse, RefuseBare, Abandon, DeletePayload
<1> SUFFICES AllGoOn \/ Created
  BY <1>1
<1>2. ASSUME NEW m \in reports, LateReport(m)
      PROVE  AllGoOn
  <2>1. m \in Message /\ m.task \in Started
    BY DEF IInv, MessageType, NamedInv
  <2> QED
    BY <1>0, <1>2, <2>1, AppliedGoesOn DEF LateReport
<1>3. CASE UNCHANGED task
  BY <1>3 DEF AllGoOn
<1>4. CASE \E ts : MayReconcile(ts)
  BY <1>4, MayReconcileGoesOn
<1>5. ASSUME NEW r \in requests, Refuse(r) \/ Lookup(r) \/ Insert(r) \/ Reopen(r)
      PROVE  AllGoOn
  <2>1. UNCHANGED task \/ \E ts : MayReconcile(ts)
    BY <1>5 DEF Refuse, Lookup, Insert, Reopen, Dedupe, server
  <2> QED
    BY <1>3, <1>4, <2>1, MayReconcileGoesOn DEF AllGoOn
<1>6. CASE ApiRestart \/ WorkerStart
  BY <1>0, <1>6, OpenStoreGoesOn DEF ApiRestart, WorkerStart
<1>7. CASE Api
  <2>1. ASSUME NEW t \in Tasks, NEW old, NEW stale, Poll(t, old, stale)
        PROVE  AllGoOn
    BY <1>0, <2>1, PollGoesOn
  <2>2. ASSUME NEW old, NEW stale, Maintain(old, stale)
        PROVE  AllGoOn
    BY <1>0, <2>2, MaintainedGoesOn DEF Maintain, AllGoOn, Active
  <2>3. CASE StartupMaintenance
    <3>1. \E ts : MayReconcile(ts)
      BY <2>3 DEF StartupMaintenance, CleanSpool
    <3> QED
      BY <1>4, <3>1
  <2> QED
    BY <1>2, <1>5, <1>6, <1>7, <2>1, <2>2, <2>3 DEF Api, Created
<1>8. ASSUME NEW h \in Threads, Analyse(h) \/ RefuseBare(h)
      PROVE  AllGoOn
  <2>1. \E ts : Reconcile(ts) \/ MayReconcile(ts)
    BY <1>8 DEF Analyse, RefuseBare, Finalize
  <2>2. \E ts : MayReconcile(ts)
    BY <2>1 DEF MayReconcile
  <2> QED
    BY <2>2, MayReconcileGoesOn
<1>9. CASE Worker
  <2>1. CASE RequeueInterrupted \/ ReconcileSpool \/ \E f \in Files : RequeueStale(f)
    <3>1. \E ts : MayReconcile(ts)
      BY <2>1 DEF RequeueInterrupted, ReconcileSpool, CleanSpool, RequeueStale
    <3> QED
      BY <1>4, <3>1
  <2> QED
    BY <1>3, <1>6, <1>8, <1>9, <2>1 DEF Worker, WorkerCrash, Claim, Thread,
       ReadPayload, Abandon, DeletePayload, server
<1> QED
  BY <1>7, <1>9

\* The names that the agent and its letters take over.
LEMMA AgentKnows ==
  ASSUME IInv, NamedInv, Agent
  PROVE  /\ agent'.task \in Started
         /\ \A f \in Files : {job'[f].task, outbox'[f].task, dead'[f].task}
                                 \subseteq Started
         /\ \A r \in requests' : r.task \in Started
<1>0. /\ UNCHANGED job /\ NoTask \in Started
      /\ AtRest.task = NoTask /\ NoItem.task = NoTask
      /\ AgentType /\ outbox \in [Files -> Item] /\ dead \in [Files -> Item]
  BY DEF Agent, Acknowledge, GiveUp, EndScan, Drained, Report, AbortRun, server,
     AgentCrash, ScanPath, Drain, Revive, Started, AtRest, NoItem, IInv, BoxType
<1>1. agent'.task \in {agent.task, NoTask}
  BY <1>0 DEF Agent, Acknowledge, GiveUp, PutOff, EndScan, Drained, Report,
     AbortRun, AgentCrash, ScanPath, Drain, Revive, AgentType
<1>2. ASSUME NEW r \in requests'
      PROVE  r.task \in Started
  <2>1. CASE GiveUp \/ AgentCrash
    <3>1. PICK q \in requests : r = [q EXCEPT !.live = FALSE]
      BY <1>2, <2>1 DEF GiveUp, AgentCrash
    <3>2. q \in Requests /\ q.task \in Started
      BY DEF IInv, MessageType, NamedInv
    <3>3. r.task = q.task
      BY <3>1, <3>2 DEF Requests, Request, Startup
    <3> QED
      BY <3>2, <3>3
  <2>2. CASE \E f \in Files : ScanPath(f) \/ Drain(f)
    BY <1>2, <2>2 DEF ScanPath, Drain, Ask, NamedInv
  <2> QED
    BY <1>2, <2>1, <2>2 DEF Agent, Acknowledge, EndScan, Drained, Report,
       AbortRun, Revive, server, NamedInv
<1>3. ASSUME NEW f \in Files
      PROVE  /\ outbox'[f].task \in {outbox[f].task, dead[f].task, agent.task, NoTask}
             /\ dead'[f].task \in {outbox[f].task, dead[f].task, NoTask}
  <2>1. outbox[f] \in Item /\ dead[f] \in Item
    BY <1>0
  <2>2. CASE GiveUp
    <3>1. PICK written \in BOOLEAN : PutOff(written)
      BY <2>2 DEF GiveUp
    <3> QED
      BY <1>0, <2>2, <3>1 DEF GiveUp, PutOff
  <2>3. CASE EndScan
    BY <1>0, <2>1, <2>3 DEF EndScan, Pruned
  <2>4. CASE \E g \in Files : Revive(g)
    BY <1>0, <2>1, <2>4 DEF Revive
  <2>5. CASE Drained
    BY <1>0, <2>1, <2>5 DEF Drained
  <2>6. CASE Report
    <3>1. outbox'[f] = outbox[f] \/ outbox'[f] = [outbox[f] EXCEPT !.result = TRUE]
      BY <1>0, <2>6 DEF Report
    <3> QED
      BY <2>1, <2>6, <3>1 DEF Report, Item
  <2> QED
    BY <2>2, <2>3, <2>4, <2>5, <2>6 DEF Agent, Acknowledge, AbortRun, AgentCrash,
       ScanPath, Drain
<1> QED
  BY <1>0, <1>1, <1>2, <1>3 DEF NamedInv

LEMMA AnswerKnows ==
  ASSUME IInv, NEW r, NEW new, Answer(r, new)
  PROVE  agent'.task = agent.task /\ requests' \subseteq requests
  BY DEF Answer, IInv, AgentType

\* The names that the server takes over from the requests.
LEMMA ApiKnows ==
  ASSUME IInv, NamedInv, Started \subseteq Started', Api
  PROVE  /\ agent'.task \in Started'
         /\ \A f \in Files : {job'[f].task, outbox'[f].task, dead'[f].task}
                                 \subseteq Started'
         /\ \A r \in requests' : r.task \in Started'
<1> DEFINE Jobs == \A f \in Files : job'[f].task \in Started
           Letters == UNCHANGED <<outbox, dead>>
           Asked == \A r \in requests' : r.task \in Started
<1>0. task \in [Tasks -> Row] /\ job \in [Files -> Job] /\ AgentType
  BY DEF IInv, ServerType
<1>1. ASSUME NEW r \in requests, Refuse(r)
      PROVE  /\ agent'.task = agent.task /\ requests' \subseteq requests
             /\ UNCHANGED <<job, dead>>
             /\ \A f \in Files : outbox'[f].task \in {outbox[f].task, agent.task}
  <2>1. PutOff(TRUE) /\ outbox \in [Files -> Item]
    BY <1>1 DEF Refuse, IInv, BoxType
  <2>2. agent'.task = agent.task
    BY <1>0, <2>1 DEF PutOff, AgentType
  <2>3. \A f \in Files : outbox'[f].task \in {outbox[f].task, agent.task}
    BY <2>1 DEF PutOff
  <2> QED
    BY <1>1, <2>2, <2>3 DEF Refuse, server
<1>2. ASSUME NEW r \in requests, Lookup(r) \/ Insert(r) \/ Reopen(r)
      PROVE  agent'.task = agent.task /\ Jobs /\ Letters /\ Asked
  <2>1. r \in Request /\ r.task \in Started /\ r.file \in Files
    BY <1>2, TypedRequest DEF Lookup, Insert, Reopen, NamedInv, Request
  <2>2. Queued(r.file, r.task).task = r.task
    BY <1>0, <2>1 DEF Queued, Job
  <2>3. Jobs
    BY <1>0, <1>2, <2>1, <2>2 DEF Lookup, Insert, Reopen, Dedupe, server, NamedInv
  <2>4. CASE \E new : Answer(r, new)
    BY <1>2, <2>3, <2>4, AnswerKnows DEF Lookup, Insert, Reopen, NamedInv
  <2>5. CASE /\ UNCHANGED agent
             /\ requests' = (requests \ {r})
                    \cup {[r EXCEPT !.step = "insert", !.spooled = TRUE]}
    <3>1. [r EXCEPT !.step = "insert", !.spooled = TRUE].task = r.task
      BY <2>1 DEF Request
    <3> QED
      BY <1>2, <2>1, <2>3, <2>5, <3>1 DEF Lookup, Insert, Reopen, NamedInv
  <2>6. CASE /\ UNCHANGED agent
             /\ requests' = (requests \ {r}) \cup {[r EXCEPT !.step = "reopen"]}
    <3>1. [r EXCEPT !.step = "reopen"].task = r.task
      BY <2>1 DEF Request
    <3> QED
      BY <1>2, <2>1, <2>3, <2>6, <3>1 DEF Lookup, Insert, Reopen, NamedInv
  <2> QED
    BY <1>2, <2>4, <2>5, <2>6 DEF Lookup, Insert, Reopen, Dedupe
<1>3. ASSUME NEW t \in Tasks, NEW old, NEW stale, Poll(t, old, stale)
      PROVE  /\ agent'.task \in {agent.task, t} /\ t \in Started'
             /\ UNCHANGED <<job, outbox, dead, requests>>
  <2>1. t \in Started'
    BY <1>0, <1>3, PollGoesOn DEF Started
  <2> QED
    BY <1>3, <2>1 DEF Poll, AtRest
<1>4. CASE ApiRestart
  BY <1>4 DEF ApiRestart, Startup, client, NamedInv, Started
<1>5. CASE StartupMaintenance
  <2>1. PICK lapsed : CleanSpool(requests \ {Startup}, lapsed)
    BY <1>5 DEF StartupMaintenance
  <2>2. \A f \in Files : job'[f].task = job[f].task
    BY <1>0, <2>1 DEF CleanSpool, Job
  <2>3. ASSUME NEW r \in requests'
        PROVE  r.task \in Started
    <3>1. PICK q \in requests : r = [q EXCEPT !.spooled = FALSE]
      BY <2>1, <2>3 DEF CleanSpool
    <3>2. q \in Requests /\ q.task \in Started
      BY DEF IInv, MessageType, NamedInv
    <3>3. r.task = q.task
      BY <3>1, <3>2 DEF Requests, Request, Startup
    <3> QED
      BY <3>2, <3>3
  <2> QED
    BY <1>5, <2>2, <2>3 DEF StartupMaintenance, client, NamedInv
<1>6. CASE UNCHANGED <<job, requests, client>>
  BY <1>6 DEF client, NamedInv
<1> QED
  BY <1>1, <1>2, <1>3, <1>4, <1>5, <1>6
  DEF Api, Create, Maintain, LateReport, NamedInv

\* The worker names nothing.
LEMMA WorkerKnows ==
  ASSUME IInv, Worker
  PROVE  /\ UNCHANGED client
         /\ \A f \in Files : job'[f].task = job[f].task
         /\ \A r \in requests' : \E q \in requests : r.task = q.task
<1>0. job \in [Files -> Job] /\ UNCHANGED client
  BY DEF IInv, ServerType, Worker, WorkerCrash, WorkerStart, RequeueInterrupted,
     ReconcileSpool, RequeueStale, Claim, Thread, ReadPayload, Analyse,
     RefuseBare, Abandon, DeletePayload, client
<1>1. \A f \in Files : job'[f].task = job[f].task
  <2>0. \A f \in Files : job[f] \in Job
    BY <1>0
  <2>1. CASE RequeueInterrupted
    <3> SUFFICES ASSUME NEW f \in Files PROVE job'[f].task = job[f].task
      OBVIOUS
    <3>1. \/ job'[f] = job[f]
          \/ job'[f] = [job[f] EXCEPT !.status = "queued",
                           !.tries = IF @ > 0 THEN @ - 1 ELSE 0]
      BY <2>1 DEF RequeueInterrupted
    <3> QED
      BY <2>0, <3>1 DEF Job
  <2>4. CASE ReconcileSpool
    BY <2>0, <2>4 DEF ReconcileSpool, CleanSpool, Job
  <2>2. CASE \E f \in Files : RequeueStale(f) \/ \E h \in Threads : Claim(h, f)
    BY <1>0, <2>2 DEF RequeueStale, Claim, Job
  <2>3. CASE \E h \in Threads : Analyse(h) \/ RefuseBare(h)
    <3>1. PICK h \in Threads : Analyse(h) \/ RefuseBare(h)
      BY <2>3
    <3>2. PICK status, missing :
             job' = [job EXCEPT ![thread[h].file].status = status,
                                ![thread[h].file].missing = missing]
      BY <3>1 DEF Analyse, RefuseBare, Finalize
    <3> QED
      BY <1>0, <3>2 DEF Job
  <2> QED
    BY <2>1, <2>2, <2>3, <2>4 DEF Worker, WorkerCrash, WorkerStart, Thread, ReadPayload,
       Abandon, DeletePayload, server
<1>2. \A r \in requests' : \E q \in requests : r.task = q.task
  <2>1. CASE ReconcileSpool
    <3> SUFFICES ASSUME NEW r \in requests'
                 PROVE  \E q \in requests : r.task = q.task
      OBVIOUS
    <3>1. PICK q \in requests : r = [q EXCEPT !.spooled = FALSE]
      BY <2>1 DEF ReconcileSpool, CleanSpool
    <3>2. r.task = q.task
      BY <3>1 DEF IInv, MessageType, Requests, Request, Startup
    <3> QED
      BY <3>2
  <2> QED
    BY <2>1 DEF Worker, WorkerCrash, WorkerStart, RequeueInterrupted,
       RequeueStale, Claim, Thread, ReadPayload, Analyse, RefuseBare, Abandon,
       DeletePayload, server
<1> QED
  BY <1>0, <1>1, <1>2

LEMMA NextNamed ==
  ASSUME IInv, NamedInv, OneActive, [Next]_vars
  PROVE  (NamedInv /\ OneActive)'
<1>0. task \in [Tasks -> Row]
  BY DEF IInv, ServerType
<1>1. /\ AllGoOn \/ Created
      /\ \A m \in reports' : m.task \in Started
  <2>1. CASE Agent
    BY <2>1, AgentNames
  <2>2. CASE Api \/ Worker
    BY <2>2, ServerGoesOn DEF NamedInv
  <2>3. CASE UNCHANGED vars
    BY <2>3 DEF vars, server, AllGoOn, NamedInv
  <2> QED
    BY <2>1, <2>2, <2>3 DEF Next
<1>2. Started \subseteq Started'
  <2>1. CASE Created
    BY <1>0, <2>1 DEF Created, Create, Started, Row
  <2> QED
    BY <1>1, <2>1, StartedStays
<1>3. OneActive'
  <2>1. ASSUME NEW t \in Tasks, Create(t)
        PROVE  OneActive'
    <3>1. \A u \in Tasks : task'[u].status \in Active => u = t
      BY <1>0, <2>1 DEF Create
    <3> QED
      BY <3>1 DEF OneActive
  <2>2. CASE AllGoOn
    BY <2>2 DEF AllGoOn, OneActive
  <2> QED
    BY <1>1, <2>1, <2>2 DEF Created
<1>4. /\ agent'.task \in Started'
      /\ \A f \in Files : {job'[f].task, outbox'[f].task, dead'[f].task}
                              \subseteq Started'
      /\ \A r \in requests' : r.task \in Started'
  <2>1. CASE Agent
    BY <1>2, <2>1, AgentKnows
  <2>2. CASE Api
    BY <1>2, <2>2, ApiKnows
  <2>3. CASE Worker
    BY <1>2, <2>3, WorkerKnows DEF client, NamedInv
  <2>4. CASE UNCHANGED vars
    BY <1>2, <2>4 DEF vars, server, client, NamedInv
  <2> QED
    BY <2>1, <2>2, <2>3, <2>4 DEF Next
<1> QED
  BY <1>1, <1>2, <1>3, <1>4 DEF NamedInv

LEMMA NamedInvariant == Spec => [](IInv /\ NamedInv /\ OneActive)
<1>1. Init => IInv /\ NamedInv /\ OneActive
  BY InitIInv DEF Init, AtRest, NoItem, NoJob, NamedInv, Started, OneActive, Active
<1>2. IInv /\ NamedInv /\ OneActive /\ [Next]_vars
      => (IInv /\ NamedInv /\ OneActive)'
  BY NextIInv, NextNamed
<1> QED
  BY <1>1, <1>2, PTL DEF Spec

\* The agent has one scan at a time: the check of create_task is made once, and
\* no late report, second hand-out, reconciliation or restart brings a task back
\* beside the one that was created meanwhile.
THEOREM OneScanAtATime == Spec => []OneActive
<1>1. IInv /\ NamedInv /\ OneActive => OneActive
  OBVIOUS
<1> QED
  BY <1>1, NamedInvariant, PTL

-----------------------------------------------------------------------------
(* Where doubt comes from.  As long as nothing is lost, late, refused,       *)
(* restarted or out of its time, the agent has no letters, waits for one     *)
(* request at most, and the row of its task says that the scan goes on.      *)

Scanning == [status |-> "acknowledged", phase |-> "local_scan"]

Running ==
    \/ agent.step = "idle"
    \/ agent.step = "polled" /\ task[agent.task].status = "delivered"
    \/ /\ agent.step \in {"scan", "scanning", "drain"}
       /\ agent.task \in Tasks /\ task[agent.task] = Scanning

Asking == \A r \in requests : /\ r.live /\ r.task = agent.task
                              /\ r.step = "reopen" => Reopens(r.file)

NoLetters == \A f \in Files : ~outbox[f].held /\ ~dead[f].held

Calm == /\ doubtful = {} /\ boot = "up" /\ reports = {}
        /\ NoLetters /\ Running /\ Asking

Quiet == upsets = 0 /\ upsets' = 0

LEMMA NoUpset == Quiet => ~Upset
  BY DEF Quiet, Upset

\* A row that is not of an agent that has sent everything is left alone.
LEMMA ReconcileSpares ==
  ASSUME NEW ts, MayReconcile(ts) \/ Reconcile(ts),
         NEW t \in Tasks, task[t].status = "delivered" \/ task[t] = Scanning
  PROVE  task'[t] = task[t]
<1>1. ~Told(task[t])
  BY DEF Told, Scanning
<1>2. \A jobs : Reconciled(task[t], t, jobs) = task[t]
  BY <1>1 DEF Reconciled
<1> QED
  BY <1>2 DEF MayReconcile, Reconcile

\* Without a live request nothing is asked.
LEMMA NothingAsked ==
  ASSUME IInv, Calm, agent.step # "scanning"
  PROVE  requests = {}
  BY DEF IInv, LiveInv, Calm, Asking, Running

LEMMA AgentCalm ==
  ASSUME IInv, RunInv, Calm, Quiet, Agent
  PROVE  Calm'
<1>0. /\ ~Upset /\ UNCHANGED <<job, boot>> /\ AgentType
      /\ task \in [Tasks -> Row]
      /\ NoLetters /\ Running /\ Asking
  BY NoUpset DEF IInv, ServerType, Calm, Agent, Acknowledge, GiveUp, EndScan,
     Drained, Report, AbortRun, AgentCrash, ScanPath, Drain, Revive, server, worker
<1>1. CASE Acknowledge
  <2> DEFINE t == agent.task
             m == [task |-> t, status |-> "acknowledged", phase |-> "local_scan"]
  <2>1. agent.step = "polled" /\ t \in Tasks /\ task[t].status = "delivered"
    BY <1>0, <1>1 DEF Acknowledge, AgentType, Owner, Running
  <2>2. requests = {} /\ UNCHANGED <<requests, reports, outbox, dead, doubtful>>
    BY <1>0, <1>1, <2>1, NothingAsked DEF Acknowledge, Send
  <2>3. task' = Applied(m)
    BY <1>0, <1>1 DEF Acknowledge, Send
  <2>4. Reconciled(Scanning, t, job) = Scanning
    BY DEF Reconciled, Told, Scanning
  <2>5. task'[t] = Scanning
    BY <1>0, <2>1, <2>3, <2>4 DEF Applied, Scanning, Final
  <2>6. agent'.step = "scan" /\ agent'.task = t
    BY <1>0, <1>1 DEF Acknowledge, AgentType
  <2> QED
    BY <1>0, <2>1, <2>2, <2>5, <2>6 DEF Calm, Running, Asking, NoLetters
<1>2. ASSUME NEW f \in Files, ScanPath(f)
      PROVE  Calm'
  <2>1. agent.step = "scan" /\ requests = {}
    BY <1>0, <1>2, NothingAsked DEF ScanPath
  <2>2. \A r \in requests' : /\ r.live /\ r.task = agent.task /\ r.step = "sent"
    BY <1>2, <2>1 DEF ScanPath, Ask
  <2>3. agent'.step = "scanning" /\ agent'.task = agent.task
    BY <1>0, <1>2 DEF ScanPath, AgentType
  <2> QED
    BY <1>0, <1>2, <2>1, <2>2, <2>3
    DEF ScanPath, Calm, Running, Asking, NoLetters, server
<1>3. CASE EndScan
  <2>1. /\ agent.step = "scan" /\ requests = {}
        /\ agent'.step = "drain" /\ agent'.task = agent.task
    BY <1>0, <1>3, NothingAsked DEF EndScan, AgentType
  <2> QED
    BY <1>0, <1>3, <2>1 DEF EndScan, Calm, Running, Asking, NoLetters, server
<1>4. CASE Report
  <2>1. requests = {} /\ agent'.step = "idle"
    BY <1>0, <1>4, NothingAsked DEF Report, AtRest
  <2>2. UNCHANGED <<reports, dead, doubtful, requests>>
    BY <1>0, <1>4 DEF Report, Send
  <2>3. \A f \in Files : outbox'[f] = outbox[f]
    BY <1>0, <1>4 DEF Report, NoLetters
  <2> QED
    BY <1>0, <2>1, <2>2, <2>3 DEF Calm, Running, Asking, NoLetters
<1> QED
  BY <1>0, <1>1, <1>2, <1>3, <1>4 DEF Agent, GiveUp, Drained, AbortRun,
     AgentCrash, Drain, Revive, NoLetters, Running

\* The agent is told that its file was received, and goes on.
LEMMA AnswerCalm ==
  ASSUME IInv, Calm, NEW r \in requests, NEW new, Answer(r, new),
         \E ts : MayReconcile(ts), UNCHANGED <<reports, outbox, dead, boot, doubtful>>
  PROVE  Calm'
<1>1. /\ r.live /\ agent.step = "scanning" /\ AgentType
      /\ agent.task \in Tasks /\ task[agent.task] = Scanning
  BY DEF IInv, LiveInv, Calm, Running, Asking
<1>2. requests' = {}
  BY <1>1 DEF Answer, IInv, LiveInv, Calm, Asking
<1>3. agent'.step = "scan" /\ agent'.task = agent.task
  BY <1>1, ScanAssumption DEF Answer, Afterwards, AgentType
<1>4. task'[agent.task] = Scanning
  BY <1>1, ReconcileSpares
<1> QED
  BY <1>1, <1>2, <1>3, <1>4 DEF Calm, Running, Asking, NoLetters

\* A reopened job is the task's own, or was of one that has ended.
LEMMA ReopenIsClear ==
  ASSUME IInv, NamedInv, OneActive, Calm, NEW r \in requests, Reopen(r)
  PROVE  doubtful' = doubtful
<1>1. r \in Request /\ r.step = "reopen" /\ r.file \in Files
  BY TypedRequest DEF Reopen, Request
<1>2. /\ Reopens(r.file) /\ r.task \in Tasks /\ task[r.task] = Scanning
      /\ r.task \notin Ended
  BY <1>1 DEF Calm, Asking, Running, IInv, LiveInv, Ended, Scanning, Final
<1>3. job[r.file].task \in {r.task, NoTask} \cup Ended
  <2>1. job[r.file].task \in Started
    BY <1>1 DEF NamedInv
  <2>2. ASSUME NEW t \in Tasks, task[t].status # "none", t \notin Ended
        PROVE  t = r.task
    <3>1. task[t] \in Row
      BY DEF IInv, ServerType
    <3> QED
      BY <1>2, <2>2, <3>1 DEF OneActive, Row, Ended, Active, Scanning
  <2> QED
    BY <2>1, <2>2 DEF Started
<1> QED
  BY <1>2, <1>3 DEF Reopen

LEMMA ApiCalm ==
  ASSUME IInv, NamedInv, OneActive, Calm, Quiet, Api
  PROVE  Calm'
<1>0. /\ ~Upset /\ task \in [Tasks -> Row] /\ job \in [Files -> Job] /\ AgentType
      /\ NoLetters /\ Running /\ Asking /\ reports = {}
      /\ Startup \notin requests
  BY NoUpset DEF IInv, ServerType, Calm, Asking, Startup
<1>1. ASSUME NEW t \in Tasks, Create(t)
      PROVE  Calm'
  <2>1. agent.task \in Tasks => \/ task'[agent.task] = task[agent.task]
                                \/ task[agent.task].status = "none"
    BY <1>0, <1>1 DEF Create
  <2>2. agent.step = "polled" => agent.task \in Tasks
    BY <1>0 DEF AgentType, Owner
  <2>3. Running'
    BY <1>0, <1>1, <2>1, <2>2 DEF Create, Running, Scanning, client
  <2> QED
    BY <1>0, <1>1, <2>3 DEF Create, Calm, NoLetters, Asking, Reopens, client, worker
<1>2. ASSUME NEW t \in Tasks, NEW old, NEW stale, Poll(t, old, stale)
      PROVE  Calm'
  <2>1. requests = {} /\ agent'.step = "polled" /\ agent'.task = t
    BY <1>0, <1>2, NothingAsked DEF Poll, AtRest
  <2>2. task'[t].status = "delivered"
    BY <1>0, <1>2, PollGoesOn
  <2> QED
    BY <1>2, <2>1, <2>2 DEF Poll, Calm, Running, Asking, NoLetters, worker
<1>3. ASSUME NEW r \in requests, Lookup(r) \/ Insert(r) \/ Reopen(r)
      PROVE  Calm'
  <2>1. /\ r \in Request /\ r.live /\ agent.step = "scanning"
        /\ agent.task \in Tasks /\ task[agent.task] = Scanning
        /\ r.task = agent.task /\ UNCHANGED <<reports, outbox, dead, boot>>
    BY <1>0, <1>3, TypedRequest DEF Lookup, Insert, Reopen, IInv, LiveInv, Running,
       Asking, worker
  <2>2. doubtful' = doubtful
    BY <1>3, ReopenIsClear DEF Lookup, Insert
  <2>3. CASE (\E new : Answer(r, new)) /\ \E ts : MayReconcile(ts)
    BY <2>1, <2>2, <2>3, AnswerCalm
  <2>4. CASE /\ UNCHANGED <<task, job, agent>>
             /\ \/ requests' = (requests \ {r})
                       \cup {[r EXCEPT !.step = "insert", !.spooled = TRUE]}
                \/ /\ requests' = (requests \ {r}) \cup {[r EXCEPT !.step = "reopen"]}
                   /\ Reopens(r.file)
    <3> DEFINE q == [r EXCEPT !.step = "insert", !.spooled = TRUE]
               p == [r EXCEPT !.step = "reopen"]
    <3>1. /\ q.live /\ q.task = r.task /\ q.step = "insert"
          /\ p.live /\ p.task = r.task /\ p.file = r.file
      BY <2>1 DEF Request
    <3>2. Asking'
      <4>1. ASSUME NEW s \in requests', s \in requests
            PROVE  s.live /\ s.task = agent.task /\ (s.step = "reopen" => Reopens(s.file))
        BY <1>0, <4>1 DEF Asking
      <4>2. ASSUME NEW s \in requests', s \notin requests
            PROVE  s.live /\ s.task = agent.task /\ (s.step = "reopen" => Reopens(s.file))
        BY <2>1, <2>4, <3>1, <4>2
      <4> QED
        BY <2>4, <4>1, <4>2 DEF Asking, Reopens
    <3> QED
      BY <2>1, <2>2, <2>4, <3>2 DEF Calm, Running, NoLetters
  <2> QED
    BY <1>3, <2>3, <2>4 DEF Lookup, Insert, Reopen, Dedupe, server
<1> QED
  BY <1>0, <1>1, <1>2, <1>3 DEF Api, Maintain, LateReport, Refuse, ApiRestart,
     StartupMaintenance

LEMMA WorkerCalm ==
  ASSUME IInv, AloneInv, Calm, Quiet, Worker
  PROVE  Calm'
<1>0. /\ ~Upset /\ task \in [Tasks -> Row] /\ job \in [Files -> Job] /\ AgentType
      /\ Running /\ Asking /\ boot = "up" /\ doubtful = {}
  BY NoUpset DEF IInv, ServerType, Calm
<1>1. UNCHANGED <<reports, client, boot, requests, doubtful>>
  BY <1>0 DEF Worker, WorkerCrash, WorkerStart, RequeueInterrupted,
     ReconcileSpool, RequeueStale, Claim, Thread, ReadPayload, Analyse,
     RefuseBare, Abandon, DeletePayload, worker
<1>2. UNCHANGED task \/ \E ts : MayReconcile(ts) \/ Reconcile(ts)
  BY <1>0 DEF Worker, WorkerCrash, WorkerStart, RequeueInterrupted,
     ReconcileSpool, RequeueStale, Claim, Thread, ReadPayload, Analyse,
     RefuseBare, Finalize, Abandon, DeletePayload, server
<1>3. Running'
  <2>1. agent.step = "polled" => agent.task \in Tasks
    BY <1>0 DEF AgentType, Owner
  <2>2. ASSUME agent.task \in Tasks,
               task[agent.task].status = "delivered" \/ task[agent.task] = Scanning
        PROVE  task'[agent.task] = task[agent.task]
    BY <1>2, <2>2, ReconcileSpares
  <2> QED
    BY <1>0, <1>1, <2>1, <2>2 DEF Running, client
<1>4. ASSUME NEW f \in Files
      PROVE  job'[f] = job[f] \/ job[f].status # "incomplete"
  <2>1. CASE \E g \in Files : RequeueStale(g) \/ \E h \in Threads : Claim(h, g)
    BY <1>0, <2>1 DEF RequeueStale, Claim, Processing
  <2>2. CASE \E h \in Threads : Analyse(h) \/ RefuseBare(h)
    <3>1. PICK h \in Threads : Analyse(h) \/ RefuseBare(h)
      BY <2>2
    <3>2. thread[h].file \in Files /\ job[thread[h].file].status = "processing"
      BY <1>0, <3>1, WorkFile DEF AloneInv, AtWork, Analyse, RefuseBare
    <3>3. f # thread[h].file => job'[f] = job[f]
      BY <1>0, <3>1 DEF Analyse, RefuseBare, Finalize
    <3> QED
      BY <3>2, <3>3
  <2> QED
    BY <1>0, <2>1, <2>2 DEF Worker, WorkerCrash, WorkerStart, RequeueInterrupted,
       ReconcileSpool, Thread, ReadPayload, Abandon, DeletePayload, server
<1>5. Asking'
  <2>1. ASSUME NEW r \in requests, r.step = "reopen"
        PROVE  Reopens(r.file)'
    <3>1. r \in Request /\ r.file \in Files /\ Reopens(r.file)
      BY <1>0, <2>1, TypedRequest DEF Asking, Request
    <3> QED
      BY <1>4, <3>1 DEF Reopens
  <2> QED
    BY <1>0, <1>1, <2>1 DEF Asking, client
<1> QED
  BY <1>1, <1>3, <1>5 DEF Calm, NoLetters, client

CalmInv == upsets = 0 => Calm

LEMMA CalmInvariant ==
    Spec => [](IInv /\ CInv /\ NamedInv /\ OneActive /\ CalmInv)
<1>1. Init => CalmInv
  BY DEF Init, AtRest, NoItem, CalmInv, Calm, NoLetters, Running, Asking
<1>2. IInv /\ CInv /\ NamedInv /\ OneActive /\ CalmInv /\ [Next]_vars => CalmInv'
  <2> SUFFICES ASSUME IInv, CInv, NamedInv, OneActive, CalmInv, [Next]_vars,
                      upsets' = 0
               PROVE  Calm'
    BY DEF CalmInv
  <2>1. upsets' = upsets \/ Upset
    <3>1. CASE Agent
      BY <3>1 DEF Agent, Acknowledge, GiveUp, EndScan, Drained, Report, AbortRun,
         AgentCrash, ScanPath, Drain, Revive, Send
    <3>2. CASE Api
      BY <3>2 DEF Api, Create, Maintain, Poll, LateReport, Refuse, Lookup, Insert,
         Reopen, ApiRestart, StartupMaintenance
    <3>3. CASE Worker
      BY <3>3 DEF Worker, WorkerCrash, WorkerStart, RequeueInterrupted,
         ReconcileSpool, RequeueStale, Claim, Thread, ReadPayload, Analyse,
         RefuseBare, Abandon, DeletePayload
    <3> QED
      BY <3>1, <3>2, <3>3 DEF Next, vars
  <2>2. Quiet /\ Calm
    BY <2>1 DEF Quiet, Upset, CalmInv, IInv, OtherType
  <2>3. CASE UNCHANGED vars
    BY <2>2, <2>3 DEF vars, server, client, worker, Calm, NoLetters, Running,
       Asking, Reopens
  <2> QED
    BY <2>2, <2>3, AgentCalm, ApiCalm, WorkerCalm DEF Next, CInv, SentInv
<1> QED
  BY <1>1, <1>2, CompletionInvariant, NamedInvariant, PTL DEF Spec

\* The exceptions are not the rule.  As long as no call fails, no process stops,
\* nothing is refused or pruned and nothing outlasts its lease or ttl, no file is
\* in doubt: the order in which the agent, the API and the worker's threads take
\* their steps never mixes one up, and a completed task has every file.
THEOREM DoubtNeedsAnUpset ==
    Spec => [](upsets = 0 => /\ doubtful = {}
                             /\ \A t \in Tasks : task[t].status = "completed" =>
                                   \A f \in Files :
                                      /\ job[f].status # "none"
                                      /\ job[f].task = t => job[f].status = "done")
<1>1. CInv /\ CalmInv =>
        (upsets = 0 => /\ doubtful = {}
                       /\ \A t \in Tasks : task[t].status = "completed" =>
                             \A f \in Files :
                                /\ job[f].status # "none"
                                /\ job[f].task = t => job[f].status = "done")
  BY DEF CalmInv, Calm, CInv, SentInv, RowsTrue, TellsAll, Received, Got,
         AnalysedInv
<1> QED
  BY <1>1, CalmInvariant, PTL
=============================================================================
