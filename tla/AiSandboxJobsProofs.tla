------------------------ MODULE AiSandboxJobsProofs ------------------------
(***************************************************************************)
(* The safety properties of AiSandboxJobs hold for any jobs, workers and    *)
(* bounds.  IInv says which statuses a job may have while its request or a  *)
(* worker is at a given step: a job that was executed never returns to the  *)
(* queue, so it has one executor for good, and a job whose answer is being  *)
(* delivered was claimed and can no longer be stopped.                     *)
(***************************************************************************)
EXTENDS AiSandboxJobs, TLAPS

USE SandboxAssumption

NotBegun   == {"none", "preparing", "queued", "claimed"}
Running    == {"running", "waiting_permission", "cleanup_pending"}
Ended      == Executing \cup {"result", "failed"}
Delivering == {"publish", "send", "close"}

On(w, S) == worker[w].step \in S

WorkerHasJob == \A w \in Workers : worker[w].step = "idle" \/ worker[w].job \in Jobs

OneActive == \A i, j \in Jobs : status[i] \in Active /\ status[j] \in Active => i = j

BegunOnce == \A j \in Jobs : /\ started[j] <= 1
                             /\ status[j] \in NotBegun => started[j] = 0

Preparing == \A j \in Jobs :
    /\ status[j] \in {"none", "preparing"} => attempt[j] = 0
    /\ status[j] \in Held \cup {"finalizing"} => attempt[j] # 0
    /\ request[j] \in {"staging", "failing"} =>
          attempt[j] = 0 /\ status[j] \in {"preparing", "cancelled", "failed"}

ClaimedOnly == \A w \in Workers :
    On(w, {"claimed"}) /\ Holds(w, Held) => status[worker[w].job] = "claimed"

Executors ==
    /\ \A w \in Workers : On(w, Ended) => started[worker[w].job] = 1
    /\ \A v, w \in Workers : On(v, Ended) /\ On(w, Ended) /\ worker[v].job = worker[w].job
                                => v = w

Delivery ==
    LET told == {"finalizing", "succeeded", "cancelled"} IN
    /\ \A w \in Workers : On(w, Delivering) =>
          /\ status[worker[w].job] \in told /\ attempt[worker[w].job] # 0
          /\ worker[w].job \notin stopped
    /\ \A j \in answered : status[j] \in told /\ attempt[j] # 0 /\ j \notin stopped

Cleaning == \A w \in Workers :
    /\ On(w, {"cleanup", "aborted"}) =>
          status[worker[w].job] \in Closed \cup {"cleanup_pending"}
    /\ On(w, {"aborted"}) =>
          /\ worker[w].job \notin grants
          /\ worker[w].job \notin overtaken =>
                /\ worker[w].job \notin containers
                /\ \A v \in Workers : On(v, Executing) => worker[v].job # worker[w].job

Access ==
    /\ \A j \in grants : status[j] \in Running
    /\ \A w \in Workers : On(w, {"result"}) => worker[w].job \notin grants \cup containers

Orphans ==
    /\ OrphanIsFound
    /\ \A w \in Workers : On(w, Executing) =>
          worker[w].job \in overtaken \/ status[worker[w].job] \in Running

IInv == /\ TypeOK /\ WorkerHasJob /\ OneActive /\ BegunOnce /\ Preparing
        /\ ClaimedOnly /\ Executors /\ Delivery /\ Cleaning /\ Access /\ Orphans
        /\ StopWins /\ SessionMatchesJobs

USE DEF Held, Closed, Active, Fenced, Executing, Ended, Delivering, Running, NotBegun, On, Holds
USE DEF SetStatus, SetRequest, Step, Rest, row, outside, history, vars

-----------------------------------------------------------------------------
\* What a step of a worker leaves in its record, and in those of the others.
LEMMA Busy ==
  ASSUME IInv, NEW w \in Workers, worker[w].step # "idle"
  PROVE  worker[w].job \in Jobs /\ worker[w] \in Worker
  BY DEF IInv, TypeOK, WorkerHasJob

LEMMA StepEffect ==
  ASSUME IInv, NEW w \in Workers, worker[w].step # "idle", NEW s \in Steps, Step(w, s)
  PROVE  /\ worker' \in [Workers -> Worker]
         /\ worker'[w].job = worker[w].job /\ worker'[w].step = s
         /\ \A v \in Workers : v # w => worker'[v] = worker[v]
         /\ WorkerHasJob'
  BY Busy DEF IInv, TypeOK, WorkerHasJob, Worker, Steps

LEMMA RestEffect ==
  ASSUME IInv, NEW w \in Workers, Rest(w)
  PROVE  /\ worker' \in [Workers -> Worker]
         /\ worker'[w].job = NoJob /\ worker'[w].step = "idle"
         /\ \A v \in Workers : v # w => worker'[v] = worker[v]
         /\ WorkerHasJob'
  BY DEF IInv, TypeOK, WorkerHasJob, Worker, Idle, Steps


\* A worker that comes to rest and changes nothing else.
LEMMA RestIInv ==
  ASSUME IInv, NEW w \in Workers, Rest(w), UNCHANGED <<row, request, outside, history, losses>>
  PROVE  IInv'
<1> USE DEF IInv
<1>1. /\ worker' \in [Workers -> Worker]
      /\ worker'[w].job = NoJob /\ worker'[w].step = "idle"
      /\ \A v \in Workers : v # w => worker'[v] = worker[v]
      /\ WorkerHasJob'
  BY RestEffect
<1>2. TypeOK'
  BY <1>1 DEF TypeOK
<1>3. OneActive' /\ BegunOnce' /\ Preparing' /\ StopWins' /\ SessionMatchesJobs'
  BY DEF OneActive, BegunOnce, Preparing, StopWins, SessionMatchesJobs, NoActiveJob
<1>4. ClaimedOnly' /\ Executors'
  BY <1>1 DEF ClaimedOnly, Executors
<1>5. Delivery' /\ Cleaning' /\ Access' /\ Orphans'
  BY <1>1 DEF Delivery, Cleaning, Access, Orphans, OrphanIsFound
<1> QED
  BY <1>1, <1>2, <1>3, <1>4, <1>5

\* What a request handler does to itself.
LEMMA RequestIInv ==
  ASSUME IInv, NEW j \in Jobs, Touch(j) \/ FailPreparedRead(j) \/ LoseRequest(j)
  PROVE  IInv'
<1>1. TypeOK' /\ WorkerHasJob'
  BY DEF IInv, TypeOK, WorkerHasJob, Touch, FailPreparedRead, LoseRequest
<1>2. OneActive' /\ BegunOnce' /\ Preparing'
  BY DEF IInv, OneActive, BegunOnce, Preparing, TypeOK, Touch, FailPreparedRead,
         LoseRequest
<1>3. ClaimedOnly' /\ Executors'
  BY DEF IInv, ClaimedOnly, Executors, Touch, FailPreparedRead, LoseRequest
<1>4. Delivery' /\ StopWins'
  BY DEF IInv, Delivery, StopWins, Touch, FailPreparedRead, LoseRequest
<1>5. Cleaning'
  BY DEF IInv, Cleaning, Touch, FailPreparedRead, LoseRequest
<1>6. Access'
  BY DEF IInv, Access, Touch, FailPreparedRead, LoseRequest
<1>7. Orphans'
  BY DEF IInv, Orphans, OrphanIsFound, Touch, FailPreparedRead, LoseRequest
<1>8. SessionMatchesJobs'
  BY DEF IInv, SessionMatchesJobs, NoActiveJob, Touch, FailPreparedRead, LoseRequest
<1> QED
  BY <1>1, <1>2, <1>3, <1>4, <1>5, <1>6, <1>7, <1>8 DEF IInv

\* The fence goes up only over a session without active jobs.
LEMMA SessionIInv ==
  ASSUME IInv, MarkForPurge \/ MarkPurged \/ Reopen
  PROVE  IInv'
<1>1. TypeOK' /\ WorkerHasJob'
  BY DEF IInv, TypeOK, WorkerHasJob, MarkForPurge, MarkPurged, Reopen, SetSession
<1>2. OneActive' /\ BegunOnce' /\ Preparing'
  BY DEF IInv, OneActive, BegunOnce, Preparing, MarkForPurge, MarkPurged, Reopen,
         SetSession
<1>3. ClaimedOnly' /\ Executors'
  BY DEF IInv, ClaimedOnly, Executors, MarkForPurge, MarkPurged, Reopen, SetSession
<1>4. Delivery' /\ StopWins'
  BY DEF IInv, Delivery, StopWins, MarkForPurge, MarkPurged, Reopen, SetSession
<1>5. Cleaning'
  BY DEF IInv, Cleaning, MarkForPurge, MarkPurged, Reopen, SetSession
<1>6. Access'
  BY DEF IInv, Access, MarkForPurge, MarkPurged, Reopen, SetSession
<1>7. Orphans'
  BY DEF IInv, Orphans, OrphanIsFound, MarkForPurge, MarkPurged, Reopen, SetSession
<1>8. SessionMatchesJobs'
  BY DEF IInv, SessionMatchesJobs, NoActiveJob, MarkForPurge, MarkPurged, Reopen,
         SetSession
<1> QED
  BY <1>1, <1>2, <1>3, <1>4, <1>5, <1>6, <1>7, <1>8 DEF IInv

\* A reservation finds no active job, so its own is the only one.
LEMMA ReserveIInv ==
  ASSUME IInv, NEW j \in Jobs, Reserve(j)
  PROVE  IInv'
<1>1. TypeOK' /\ WorkerHasJob'
  BY DEF IInv, TypeOK, WorkerHasJob, Statuses, Reserve
<1>2. OneActive' /\ BegunOnce' /\ Preparing'
  BY DEF IInv, OneActive, BegunOnce, Preparing, TypeOK, NoActiveJob, Reserve
<1>3. ClaimedOnly' /\ Executors'
  BY DEF IInv, ClaimedOnly, Executors, Reserve
<1>4. Delivery' /\ StopWins'
  BY DEF IInv, Delivery, StopWins, Reserve
<1>5. Cleaning'
  BY DEF IInv, Cleaning, Reserve
<1>6. Access'
  BY DEF IInv, Access, Reserve
<1>7. Orphans'
  BY DEF IInv, Orphans, OrphanIsFound, Reserve
<1>8. SessionMatchesJobs'
  BY DEF IInv, SessionMatchesJobs, Reserve
<1> QED
  BY <1>1, <1>2, <1>3, <1>4, <1>5, <1>6, <1>7, <1>8 DEF IInv

\* A job that no worker has claimed is queued or closed.
LEMMA UnstartedIInv ==
  ASSUME IInv, NEW j \in Jobs, Activate(j) \/ FailPreparedWrite(j) \/ FailUnstarted(j)
  PROVE  IInv'
<1>1. TypeOK' /\ WorkerHasJob'
  BY DEF IInv, TypeOK, WorkerHasJob, Statuses, Activate, FailPreparedWrite,
         FailUnstarted
<1>2. OneActive' /\ BegunOnce' /\ Preparing'
  BY DEF IInv, OneActive, BegunOnce, Preparing, TypeOK, Activate, FailPreparedWrite,
         FailUnstarted
<1>3. ClaimedOnly' /\ Executors'
  BY DEF IInv, ClaimedOnly, Executors, TypeOK, WorkerHasJob, Activate,
         FailPreparedWrite, FailUnstarted
<1>4. Cleaning'
  BY DEF IInv, Cleaning, TypeOK, WorkerHasJob, Activate, FailPreparedWrite,
         FailUnstarted
<1>5. Access'
  BY DEF IInv, Access, TypeOK, Preparing, Activate, FailPreparedWrite, FailUnstarted
<1>6. Orphans'
  BY DEF IInv, Orphans, TypeOK, WorkerHasJob, Preparing, OrphanIsFound, Activate,
         FailPreparedWrite, FailUnstarted
<1>7. SessionMatchesJobs'
  BY DEF IInv, SessionMatchesJobs, TypeOK, OneActive, NoActiveJob, Preparing,
         Activate, FailPreparedWrite, FailUnstarted
<1>8. Delivery'
  BY DEF IInv, Delivery, TypeOK, WorkerHasJob, Preparing, Activate, FailPreparedWrite,
         FailUnstarted
<1>9. StopWins'
  BY DEF IInv, StopWins, TypeOK, Preparing, Activate, FailPreparedWrite, FailUnstarted
<1> QED
  BY <1>1, <1>2, <1>3, <1>4, <1>5, <1>6, <1>7, <1>8, <1>9 DEF IInv

\* A decision lets a waiting job run on.
LEMMA RespondIInv ==
  ASSUME IInv, NEW j \in Jobs, Respond(j)
  PROVE  IInv'
<1>1. TypeOK' /\ WorkerHasJob'
  BY DEF IInv, TypeOK, WorkerHasJob, Statuses, Respond, RejectPending
<1>2. OneActive' /\ BegunOnce' /\ Preparing'
  BY DEF IInv, OneActive, BegunOnce, Preparing, TypeOK, Respond
<1>3. ClaimedOnly' /\ Executors'
  BY DEF IInv, ClaimedOnly, Executors, TypeOK, WorkerHasJob, Respond
<1>4. Delivery' /\ StopWins'
  BY DEF IInv, Delivery, StopWins, TypeOK, WorkerHasJob, Respond
<1>5. Cleaning'
  BY DEF IInv, Cleaning, TypeOK, WorkerHasJob, Respond
<1>6. Access'
  BY DEF IInv, Access, TypeOK, Respond
<1>7. Orphans'
  BY DEF IInv, Orphans, TypeOK, WorkerHasJob, OrphanIsFound, Respond
<1>8. SessionMatchesJobs'
  BY DEF IInv, SessionMatchesJobs, TypeOK, NoActiveJob, Respond
<1> QED
  BY <1>1, <1>2, <1>3, <1>4, <1>5, <1>6, <1>7, <1>8 DEF IInv

\* A stop is accepted before the answer is being delivered.
LEMMA CancelIInv ==
  ASSUME IInv, NEW j \in Jobs, Cancel(j)
  PROVE  IInv'
<1>1. TypeOK' /\ WorkerHasJob'
  BY DEF IInv, TypeOK, WorkerHasJob, Statuses, Cancel, StopJobs, RejectPending
<1>2. OneActive' /\ BegunOnce' /\ Preparing'
  BY DEF IInv, OneActive, BegunOnce, Preparing, Cancel, StopJobs
<1>3. ClaimedOnly' /\ Executors'
  BY DEF IInv, ClaimedOnly, Executors, WorkerHasJob, Cancel, StopJobs
<1>4. Delivery' /\ StopWins'
  BY DEF IInv, Delivery, StopWins, TypeOK, WorkerHasJob, Cancel, StopJobs
<1>5. Cleaning'
  BY DEF IInv, Cleaning, WorkerHasJob, Cancel, StopJobs
<1>6. Access'
  BY DEF IInv, Access, TypeOK, Cancel, StopJobs
<1>7. Orphans'
  BY DEF IInv, Orphans, TypeOK, WorkerHasJob, OrphanIsFound, Cancel, StopJobs
<1>8. SessionMatchesJobs'
  BY DEF IInv, SessionMatchesJobs, OneActive, Cancel, StopJobs
<1> QED
  BY <1>1, <1>2, <1>3, <1>4, <1>5, <1>6, <1>7, <1>8 DEF IInv

\* Only one job can be active when the conversation is retired.
LEMMA RetireIInv ==
  ASSUME IInv, Retire
  PROVE  IInv'
<1>1. TypeOK' /\ WorkerHasJob'
  BY DEF IInv, TypeOK, WorkerHasJob, Statuses, Retire, StopJobs, RejectPending
<1>2. OneActive' /\ BegunOnce' /\ Preparing'
  BY DEF IInv, OneActive, BegunOnce, Preparing, Retire, StopJobs
<1>3. ClaimedOnly' /\ Executors'
  BY DEF IInv, ClaimedOnly, Executors, WorkerHasJob, Retire, StopJobs
<1>4. Delivery' /\ StopWins'
  BY DEF IInv, Delivery, StopWins, TypeOK, WorkerHasJob, Retire, StopJobs
<1>5. Cleaning'
  BY DEF IInv, Cleaning, WorkerHasJob, Retire, StopJobs
<1>6. Access'
  BY DEF IInv, Access, TypeOK, Retire, StopJobs
<1>7. Orphans'
  BY DEF IInv, Orphans, TypeOK, WorkerHasJob, OrphanIsFound, Retire, StopJobs
<1>8. SessionMatchesJobs'
  BY DEF IInv, SessionMatchesJobs, Retire, StopJobs
<1> QED
  BY <1>1, <1>2, <1>3, <1>4, <1>5, <1>6, <1>7, <1>8 DEF IInv

\* The reaper queues again only what was never run.
LEMMA ReapIInv ==
  ASSUME IInv, NEW j \in Jobs, ReapRunning(j) \/ ReapClaimed(j)
  PROVE  IInv'
<1>1. TypeOK' /\ WorkerHasJob'
  BY DEF IInv, TypeOK, WorkerHasJob, Statuses, ReapRunning, ReapClaimed
<1>2. OneActive' /\ BegunOnce' /\ Preparing'
  BY DEF IInv, OneActive, BegunOnce, Preparing, TypeOK, ReapRunning, ReapClaimed
<1>3. ClaimedOnly' /\ Executors'
  BY DEF IInv, ClaimedOnly, Executors, TypeOK, WorkerHasJob, ReapRunning, ReapClaimed
<1>4. Delivery' /\ StopWins'
  BY DEF IInv, Delivery, StopWins, TypeOK, WorkerHasJob, ReapRunning, ReapClaimed
<1>5. Cleaning'
  BY DEF IInv, Cleaning, TypeOK, WorkerHasJob, ReapRunning, ReapClaimed
<1>6. Access'
  BY DEF IInv, Access, TypeOK, ReapRunning, ReapClaimed
<1>7. Orphans'
  BY DEF IInv, Orphans, TypeOK, WorkerHasJob, OrphanIsFound, ReapRunning, ReapClaimed
<1>8. SessionMatchesJobs'
  BY DEF IInv, SessionMatchesJobs, TypeOK, OneActive, ReapRunning, ReapClaimed
<1> QED
  BY <1>1, <1>2, <1>3, <1>4, <1>5, <1>6, <1>7, <1>8 DEF IInv

\* A claim takes a queued job, which was never run.
LEMMA ClaimIInv ==
  ASSUME IInv, NEW w \in Workers, NEW j \in Jobs, Claim(w, j)
  PROVE  IInv'
<1>1. TypeOK' /\ WorkerHasJob'
  BY DEF IInv, TypeOK, WorkerHasJob, Steps, Statuses, Worker, Claim
<1>2. OneActive' /\ BegunOnce' /\ Preparing'
  BY DEF IInv, OneActive, BegunOnce, Preparing, TypeOK, Claim
<1>3. ClaimedOnly' /\ Executors'
  BY DEF IInv, ClaimedOnly, Executors, Claim
<1>4. Delivery' /\ StopWins'
  BY DEF IInv, Delivery, StopWins, Claim
<1>5. Cleaning'
  BY DEF IInv, Cleaning, Claim
<1>6. Access'
  BY DEF IInv, Access, Claim
<1>7. Orphans'
  BY DEF IInv, Orphans, OrphanIsFound, Claim
<1>8. SessionMatchesJobs'
  BY DEF IInv, SessionMatchesJobs, TypeOK, Claim
<1> QED
  BY <1>1, <1>2, <1>3, <1>4, <1>5, <1>6, <1>7, <1>8 DEF IInv

LEMMA ListIInv ==
  ASSUME IInv, NEW w \in Workers, NEW j \in Jobs, ListFinalizing(w, j) \/ ListCleanup(w, j)
  PROVE  IInv'
<1> USE DEF IInv
<1>1. UNCHANGED <<row, request, outside, history, losses>>
  BY DEF ListFinalizing, ListCleanup
<1>2. /\ worker'[w].job = j
      /\ \/ worker'[w].step = "publish" /\ status[j] = "finalizing"
         \/ worker'[w].step = "cleanup" /\ status[j] = "cleanup_pending"
      /\ \A v \in Workers : v # w => worker'[v] = worker[v]
      /\ worker' \in [Workers -> Worker]
  BY DEF ListFinalizing, ListCleanup, TypeOK, Worker, Steps
<1>3. TypeOK' /\ WorkerHasJob'
  BY <1>1, <1>2 DEF TypeOK, WorkerHasJob
<1>4. OneActive' /\ BegunOnce' /\ Preparing' /\ StopWins' /\ SessionMatchesJobs'
  BY <1>1 DEF OneActive, BegunOnce, Preparing, StopWins, SessionMatchesJobs, NoActiveJob
<1>5. ClaimedOnly' /\ Executors'
  BY <1>1, <1>2 DEF ClaimedOnly, Executors
<1>6. Delivery'
  BY <1>1, <1>2 DEF Delivery, StopWins, Preparing
<1>7. Cleaning' /\ Access' /\ Orphans'
  BY <1>1, <1>2 DEF Cleaning, Access, Orphans, OrphanIsFound
<1> QED
  BY <1>3, <1>4, <1>5, <1>6, <1>7

\* The one step that begins an execution: it finds the job claimed by this
\* worker, so nobody has executed it before.
LEMMA MarkRunningIInv ==
  ASSUME IInv, NEW w \in Workers, MarkRunning(w)
  PROVE  IInv'
<1> USE DEF IInv
<1> DEFINE j == worker[w].job
<1>1. j \in Jobs /\ worker[w].step = "claimed"
  BY Busy DEF MarkRunning
<1>2. UNCHANGED <<claimed_by, attempt, cleanup, permission, session, request, outside>>
      /\ UNCHANGED <<stopped, overtaken, losses>>
  BY DEF MarkRunning
<1>3. CASE Holds(w, {"claimed"})
  <2>1. status[j] = "claimed" /\ claimed_by[j] = w /\ started[j] = 0
    BY <1>1, <1>3 DEF BegunOnce
  <2>2. /\ status' = [status EXCEPT ![j] = "running"]
        /\ started' = [started EXCEPT ![j] = @ + 1]
        /\ Step(w, "running")
    BY <1>3 DEF MarkRunning
  <2>3. /\ worker' \in [Workers -> Worker]
        /\ worker'[w].job = j /\ worker'[w].step = "running"
        /\ \A v \in Workers : v # w => worker'[v] = worker[v]
        /\ WorkerHasJob'
    BY <1>1, <2>2, StepEffect DEF Steps
  <2>4. /\ status' \in [Jobs -> Statuses] /\ started' \in [Jobs -> Nat]
        /\ status'[j] = "running" /\ started'[j] = 1
        /\ \A i \in Jobs : i # j => status'[i] = status[i] /\ started'[i] = started[i]
    BY <1>1, <2>1, <2>2 DEF TypeOK, Statuses
  <2> HIDE DEF j
  <2>5. TypeOK'
    BY <1>2, <2>3, <2>4 DEF TypeOK
  <2>6. OneActive' /\ BegunOnce' /\ Preparing' /\ StopWins'
    BY <1>1, <1>2, <2>1, <2>4 DEF OneActive, BegunOnce, Preparing, StopWins, TypeOK
  <2>7. ClaimedOnly'
    BY <1>1, <1>2, <2>1, <2>3, <2>4, Busy DEF ClaimedOnly, j
  <2>8. \A v \in Workers : On(v, Ended) => worker[v].job # j
    BY <2>1 DEF Executors
  <2>9. Executors'
    BY <1>1, <2>3, <2>4, <2>8, Busy DEF Executors
  <2>10. Delivery'
    BY <1>1, <1>2, <2>1, <2>3, <2>4, Busy DEF Delivery, TypeOK
  <2>11. Cleaning'
    BY <1>1, <1>2, <2>1, <2>3, <2>4, Busy DEF Cleaning
  <2>12. Access' /\ Orphans'
    BY <1>1, <1>2, <2>1, <2>3, <2>4, Busy DEF Access, Orphans, OrphanIsFound, TypeOK
  <2>13. SessionMatchesJobs'
    BY <1>1, <1>2, <2>1, <2>4 DEF SessionMatchesJobs, NoActiveJob
  <2> QED
    BY <2>3, <2>5, <2>6, <2>7, <2>9, <2>10, <2>11, <2>12, <2>13
<1>4. CASE ~Holds(w, {"claimed"})
  <2>1. Rest(w) /\ UNCHANGED <<status, started>>
    BY <1>4 DEF MarkRunning
  <2> QED
    BY <1>2, <2>1, RestIInv
<1> QED
  BY <1>3, <1>4

\* The execution proper moves one executor on.  Access is only obtained for a
\* job that is held, and a result comes when container and access are gone.
LEMMA ExecuteIInv ==
  ASSUME IInv, NEW w \in Workers,
         \/ FindSession(w) \/ Provision(w) \/ Issue(w) \/ Start(w)
         \/ Resume(w) \/ Finish(w) \/ Fail(w)
  PROVE  IInv'
<1> USE DEF IInv
<1> DEFINE j == worker[w].job
<1>1. /\ UNCHANGED <<row, request, answered, history, losses>>
      /\ worker[w].step \in Executing
      /\ \E s \in Ended : Step(w, s) /\ (s = "result" => Finish(w))
  BY DEF FindSession, Provision, Issue, Start, Resume, Finish, Fail
<1>2. j \in Jobs
  BY <1>1, Busy
<1>3. /\ worker' \in [Workers -> Worker]
      /\ worker'[w].job = j /\ worker'[w].step \in Ended
      /\ worker'[w].step = "result" => Finish(w)
      /\ \A v \in Workers : v # w => worker'[v] = worker[v]
      /\ WorkerHasJob'
  BY <1>1, StepEffect DEF Steps
<1>4. /\ grants' \subseteq grants \cup {j} /\ containers' \subseteq containers \cup {j}
      /\ grants' \subseteq grants \/ status[j] \in Held
      /\ Finish(w) => j \notin grants' \cup containers'
  BY DEF FindSession, Provision, Issue, Start, Resume, Finish, Fail
<1> HIDE DEF j
<1>5. TypeOK'
  BY <1>1, <1>2, <1>3, <1>4 DEF TypeOK
<1>6. OneActive' /\ BegunOnce' /\ Preparing' /\ StopWins' /\ SessionMatchesJobs'
  BY <1>1 DEF OneActive, BegunOnce, Preparing, StopWins, SessionMatchesJobs, NoActiveJob
<1>7. ClaimedOnly' /\ Executors'
  BY <1>1, <1>3 DEF ClaimedOnly, Executors, j
<1>8. Delivery'
  BY <1>1, <1>3 DEF Delivery
<1>9. j \in overtaken \/ status[j] \in Running
  BY <1>1 DEF Orphans, j
<1>10. \A v \in Workers : v # w /\ On(v, Ended) => worker[v].job # j
  BY <1>1 DEF Executors, j
<1>11. started[j] = 1 /\ status[j] \notin NotBegun
  BY <1>1, <1>2 DEF Executors, BegunOnce, j
<1>12. Cleaning'
  <2> SUFFICES ASSUME NEW v \in Workers, worker'[v].step \in {"cleanup", "aborted"}
               PROVE  /\ status[worker[v].job] \in Closed \cup {"cleanup_pending"}
                      /\ worker'[v] = worker[v]
                      /\ On(v, {"aborted"}) =>
                            /\ worker[v].job \notin grants'
                            /\ worker[v].job \notin overtaken =>
                                  /\ worker[v].job \notin containers'
                                  /\ \A u \in Workers : worker'[u].step \in Executing
                                                            => worker'[u].job # worker[v].job
    BY <1>1 DEF Cleaning
  <2>1. v # w /\ worker'[v] = worker[v]
    BY <1>3
  <2>2. status[worker[v].job] \in Closed \cup {"cleanup_pending"}
    BY <2>1 DEF Cleaning
  <2>3. ASSUME On(v, {"aborted"})
        PROVE  worker[v].job \notin grants'
    BY <1>4, <2>2, <2>3 DEF Cleaning
  <2>4. ASSUME On(v, {"aborted"}), worker[v].job \notin overtaken
        PROVE  worker[v].job \notin containers' /\ worker[v].job # j
    BY <1>1, <1>4, <2>4 DEF Cleaning, j
  <2> QED
    BY <1>3, <2>1, <2>2, <2>3, <2>4 DEF Cleaning
<1>13. Access'
  BY <1>1, <1>3, <1>4, <1>10, <1>11 DEF Access
<1>14. Orphans'
  BY <1>1, <1>3, <1>4, <1>9 DEF Orphans, OrphanIsFound
<1> QED
  BY <1>3, <1>5, <1>6, <1>7, <1>8, <1>12, <1>13, <1>14

\* An executor waits for a permission.
LEMMA AskIInv ==
  ASSUME IInv, NEW w \in Workers, Ask(w)
  PROVE  IInv'
<1>1. TypeOK' /\ WorkerHasJob'
  BY DEF IInv, TypeOK, WorkerHasJob, Steps, Statuses, Worker, Ask
<1>2. OneActive' /\ BegunOnce' /\ Preparing'
  BY DEF IInv, OneActive, BegunOnce, Preparing, Ask
<1>3. ClaimedOnly' /\ Executors'
  BY DEF IInv, ClaimedOnly, Executors, Ask
<1>4. Delivery' /\ StopWins'
  BY DEF IInv, Delivery, StopWins, Ask
<1>5. Cleaning'
  BY DEF IInv, Cleaning, Ask
<1>6. Access'
  BY DEF IInv, Access, Ask
<1>7. Orphans'
  BY DEF IInv, Orphans, OrphanIsFound, Ask
<1>8. SessionMatchesJobs'
  BY DEF IInv, SessionMatchesJobs, NoActiveJob, Ask
<1> QED
  BY <1>1, <1>2, <1>3, <1>4, <1>5, <1>6, <1>7, <1>8 DEF IInv

\* A worker closes a job it never ran, or leaves one it ran to the cleanup.
LEMMA GiveUpIInv ==
  ASSUME IInv, NEW w \in Workers, FailOverdue(w) \/ MarkCleanup(w)
  PROVE  IInv'
<1> USE DEF IInv
<1> DEFINE j == worker[w].job
<1>1. /\ UNCHANGED <<claimed_by, attempt, permission, request, outside, history, losses>>
      /\ worker[w].step # "idle" /\ Rest(w)
  BY DEF FailOverdue, MarkCleanup
<1>2. j \in Jobs
  BY <1>1, Busy
<1>3. CASE UNCHANGED <<status, cleanup, session>>
  BY <1>1, <1>3, RestIInv
<1>4. CASE ~UNCHANGED <<status, cleanup, session>>
  <2>1. \/ /\ status[j] = "claimed" /\ session' = "stopped"
           /\ status' = [status EXCEPT ![j] = "expired"]
           /\ cleanup' = [cleanup EXCEPT ![j] = "none"]
        \/ /\ status[j] \in Running /\ session' = "busy"
           /\ status' = [status EXCEPT ![j] = "cleanup_pending"]
           /\ \E c \in {"failed", "cancelled"} :
                 /\ cleanup' = [cleanup EXCEPT ![j] = c]
                 /\ status[j] = "cleanup_pending" /\ cleanup[j] = "cancelled" => c = "cancelled"
    <3>1. CASE FailOverdue(w)
      BY <1>4, <3>1 DEF FailOverdue, ClaimedOnly
    <3>2. CASE MarkCleanup(w)
      <4>1. started[j] = 1
        BY <3>2 DEF MarkCleanup, Executors
      <4>2. status[j] \in Running
        BY <1>2, <1>4, <3>2, <4>1 DEF MarkCleanup, BegunOnce
      <4> QED
        BY <1>4, <3>2, <4>2 DEF MarkCleanup
    <3> QED
      BY <3>1, <3>2
  <2>2. /\ worker' \in [Workers -> Worker]
        /\ worker'[w].step = "idle"
        /\ \A v \in Workers : v # w => worker'[v] = worker[v]
        /\ WorkerHasJob'
    BY <1>1, RestEffect
  <2> HIDE DEF j
  <2>3. /\ status' \in [Jobs -> Statuses] /\ cleanup' \in [Jobs -> {"none", "failed", "cancelled"}]
        /\ \A i \in Jobs : i # j => status'[i] = status[i] /\ cleanup'[i] = cleanup[i]
        /\ \/ status[j] = "claimed" /\ status'[j] = "expired" /\ session' = "stopped"
           \/ /\ status[j] \in Running /\ status'[j] = "cleanup_pending" /\ session' = "busy"
              /\ cleanup'[j] \in {"failed", "cancelled"}
              /\ status[j] = "cleanup_pending" /\ cleanup[j] = "cancelled"
                    => cleanup'[j] = "cancelled"
    BY <1>2, <2>1 DEF TypeOK, Statuses
  <2>4. TypeOK'
    BY <1>1, <2>2, <2>3 DEF TypeOK
  <2>5. OneActive' /\ BegunOnce' /\ Preparing' /\ StopWins'
    BY <1>1, <1>2, <2>3 DEF OneActive, BegunOnce, Preparing, StopWins, TypeOK
  <2>6. ClaimedOnly' /\ Executors'
    BY <1>1, <1>2, <2>2, <2>3, Busy DEF ClaimedOnly, Executors
  <2>7. Delivery' /\ Cleaning'
    BY <1>1, <1>2, <2>2, <2>3, Busy DEF Delivery, Cleaning, TypeOK
  <2>8. Access' /\ Orphans'
    BY <1>1, <1>2, <2>2, <2>3, Busy DEF Access, Orphans, OrphanIsFound, TypeOK
  <2>9. SessionMatchesJobs'
    BY <1>2, <2>3 DEF SessionMatchesJobs, OneActive, NoActiveJob
  <2> QED
    BY <2>2, <2>4, <2>5, <2>6, <2>7, <2>8, <2>9
<1> QED
  BY <1>3, <1>4

\* A result is stored for a job that runs: it was not stopped, and its
\* container and its access are gone.
LEMMA BeginFinalizationIInv ==
  ASSUME IInv, NEW w \in Workers, BeginFinalization(w)
  PROVE  IInv'
<1> USE DEF IInv
<1> DEFINE j == worker[w].job
<1>1. /\ UNCHANGED <<claimed_by, attempt, permission, session, request, outside, history, losses>>
      /\ worker[w].step = "result"
  BY DEF BeginFinalization
<1>2. j \in Jobs
  BY <1>1, Busy
<1>3. CASE ~Holds(w, Held)
  <2>1. Rest(w) /\ UNCHANGED <<status, cleanup>>
    BY <1>3 DEF BeginFinalization
  <2> QED
    BY <1>1, <2>1, RestIInv
<1>4. CASE Holds(w, Held)
  <2>1. started[j] = 1 /\ j \notin grants \cup containers
    BY <1>1 DEF Executors, Access
  <2>2. status[j] \in {"running", "waiting_permission"}
    BY <1>2, <1>4, <2>1 DEF BegunOnce
  <2>3. /\ status' = [status EXCEPT ![j] = "finalizing"]
        /\ cleanup' = [cleanup EXCEPT ![j] = "none"]
        /\ Step(w, "publish")
    BY <1>4 DEF BeginFinalization
  <2>4. /\ worker' \in [Workers -> Worker]
        /\ worker'[w].job = j /\ worker'[w].step = "publish"
        /\ \A v \in Workers : v # w => worker'[v] = worker[v]
        /\ WorkerHasJob'
    BY <1>1, <2>3, StepEffect DEF Steps
  <2>5. \A v \in Workers : v # w /\ On(v, Ended) => worker[v].job # j
    BY <1>1 DEF Executors
  <2> HIDE DEF j
  <2>6. /\ status' \in [Jobs -> Statuses] /\ cleanup' \in [Jobs -> {"none", "failed", "cancelled"}]
        /\ status'[j] = "finalizing"
        /\ \A i \in Jobs : i # j => status'[i] = status[i] /\ cleanup'[i] = cleanup[i]
    BY <1>2, <2>3 DEF TypeOK, Statuses
  <2>7. TypeOK'
    BY <1>1, <2>4, <2>6 DEF TypeOK
  <2>8. OneActive' /\ BegunOnce' /\ Preparing' /\ StopWins'
    BY <1>1, <1>2, <2>2, <2>6 DEF OneActive, BegunOnce, Preparing, StopWins, TypeOK
  <2>9. ClaimedOnly' /\ Executors'
    BY <1>1, <1>2, <2>4, <2>6, Busy DEF ClaimedOnly, Executors
  <2>10. Delivery'
    BY <1>1, <1>2, <2>2, <2>4, <2>6, Busy DEF Delivery, StopWins, Preparing, TypeOK
  <2>11. Cleaning' /\ Access'
    BY <1>1, <1>2, <2>1, <2>2, <2>4, <2>6, Busy DEF Cleaning, Access, TypeOK
  <2>12. Orphans'
    BY <1>1, <1>2, <2>1, <2>2, <2>4, <2>5, <2>6, Busy DEF Orphans, OrphanIsFound, TypeOK
  <2>13. SessionMatchesJobs'
    BY <1>1, <1>2, <2>2, <2>6 DEF SessionMatchesJobs, OneActive, NoActiveJob
  <2> QED
    BY <2>4, <2>7, <2>8, <2>9, <2>10, <2>11, <2>12, <2>13
<1> QED
  BY <1>3, <1>4

\* Delivery: a job that is being delivered was not stopped and ends as it may.
LEMMA DeliverIInv ==
  ASSUME IInv, NEW w \in Workers, FinalizeRead(w) \/ Send(w) \/ Close(w)
  PROVE  IInv'
<1> USE DEF IInv
<1> DEFINE j == worker[w].job
<1>1. /\ UNCHANGED <<claimed_by, attempt, cleanup, permission, request, containers, grants>>
      /\ UNCHANGED <<history, losses>>
      /\ worker[w].step \in Delivering
      /\ answered' \subseteq answered \cup {j}
  BY DEF FinalizeRead, Send, Close
<1>2. /\ j \in Jobs
      /\ j \notin stopped /\ attempt[j] # 0
      /\ status[j] \in {"finalizing", "succeeded", "cancelled"}
  BY <1>1, Busy DEF Delivery
<1>3. /\ worker' \in [Workers -> Worker]
      /\ \/ worker'[w].step = "idle"
         \/ worker'[w].job = j /\ worker'[w].step \in Delivering
      /\ \A v \in Workers : v # w => worker'[v] = worker[v]
      /\ WorkerHasJob'
  <2>1. Rest(w) \/ \E s \in Delivering : Step(w, s)
    BY DEF FinalizeRead, Send, Close
  <2> QED
    BY <1>1, <2>1, StepEffect, RestEffect DEF Steps
<1>4. /\ status' \in [Jobs -> Statuses]
      /\ \A i \in Jobs : i # j => status'[i] = status[i]
      /\ \/ status' = status /\ session' = session
         \/ status[j] = "finalizing" /\ status'[j] = "succeeded" /\ session' = "stopped"
  BY <1>2 DEF FinalizeRead, Send, Close, TypeOK, Statuses
<1> HIDE DEF j
<1>5. TypeOK'
  BY <1>1, <1>2, <1>3, <1>4 DEF TypeOK
<1>6. OneActive' /\ BegunOnce' /\ Preparing' /\ StopWins'
  BY <1>1, <1>2, <1>4 DEF OneActive, BegunOnce, Preparing, StopWins, TypeOK
<1>7. ClaimedOnly' /\ Executors'
  BY <1>1, <1>2, <1>3, <1>4, Busy DEF ClaimedOnly, Executors
<1>8. Delivery'
  BY <1>1, <1>2, <1>3, <1>4, Busy DEF Delivery, TypeOK
<1>9. Cleaning'
  BY <1>1, <1>2, <1>3, <1>4, Busy DEF Cleaning
<1>10. Access' /\ Orphans'
  BY <1>1, <1>2, <1>3, <1>4, Busy DEF Access, Orphans, OrphanIsFound, TypeOK
<1>11. SessionMatchesJobs'
  BY <1>2, <1>4 DEF SessionMatchesJobs, OneActive, NoActiveJob
<1> QED
  BY <1>3, <1>5, <1>6, <1>7, <1>8, <1>9, <1>10, <1>11

LEMMA AbortIInv ==
  ASSUME IInv, NEW w \in Workers, Abort(w)
  PROVE  IInv'
<1> USE DEF IInv
<1> DEFINE j == worker[w].job
<1>1. /\ UNCHANGED <<row, request, answered, started, stopped, losses>>
      /\ worker[w].step = "cleanup" /\ Step(w, "aborted")
      /\ containers' = containers \ {j} /\ grants' = grants \ {j}
  BY DEF Abort
<1>2. j \in Jobs
  BY <1>1, Busy
<1>3. /\ overtaken \subseteq overtaken' /\ overtaken' \subseteq overtaken \cup {j}
      /\ j \in overtaken' \/ \A v \in Workers : On(v, Executing) => worker[v].job # j
  BY DEF Abort, Overtake
<1>4. /\ worker' \in [Workers -> Worker]
      /\ worker'[w].job = j /\ worker'[w].step = "aborted"
      /\ \A v \in Workers : v # w => worker'[v] = worker[v]
      /\ WorkerHasJob'
  BY <1>1, StepEffect DEF Steps
<1> HIDE DEF j
<1>5. TypeOK'
  BY <1>1, <1>2, <1>3, <1>4 DEF TypeOK
<1>6. OneActive' /\ BegunOnce' /\ Preparing' /\ StopWins' /\ SessionMatchesJobs'
  BY <1>1 DEF OneActive, BegunOnce, Preparing, StopWins, SessionMatchesJobs, NoActiveJob
<1>7. ClaimedOnly' /\ Executors' /\ Delivery'
  BY <1>1, <1>4 DEF ClaimedOnly, Executors, Delivery
<1>8. Cleaning'
  BY <1>1, <1>3, <1>4 DEF Cleaning, j
<1>9. Access' /\ Orphans'
  BY <1>1, <1>3, <1>4 DEF Access, Orphans, OrphanIsFound
<1> QED
  BY <1>4, <1>5, <1>6, <1>7, <1>8, <1>9

\* When a cleanup closes the job there is no access left, and no container
\* either unless the cleanup overtook the executor.
LEMMA CompleteCleanupIInv ==
  ASSUME IInv, NEW w \in Workers, CompleteCleanup(w)
  PROVE  IInv'
<1> USE DEF IInv
<1> DEFINE j == worker[w].job
<1>1. /\ UNCHANGED <<claimed_by, attempt, permission, request, outside, history, losses>>
      /\ worker[w].step = "aborted" /\ Rest(w)
  BY DEF CompleteCleanup
<1>2. j \in Jobs
  BY <1>1, Busy
<1>3. CASE status[j] # "cleanup_pending"
  <2>1. UNCHANGED <<status, cleanup, session>>
    BY <1>3 DEF CompleteCleanup
  <2> QED
    BY <1>1, <2>1, RestIInv
<1>4. CASE status[j] = "cleanup_pending"
  <2>1. /\ j \notin grants
        /\ j \in overtaken \/ j \notin containers
        /\ j \in overtaken \/ \A v \in Workers : On(v, Executing) => worker[v].job # j
    BY <1>1 DEF Cleaning
  <2>2. /\ worker' \in [Workers -> Worker]
        /\ worker'[w].step = "idle"
        /\ \A v \in Workers : v # w => worker'[v] = worker[v]
        /\ WorkerHasJob'
    BY <1>1, RestEffect
  <2>3. /\ status' = [status EXCEPT ![j] = IF cleanup[j] = "none" THEN "failed" ELSE cleanup[j]]
        /\ cleanup' = [cleanup EXCEPT ![j] = "none"]
        /\ session' = "stopped"
    BY <1>4 DEF CompleteCleanup
  <2> HIDE DEF j
  <2>4. /\ status' \in [Jobs -> Statuses] /\ cleanup' \in [Jobs -> {"none", "failed", "cancelled"}]
        /\ status'[j] \in {"failed", "cancelled"}
        /\ cleanup[j] = "cancelled" => status'[j] = "cancelled"
        /\ \A i \in Jobs : i # j => status'[i] = status[i] /\ cleanup'[i] = cleanup[i]
    BY <1>2, <2>3 DEF TypeOK, Statuses
  <2>5. TypeOK'
    BY <1>1, <2>2, <2>3, <2>4 DEF TypeOK
  <2>6. OneActive' /\ BegunOnce' /\ Preparing' /\ StopWins'
    BY <1>1, <1>2, <1>4, <2>4 DEF OneActive, BegunOnce, Preparing, StopWins, TypeOK
  <2>7. ClaimedOnly' /\ Executors'
    BY <1>1, <1>2, <1>4, <2>2, <2>4, Busy DEF ClaimedOnly, Executors
  <2>8. Delivery' /\ Cleaning'
    BY <1>1, <1>2, <1>4, <2>2, <2>4, Busy DEF Delivery, Cleaning, TypeOK
  <2>9. Access' /\ Orphans'
    BY <1>1, <1>2, <1>4, <2>1, <2>2, <2>4, Busy DEF Access, Orphans, OrphanIsFound, TypeOK
  <2>10. SessionMatchesJobs'
    BY <1>2, <1>4, <2>3, <2>4 DEF SessionMatchesJobs, OneActive, NoActiveJob
  <2> QED
    BY <2>2, <2>5, <2>6, <2>7, <2>8, <2>9, <2>10
<1> QED
  BY <1>3, <1>4

\* A worker dies: what it leaves behind is found by the next.
LEMMA LoseIInv ==
  ASSUME IInv, NEW w \in Workers, Lose(w)
  PROVE  IInv'
<1>1. TypeOK' /\ WorkerHasJob'
  BY DEF IInv, TypeOK, WorkerHasJob, Steps, Worker, Idle, Lose
<1>2. OneActive' /\ BegunOnce' /\ Preparing'
  BY DEF IInv, OneActive, BegunOnce, Preparing, Lose
<1>3. ClaimedOnly' /\ Executors'
  BY DEF IInv, ClaimedOnly, Executors, Idle, Lose
<1>4. Delivery' /\ StopWins'
  BY DEF IInv, Delivery, StopWins, Idle, Lose
<1>5. Cleaning'
  BY DEF IInv, Cleaning, Idle, Lose
<1>6. Access'
  BY DEF IInv, Access, Idle, Lose
<1>7. Orphans'
  BY DEF IInv, Orphans, OrphanIsFound, Idle, Lose
<1>8. SessionMatchesJobs'
  BY DEF IInv, SessionMatchesJobs, NoActiveJob, Lose
<1> QED
  BY <1>1, <1>2, <1>3, <1>4, <1>5, <1>6, <1>7, <1>8 DEF IInv

-----------------------------------------------------------------------------
LEMMA InitIInv == Init => IInv
<1> SUFFICES ASSUME Init PROVE IInv
  OBVIOUS
<1>1. TypeOK /\ WorkerHasJob
  BY DEF Init, TypeOK, WorkerHasJob, Worker, Idle, Steps, Statuses
<1>2. OneActive /\ BegunOnce /\ Preparing /\ ClaimedOnly /\ Executors /\ Delivery
  BY DEF Init, OneActive, BegunOnce, Preparing, ClaimedOnly, Executors, Delivery, Idle
<1>3. Cleaning /\ Access /\ Orphans /\ StopWins /\ SessionMatchesJobs
  BY DEF Init, Cleaning, Access, Orphans, OrphanIsFound, StopWins, SessionMatchesJobs,
         NoActiveJob, Idle
<1> QED
  BY <1>1, <1>2, <1>3 DEF IInv

LEMMA NextIInv == IInv /\ [Next]_vars => IInv'
<1> SUFFICES ASSUME IInv, [Next]_vars PROVE IInv'
  OBVIOUS
<1>1. CASE Activity
  BY <1>1, GiveUpIInv, DeliverIInv, CompleteCleanupIInv, UnstartedIInv, CancelIInv DEF Activity
<1>2. CASE Quiet
  BY <1>2, MarkRunningIInv, ExecuteIInv, AskIInv, GiveUpIInv, BeginFinalizationIInv,
     DeliverIInv, AbortIInv, LoseIInv, ReserveIInv, RequestIInv, UnstartedIInv, ClaimIInv,
     ListIInv, ReapIInv, RespondIInv
     DEF Quiet, TakeUp, Reap
<1>3. CASE Retire \/ MarkForPurge \/ MarkPurged \/ Reopen
  BY <1>3, RetireIInv, SessionIInv
<1>4. CASE \/ \E j \in Jobs : Touch(j)
           \/ \E w \in Workers : Provision(w)
  BY <1>4, RequestIInv, ExecuteIInv
<1>5. CASE UNCHANGED vars
  BY <1>5 DEF IInv, TypeOK, WorkerHasJob, OneActive, BegunOnce, Preparing, ClaimedOnly,
              Executors, Delivery, Cleaning, Access, Orphans, OrphanIsFound, StopWins,
              SessionMatchesJobs, NoActiveJob
<1> QED
  BY <1>1, <1>2, <1>3, <1>4, <1>5 DEF Next

LEMMA Invariant == Spec => []IInv
  BY InitIInv, NextIInv, PTL DEF Spec

-----------------------------------------------------------------------------
\* Every reachable state has its type (sqlalchemy_repository.py).
THEOREM TypeCorrect == Spec => []TypeOK
  BY Invariant, PTL DEF IInv

\* A prompt is executed once at most, however many workers claim, reap and
\* recover its job (claim_next_job, mark_job_running, reap_stale_jobs).
THEOREM NeverRunAgain == Spec => []ExecutedOnce
<1>1. IInv => ExecutedOnce
  BY DEF IInv, BegunOnce, ExecutedOnce
<1> QED
  BY <1>1, Invariant, PTL

\* An accepted stop is never followed by the answer (cancel_job against
\* begin_job_finalization and mark_cleanup_pending).
THEOREM StopIsFinal == Spec => []StopWins
  BY Invariant, PTL DEF IInv

\* A closed job has no access to the model gateway (issue, abort_job,
\* complete_cleanup).
THEOREM AccessIsRevoked == Spec => []AccessEndsWithJob
<1>1. IInv => AccessEndsWithJob
  BY DEF IInv, Access, AccessEndsWithJob
<1> QED
  BY <1>1, Invariant, PTL

\* A container outlives its job only if a cleanup overtook its worker
\* (runtime_runner.start against abort_job).
THEOREM OrphansAreFound == Spec => []OrphanIsFound
<1>1. IInv => OrphanIsFound
  BY DEF IInv, Orphans
<1> QED
  BY <1>1, Invariant, PTL

\* The status of the session and the statuses of its jobs agree, and the
\* fence of the retention stands over idle sessions only.
THEOREM SessionAgrees == Spec => []SessionMatchesJobs
  BY Invariant, PTL DEF IInv

-----------------------------------------------------------------------------
(* What becomes of the status of a job, step by step.                      *)

\* A closed row is rewritten only by the handler that gave its reservation up.
LEMMA ClosedStays ==
  ASSUME IInv, [Next]_vars, NEW j \in Jobs, status[j] \in Closed
  PROVE  status'[j] = status[j] \/ request[j] = "failing"
<1>0. status \in [Jobs -> Statuses]
  BY DEF IInv, TypeOK
<1>1. CASE Activity
  BY <1>0, <1>1 DEF Activity, FailOverdue, Close, CompleteCleanup, Activate, Cancel,
     StopJobs
<1>2. CASE \E w \in Workers :
               \/ MarkRunning(w) \/ FindSession(w) \/ Issue(w) \/ Start(w) \/ Ask(w)
               \/ Resume(w) \/ Finish(w) \/ Fail(w) \/ MarkCleanup(w) \/ Provision(w)
               \/ BeginFinalization(w) \/ FinalizeRead(w) \/ Send(w) \/ Abort(w) \/ Lose(w)
  BY <1>0, <1>2 DEF MarkRunning, FindSession, Issue, Start, Ask, Resume, Finish, Fail,
     MarkCleanup, Provision, BeginFinalization, FinalizeRead, Send, Abort, Lose
<1>3. CASE \E i \in Jobs :
               \/ Reserve(i) \/ FailPreparedRead(i) \/ FailPreparedWrite(i) \/ Touch(i)
               \/ LoseRequest(i) \/ TakeUp(i) \/ Reap(i) \/ Respond(i) \/ FailUnstarted(i)
  BY <1>0, <1>3 DEF Reserve, FailPreparedRead, FailPreparedWrite, Touch, LoseRequest,
     TakeUp, Claim, ListFinalizing, ListCleanup, Reap, ReapRunning, ReapClaimed, Respond,
     FailUnstarted
<1>4. CASE Retire \/ MarkForPurge \/ MarkPurged \/ Reopen \/ UNCHANGED vars
  BY <1>0, <1>4 DEF Retire, StopJobs, MarkForPurge, MarkPurged, Reopen, SetSession
<1> QED
  BY <1>1, <1>2, <1>3, <1>4 DEF Next, Quiet

\* A job that a worker ever claimed ends once: no reaper, stop, late result or
\* recovery of it changes the end.  (A handler may report a failed preparation over
\* a stop, by id: fail_prepared_job.)
THEOREM EndStands ==
    Spec => [][\A j \in Jobs : status[j] \in Closed /\ attempt[j] # 0
                                   => status'[j] = status[j]]_vars
<1>1. IInv /\ [Next]_vars => [\A j \in Jobs : status[j] \in Closed /\ attempt[j] # 0
                                                 => status'[j] = status[j]]_vars
  BY ClosedStays DEF IInv, Preparing
<1> QED
  BY <1>1, Invariant, PTL DEF Spec

\* A job that waits for a worker has an attempt left.
AttemptInv == \A j \in Jobs :
    /\ attempt[j] <= MaxAttempts
    /\ status[j] = "queued" => attempt[j] < MaxAttempts

LEMMA NextAttemptInv ==
  ASSUME IInv, AttemptInv, [Next]_vars
  PROVE  AttemptInv'
<1>0. status \in [Jobs -> Statuses] /\ attempt \in [Jobs -> Nat]
  BY DEF IInv, TypeOK
<1>1. ASSUME NEW w \in Workers, NEW i \in Jobs, Claim(w, i)
      PROVE  AttemptInv'
  BY <1>0, <1>1 DEF Claim, AttemptInv
<1>2. ASSUME NEW i \in Jobs, Activate(i)
      PROVE  AttemptInv'
  <2>1. attempt[i] = 0 /\ UNCHANGED attempt
    BY <1>2 DEF Activate, IInv, Preparing
  <2> QED
    BY <1>0, <1>2, <2>1 DEF Activate, AttemptInv
<1>3. ASSUME NEW i \in Jobs, ReapClaimed(i)
      PROVE  AttemptInv'
  <2>1. UNCHANGED attempt
    BY <1>3 DEF ReapClaimed
  <2>2. \A k \in Jobs : \/ status'[k] = status[k] \/ status'[k] # "queued"
                        \/ attempt[k] < MaxAttempts
    BY <1>0, <1>3 DEF ReapClaimed
  <2> QED
    BY <2>1, <2>2 DEF AttemptInv
<1>4. ASSUME UNCHANGED attempt,
             \A k \in Jobs : status'[k] = status[k] \/ status'[k] # "queued"
      PROVE  AttemptInv'
  BY <1>4 DEF AttemptInv
<1>5. CASE \E w \in Workers :
               \/ FailOverdue(w) \/ Close(w) \/ CompleteCleanup(w)
               \/ MarkRunning(w) \/ FindSession(w) \/ Issue(w) \/ Start(w) \/ Ask(w)
               \/ Resume(w) \/ Finish(w) \/ Fail(w) \/ MarkCleanup(w) \/ Provision(w)
               \/ BeginFinalization(w) \/ FinalizeRead(w) \/ Send(w) \/ Abort(w) \/ Lose(w)
  <2>1. UNCHANGED attempt
    BY <1>5 DEF FailOverdue, Close, CompleteCleanup, MarkRunning, FindSession, Issue,
       Start, Ask, Resume, Finish, Fail, MarkCleanup, Provision, BeginFinalization,
       FinalizeRead, Send, Abort, Lose
  <2>2. \A k \in Jobs : status'[k] = status[k] \/ status'[k] # "queued"
    BY <1>0, <1>5 DEF FailOverdue, Close, CompleteCleanup, MarkRunning, FindSession,
       Issue, Start, Ask, Resume, Finish, Fail, MarkCleanup, Provision,
       BeginFinalization, FinalizeRead, Send, Abort, Lose, IInv, TypeOK
  <2> QED
    BY <1>4, <2>1, <2>2
<1>6. CASE \E i \in Jobs :
               \/ Cancel(i) \/ Reserve(i) \/ FailPreparedRead(i) \/ FailPreparedWrite(i)
               \/ Touch(i) \/ LoseRequest(i) \/ ReapRunning(i) \/ Respond(i)
               \/ FailUnstarted(i) \/ \E w \in Workers : ListFinalizing(w, i)
               \/ \E w \in Workers : ListCleanup(w, i)
  <2>1. UNCHANGED attempt
    BY <1>6 DEF Cancel, Reserve, FailPreparedRead, FailPreparedWrite, Touch,
       LoseRequest, ReapRunning, Respond, FailUnstarted, ListFinalizing, ListCleanup
  <2>2. \A k \in Jobs : status'[k] = status[k] \/ status'[k] # "queued"
    BY <1>0, <1>6 DEF Cancel, StopJobs, Reserve, FailPreparedRead, FailPreparedWrite,
       Touch, LoseRequest, ReapRunning, Respond, FailUnstarted, ListFinalizing,
       ListCleanup
  <2> QED
    BY <1>4, <2>1, <2>2
<1>7. CASE Retire \/ MarkForPurge \/ MarkPurged \/ Reopen \/ UNCHANGED vars
  BY <1>0, <1>4, <1>7 DEF Retire, StopJobs, MarkForPurge, MarkPurged, Reopen,
     SetSession
<1> QED
  BY <1>1, <1>2, <1>3, <1>5, <1>6, <1>7 DEF Next, Activity, Quiet, TakeUp, Reap

\* A job is claimed max_attempts times at most, however often its workers fall
\* silent before they begin (claim_next_job, reap_stale_jobs).
THEOREM ClaimsAreBounded == Spec => [](\A j \in Jobs : attempt[j] <= MaxAttempts)
<1>1. Init => AttemptInv
  BY DEF Init, AttemptInv
<1>2. IInv /\ AttemptInv /\ [Next]_vars => AttemptInv'
  BY NextAttemptInv
<1>3. AttemptInv => \A j \in Jobs : attempt[j] <= MaxAttempts
  BY DEF AttemptInv
<1> QED
  BY <1>1, <1>2, <1>3, Invariant, PTL DEF Spec
=============================================================================
