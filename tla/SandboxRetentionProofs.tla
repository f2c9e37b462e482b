----------------------- MODULE SandboxRetentionProofs -----------------------
(***************************************************************************)
(* The composed specification implements AiSandboxJobs, so what is proved   *)
(* of the jobs holds next to any number of sweeps; a sweep fences only a    *)
(* session whose lease has run out; and what a sweep reports as purged is   *)
(* gone, as long as the fence held.                                        *)
(***************************************************************************)
EXTENDS SandboxRetention, AiSandboxJobsProofs

USE RetentionAssumption
USE DEF row, outside, history, vars, SetStatus, SetRequest, Step, Rest

\* Nothing but a sweep puts the fence up, or declares a session purged.
LEMMA OnlyMarkFences ==
  ASSUME Activity \/ Quiet \/ Retire \/ Reopen
         \/ (\E j \in Jobs : Touch(j)) \/ (\E w \in Workers : Provision(w))
  PROVE  session' \in Fenced => session' = session
<1> USE DEF Fenced
<1>1. CASE Activity
  BY <1>1 DEF Activity, FailOverdue, Close, CompleteCleanup, Activate, Cancel, StopJobs
<1>2. CASE \E w \in Workers : \/ MarkRunning(w) \/ FindSession(w) \/ Issue(w) \/ Start(w)
                              \/ Ask(w) \/ Resume(w) \/ Finish(w) \/ Fail(w)
                              \/ MarkCleanup(w) \/ BeginFinalization(w) \/ FinalizeRead(w)
                              \/ Send(w) \/ Abort(w) \/ Lose(w)
  BY <1>2 DEF MarkRunning, FindSession, Issue, Start, Ask, Resume, Finish, Fail, MarkCleanup,
              BeginFinalization, FinalizeRead, Send, Abort, Lose
<1>3. CASE \E j \in Jobs : \/ Reserve(j) \/ FailPreparedRead(j) \/ FailPreparedWrite(j)
                           \/ LoseRequest(j) \/ TakeUp(j) \/ Reap(j) \/ Respond(j)
                           \/ FailUnstarted(j)
  BY <1>3 DEF Reserve, FailPreparedRead, FailPreparedWrite, LoseRequest, TakeUp, Claim,
              ListFinalizing, ListCleanup, Reap, ReapRunning, ReapClaimed, Respond, FailUnstarted
<1>4. CASE \/ Retire \/ Reopen \/ \E j \in Jobs : Touch(j)
           \/ \E w \in Workers : Provision(w)
  BY <1>4 DEF Retire, StopJobs, Reopen, SetSession, Touch, Provision
<1> QED
  BY <1>1, <1>2, <1>3, <1>4 DEF Quiet

-----------------------------------------------------------------------------
LEMMA StepRefines == [RNext]_rvars => [Next]_vars
<1> SUFFICES ASSUME RNext \/ UNCHANGED rvars PROVE [Next]_vars
  BY DEF rvars
<1>1. CASE ActivityStep \/ QuietStep \/ RetireSession \/ ReopenSession \/ Expire
  BY <1>1 DEF ActivityStep, QuietStep, RetireSession, ReopenSession, Expire, Next
<1>2. CASE \E j \in Jobs : TouchSession(j)
  BY <1>2 DEF TouchSession, Next
<1>3. CASE \E w \in Workers : ProvisionWorkspace(w)
  BY <1>3 DEF ProvisionWorkspace, Next
<1>4. CASE \E p \in Purgers : Sweep(p) \/ Abandon(p)
  BY <1>4 DEF Sweep, ListExpired, ListStale, Mark, Pass, Look, Rename, Delete, Report,
              Abandon, Next
<1>5. CASE UNCHANGED rvars
  BY <1>5 DEF rvars
<1> QED
  BY <1>1, <1>2, <1>3, <1>4, <1>5 DEF RNext

\* The sweeps change jobs and sessions only as AiSandboxJobs lets them
\* (purge_expired_once, mark_session_for_purge, mark_session_purged).
THEOREM RetentionRefines == RSpec => ImplementsJobs
<1>1. RInit => Init
  BY DEF RInit
<1> QED
  BY <1>1, StepRefines, PTL DEF RSpec, Spec, ImplementsJobs

\* However many sweeps purge, a session with an active job is not fenced
\* (reserve_job and mark_session_for_purge, both under the session's lock).
THEOREM NoPurgeUnderJob == RSpec => []SessionMatchesJobs
  BY RetentionRefines, SessionAgrees, PTL DEF ImplementsJobs

-----------------------------------------------------------------------------
Purging == {"marked", "rename", "delete", "deleted"}

Tokens == /\ session = "purging" => purges # 0
          /\ \A p \in Purgers : purger[p].step \in Purging => purger[p].token # 0

Lease == unread # {} => expired

RInv == RTypeOK /\ Tokens /\ Lease

LEMMA RInitInv == RInit => RInv
<1> SUFFICES ASSUME RInit PROVE RInv
  OBVIOUS
<1>1. TypeOK
  BY InitIInv DEF RInit, IInv
<1>2. session # "purging"
  BY DEF RInit, Init
<1>3. /\ expired = FALSE /\ unread = {} /\ purges = 0 /\ workspace = 0 /\ tombstones = {}
      /\ purger = [p \in Purgers |-> [step |-> "idle", token |-> 0]]
      /\ unfenced = FALSE /\ deaths = 0
  BY DEF RInit
<1>4. purger \in [Purgers -> [step : PurgerSteps, token : 0 .. MaxPurges]]
  BY <1>3 DEF PurgerSteps
<1>5. RTypeOK
  <2>1. expired \in BOOLEAN /\ unfenced \in BOOLEAN
    BY <1>3
  <2> QED
    BY <1>1, <1>3, <1>4, <2>1 DEF RTypeOK
<1>6. Tokens /\ Lease
  BY <1>2, <1>3 DEF Tokens, Lease, Purging
<1> QED
  BY <1>5, <1>6 DEF RInv

LEMMA PurgerEffect ==
  ASSUME RInv, NEW p \in Purgers, NEW s \in PurgerSteps, NEW t \in 0 .. MaxPurges,
         s \in Purging => t # 0, PurgerStep(p, s, t)
  PROVE  /\ purger' \in [Purgers -> [step : PurgerSteps, token : 0 .. MaxPurges]]
         /\ \A q \in Purgers : purger'[q].step \in Purging => purger'[q].token # 0
         /\ unfenced' \in BOOLEAN /\ deaths' \in Nat
  BY DEF RInv, RTypeOK, Tokens, PurgerStep

\* A sweep starts on a listing made of an expired session, and carries a
\* token that was issued.
LEMMA SweepInv ==
  ASSUME RInv, TypeOK', NEW p \in Purgers, Sweep(p)
  PROVE  RInv'
<1> USE DEF RInv
<1> DEFINE t == purger[p].token
<1>1. purges \in Nat /\ purges <= MaxPurges /\ t \in 0 .. MaxPurges
  BY DEF RTypeOK
<1>2. CASE ListExpired(p) \/ Pass(p)
  <2>1. \E s \in {"listed", "idle"} : PurgerStep(p, s, 0)
    BY <1>2 DEF ListExpired, Pass
  <2>2. /\ UNCHANGED <<vars, expired, purges, disk>>
        /\ unread' \subseteq Purgers /\ (unread' # {} => expired)
    BY <1>2 DEF ListExpired, Pass, RTypeOK, Lease
  <2> QED
    BY <1>1, <2>1, <2>2, PurgerEffect DEF RTypeOK, Tokens, Lease, Purging, PurgerSteps, disk
<1>3. CASE ListStale(p)
  <2>1. purges # 0 /\ purges \in 0 .. MaxPurges
    BY <1>3 DEF ListStale, Tokens, RTypeOK
  <2>2. /\ purger' = [purger EXCEPT ![p] = [step |-> "marked", token |-> purges]]
        /\ unfenced' \in BOOLEAN
        /\ UNCHANGED <<vars, expired, unread, purges, disk, deaths>>
    BY <1>3 DEF ListStale, RTypeOK
  <2> QED
    BY <2>1, <2>2 DEF RTypeOK, Tokens, Lease, PurgerSteps, disk
<1>4. CASE Mark(p)
  <2>1. /\ purges' = purges + 1 /\ purges' \in 0 .. MaxPurges /\ purges' # 0
        /\ PurgerStep(p, "marked", purges')
        /\ unread' = unread \ {p}
        /\ UNCHANGED <<expired, disk>>
    BY <1>1, <1>4 DEF Mark, RetentionAssumption
  <2> QED
    BY <1>1, <2>1, PurgerEffect DEF RTypeOK, Tokens, Lease, PurgerSteps, disk
<1>5. CASE Look(p) \/ Rename(p) \/ Delete(p)
  <2>1. t \in 1 .. MaxPurges
    BY <1>1, <1>5 DEF Look, Rename, Delete, At, Tokens, Purging
  <2>2. \E s \in Purging : PurgerStep(p, s, t)
    BY <1>5 DEF Look, Rename, Delete, Purging
  <2>3. /\ UNCHANGED <<vars, expired, unread, purges>>
        /\ workspace' \in {0, workspace}
        /\ tombstones' \subseteq tombstones \cup {t}
    BY <1>5 DEF Look, Rename, Delete, disk
  <2>4. /\ workspace' \in 0 .. MaxPurges + 1
        /\ tombstones' \subseteq 1 .. MaxPurges
    BY <1>1, <2>1, <2>3 DEF RTypeOK
  <2> QED
    BY <1>1, <2>1, <2>2, <2>3, <2>4, PurgerEffect
       DEF RTypeOK, Tokens, Lease, Purging, PurgerSteps
<1>6. CASE Report(p)
  <2>1. session' = "purging" => session = "purging"
    BY <1>6 DEF Report, MarkPurged, SetSession
  <2>2. PurgerStep(p, "idle", 0) /\ UNCHANGED <<expired, unread, purges, disk>>
    BY <1>6 DEF Report
  <2> QED
    BY <1>1, <2>1, <2>2, PurgerEffect DEF RTypeOK, Tokens, Lease, Purging, PurgerSteps, disk
<1> QED
  BY <1>2, <1>3, <1>4, <1>5, <1>6 DEF Sweep

LEMMA RNextInv ==
  ASSUME RInv, TypeOK', [RNext]_rvars
  PROVE  RInv'
<1> USE DEF RInv
<1>1. CASE ActivityStep \/ QuietStep \/ RetireSession \/ ReopenSession
           \/ \E j \in Jobs : TouchSession(j)
  <2>1. session' = "purging" => session = "purging"
    BY <1>1, OnlyMarkFences
       DEF Fenced, ActivityStep, QuietStep, RetireSession, ReopenSession, TouchSession
  <2>2. /\ UNCHANGED <<purges, disk, purger, deaths>>
        /\ unfenced' \in BOOLEAN /\ expired' \in BOOLEAN
        /\ unread' \subseteq unread /\ (unread' # {} => expired')
    BY <1>1 DEF ActivityStep, QuietStep, RetireSession, ReopenSession, TouchSession,
                sweeps, RTypeOK, Lease
  <2> QED
    BY <2>1, <2>2 DEF RTypeOK, Tokens, Lease, disk
<1>2. CASE Expire
  BY <1>2 DEF Expire, RTypeOK, Tokens, Lease, sweeps, disk
<1>3. CASE \E w \in Workers : ProvisionWorkspace(w)
  <2>1. session' = "purging" => session = "purging"
    BY <1>3, OnlyMarkFences DEF ProvisionWorkspace, Fenced
  <2>2. /\ UNCHANGED <<expired, unread, purges, tombstones, sweeps>>
        /\ workspace' \in {workspace, purges + 1}
    BY <1>3 DEF ProvisionWorkspace
  <2>3. workspace' \in 0 .. MaxPurges + 1
    BY <2>2 DEF RTypeOK
  <2> QED
    BY <2>1, <2>2, <2>3 DEF RTypeOK, Tokens, Lease, sweeps
<1>4. CASE \E p \in Purgers : Sweep(p)
  BY <1>4, SweepInv
<1>5. CASE \E p \in Purgers : Abandon(p)
  BY <1>5 DEF Abandon, RTypeOK, Tokens, Lease, Purging, PurgerSteps, disk
<1>6. CASE UNCHANGED rvars
  BY <1>6 DEF rvars, RTypeOK, Tokens, Lease, disk, sweeps
<1> QED
  BY <1>1, <1>2, <1>3, <1>4, <1>5, <1>6 DEF RNext

LEMMA RInvariant == RSpec => []RInv
<1>1. RInv /\ TypeOK' /\ [RNext]_rvars => RInv'
  BY RNextInv
<1>2. RSpec => []TypeOK
  BY RetentionRefines, TypeCorrect, PTL DEF ImplementsJobs
<1> QED
  BY <1>1, <1>2, RInitInv, PTL DEF RSpec

-----------------------------------------------------------------------------
\* Every reachable state of the composition has its type, and every tombstone
\* carries a token that was issued.
THEOREM RTypeCorrect == RSpec => []RTypeOK
  BY RInvariant, PTL DEF RInv

\* A sweep never fences a session whose lease was extended since it was
\* listed (mark_session_for_purge compares last_activity_at).
THEOREM LeaseIsRespected == RSpec => PurgeOnlyExpired
<1>1. ASSUME RInv, [RNext]_rvars
      PROVE  session' = "purging" => session = "purging" \/ expired
  <2>1. CASE \/ ActivityStep \/ QuietStep \/ RetireSession \/ ReopenSession
             \/ \E j \in Jobs : TouchSession(j)
             \/ \E w \in Workers : ProvisionWorkspace(w)
    BY <2>1, OnlyMarkFences DEF Fenced, ActivityStep, QuietStep, RetireSession, ReopenSession,
                                TouchSession, ProvisionWorkspace
  <2>2. CASE \E p \in Purgers : Mark(p)
    BY <1>1, <2>2 DEF Mark, RInv, Lease
  <2>3. CASE \E p \in Purgers : \/ ListExpired(p) \/ ListStale(p) \/ Pass(p) \/ Look(p)
                                \/ Rename(p) \/ Delete(p) \/ Report(p) \/ Abandon(p)
    BY <2>3 DEF ListExpired, ListStale, Pass, Look, Rename, Delete, Report, MarkPurged,
                SetSession, Abandon
  <2>4. CASE Expire \/ UNCHANGED rvars
    BY <2>4 DEF Expire, rvars
  <2> QED
    BY <1>1, <2>1, <2>2, <2>3, <2>4 DEF RNext, Sweep
<1>2. RInv /\ [RNext]_rvars
        => [session' = "purging" => session = "purging" \/ expired]_rvars
  BY <1>1
<1> QED
  BY <1>2, RInvariant, PTL DEF RSpec, PurgeOnlyExpired

-----------------------------------------------------------------------------
(* What reads purged is deleted.  As long as nobody who was given up on is at *)
(* work, the fence belongs to the one sweep that holds the token of the row,  *)
(* and what the sweep has seen of the disk stays so: a worker that may still   *)
(* make a workspace has an active job, and with one there is no fence.        *)

Exclusive ==
    /\ \A p \in Purgers : purger[p].step \in Purging =>
           session = "purging" /\ purger[p].token = purges
    /\ \A p, q \in Purgers :
           purger[p].step \in Purging /\ purger[q].step \in Purging => p = q

Detached ==
    /\ session # "purging" => tombstones = {}
    /\ tombstones \subseteq {purges}
    /\ tombstones # {} \/ session = "purged" => workspace = 0
    /\ session = "purging" => workspace <= purges
    /\ \A p \in Purgers : /\ purger[p].step \in {"delete", "deleted"} => workspace = 0
                          /\ purger[p].step = "deleted" => tombstones = {}

Kept == Undoubted => Exclusive /\ Detached

\* A workspace is made under the next token at the latest.
Numbered == workspace <= purges + 1

\* A step that changes the status of the session belongs to an active job.
LEMMA ActiveBehindActivity ==
  ASSUME IInv, Activity, session' # session
  PROVE  \E j \in Jobs : status[j] \in Active
<1> USE DEF Active, Held, Holds
<1>1. ASSUME NEW w \in Workers, FailOverdue(w) \/ Close(w) \/ CompleteCleanup(w)
      PROVE  \E j \in Jobs : status[j] \in Active
  <2>1. worker[w].job \in Jobs
    BY <1>1, Busy DEF FailOverdue, Close, CompleteCleanup
  <2>2. status[worker[w].job] \in Held \cup {"finalizing", "cleanup_pending"}
    BY <1>1 DEF FailOverdue, Close, CompleteCleanup
  <2> QED
    BY <2>1, <2>2
<1>2. ASSUME NEW j \in Jobs, Activate(j) \/ Cancel(j)
      PROVE  \E i \in Jobs : status[i] \in Active
  BY <1>2 DEF Activate, Cancel
<1> QED
  BY <1>1, <1>2 DEF Activity

LEMMA ActiveBehindQuiet ==
  ASSUME IInv, Quiet, session' # session
  PROVE  \E j \in Jobs : status[j] \in Active
<1> USE DEF Active, Held, Holds
<1>1. ASSUME NEW w \in Workers,
             \/ MarkRunning(w) \/ FindSession(w) \/ Issue(w) \/ Start(w) \/ Ask(w)
             \/ Resume(w) \/ Finish(w) \/ Fail(w) \/ BeginFinalization(w)
             \/ FinalizeRead(w) \/ Send(w) \/ Abort(w) \/ Lose(w)
      PROVE  FALSE
  BY <1>1 DEF MarkRunning, FindSession, Issue, Start, Ask, Resume, Finish, Fail,
              BeginFinalization, FinalizeRead, Send, Abort, Lose
<1>2. ASSUME NEW w \in Workers, MarkCleanup(w)
      PROVE  \E j \in Jobs : status[j] \in Active
  <2>1. worker[w].job \in Jobs
    BY <1>2, Busy DEF MarkCleanup
  <2> QED
    BY <1>2, <2>1 DEF MarkCleanup
<1>3. ASSUME NEW j \in Jobs,
             \/ Reserve(j) \/ FailPreparedRead(j) \/ FailPreparedWrite(j)
             \/ LoseRequest(j) \/ TakeUp(j) \/ Reap(j) \/ Respond(j) \/ FailUnstarted(j)
      PROVE  status[j] \in Active
  BY <1>3 DEF Reserve, FailPreparedRead, FailPreparedWrite, LoseRequest, TakeUp, Claim,
              ListFinalizing, ListCleanup, Reap, ReapRunning, ReapClaimed, Respond, FailUnstarted
<1> QED
  BY <1>1, <1>2, <1>3 DEF Quiet

\* The jobs neither put the fence up nor take it down, and doubt stays.
LEMMA JobsKeepFence ==
  ASSUME IInv, IInv', Activity \/ Quiet
  PROVE  /\ session' = session \/ (session \notin Fenced /\ session' \notin Fenced)
         /\ overtaken \subseteq overtaken'
<1>1. session' # session => \E j \in Jobs : status[j] \in Active
  BY ActiveBehindActivity, ActiveBehindQuiet
<1>2. session' # session => session \notin Fenced
  BY <1>1 DEF IInv, SessionMatchesJobs, NoActiveJob
<1>3. session' \in Fenced => session' = session
  BY OnlyMarkFences
<1>4. overtaken \subseteq overtaken'
  <2>1. CASE Activity
    BY <2>1 DEF Activity, FailOverdue, Close, CompleteCleanup, Activate, Cancel
  <2>2. CASE \E w \in Workers : \/ MarkRunning(w) \/ FindSession(w) \/ Issue(w)
                               \/ Start(w) \/ Ask(w) \/ Resume(w) \/ Finish(w) \/ Fail(w)
                               \/ MarkCleanup(w) \/ BeginFinalization(w)
                               \/ FinalizeRead(w) \/ Send(w) \/ Abort(w) \/ Lose(w)
    BY <2>2 DEF MarkRunning, FindSession, Issue, Start, Ask, Resume, Finish, Fail, MarkCleanup,
                BeginFinalization, FinalizeRead, Send, Abort, Overtake, Lose
  <2>3. CASE \E j \in Jobs : \/ Reserve(j) \/ FailPreparedRead(j) \/ FailPreparedWrite(j)
                             \/ LoseRequest(j) \/ TakeUp(j) \/ Reap(j) \/ Respond(j)
                             \/ FailUnstarted(j)
    BY <2>3 DEF Reserve, FailPreparedRead, FailPreparedWrite, LoseRequest, TakeUp, Claim,
                ListFinalizing, ListCleanup, Reap, ReapRunning, ReapClaimed, Respond,
                FailUnstarted
  <2> QED
    BY <2>1, <2>2, <2>3 DEF Quiet
<1> QED
  BY <1>2, <1>3, <1>4

\* Nobody sweeps and nothing is detached where there is no fence.
LEMMA Unfenced ==
  ASSUME RInv, Kept, Undoubted, session # "purging"
  PROVE  /\ \A p \in Purgers : purger[p].step \notin Purging
         /\ tombstones = {}
  BY DEF Kept, Exclusive, Detached

\* The steps of the jobs.
LEMMA JobsKeep ==
  ASSUME RInv, IInv, IInv', Kept,
         \/ ActivityStep \/ QuietStep \/ RetireSession \/ ReopenSession
         \/ \E j \in Jobs : TouchSession(j)
         \/ \E w \in Workers : ProvisionWorkspace(w)
  PROVE  Kept'
<1> SUFFICES ASSUME Undoubted' PROVE (Exclusive /\ Detached)'
  BY DEF Kept
<1>1. CASE ActivityStep \/ QuietStep
  <2>1. UNCHANGED <<purges, disk, purger, unfenced>> /\ (Activity \/ Quiet)
    BY <1>1 DEF ActivityStep, QuietStep, sweeps
  <2>2. Undoubted
    BY <2>1, JobsKeepFence DEF Undoubted
  <2>3. CASE session' = session
    BY <2>1, <2>2, <2>3 DEF Kept, Exclusive, Detached, disk
  <2>4. CASE session \notin Fenced /\ session' \notin Fenced
    BY <2>1, <2>2, <2>4, Unfenced DEF Purging, Exclusive, Detached, Fenced, disk
  <2> QED
    BY <2>1, <2>3, <2>4, JobsKeepFence
<1>2. CASE RetireSession
  <2>1. UNCHANGED <<purges, disk, purger, overtaken>> /\ session' \notin Fenced
    BY <1>2 DEF RetireSession, Retire, StopJobs, Fenced
  <2>2. Undoubted /\ session # "purging"
    BY <1>2, <2>1 DEF RetireSession, Undoubted, RInv, RTypeOK
  <2> QED
    BY <2>1, <2>2, Unfenced DEF Purging, Exclusive, Detached, Fenced, disk
<1>3. CASE ReopenSession
  <2>1. UNCHANGED <<purges, disk, purger, unfenced, overtaken>> /\ session = "purged"
        /\ session' = "new"
    BY <1>3 DEF ReopenSession, Reopen, SetSession, sweeps
  <2> QED
    BY <2>1, Unfenced DEF Purging, Exclusive, Detached, Undoubted, disk
<1>4. CASE \E j \in Jobs : TouchSession(j)
  <2>1. UNCHANGED <<session, purges, disk, purger, unfenced, overtaken>>
    BY <1>4 DEF TouchSession, Touch, sweeps
  <2> QED
    BY <2>1 DEF Kept, Exclusive, Detached, Undoubted, disk
<1>5. ASSUME NEW w \in Workers, ProvisionWorkspace(w)
      PROVE  (Exclusive /\ Detached)'
  <2>1. /\ worker[w].step = "found"
        /\ UNCHANGED <<session, purges, tombstones, purger, unfenced, overtaken>>
    BY <1>5 DEF ProvisionWorkspace, Provision, sweeps
  <2>2. worker[w].job \in Jobs /\ status[worker[w].job] \in Active
    BY <2>1, Busy DEF IInv, Orphans, On, Executing, Running, Active, Held, Undoubted
  <2>3. session \notin Fenced
    BY <2>2 DEF IInv, SessionMatchesJobs, NoActiveJob
  <2> QED
    BY <2>1, <2>3, Unfenced DEF Purging, Exclusive, Detached, Undoubted, Fenced
<1> QED
  BY <1>1, <1>2, <1>3, <1>4, <1>5

\* A sweep that is taken up from the row is the only one.
LEMMA TakeOverKeeps ==
  ASSUME RInv, Kept, NEW p \in Purgers, ListStale(p)
  PROVE  Kept'
<1> SUFFICES ASSUME Undoubted' PROVE (Exclusive /\ Detached)'
  BY DEF Kept
<1>1. /\ session = "purging" /\ session' = session
      /\ UNCHANGED <<purges, workspace, tombstones>>
      /\ purger' = [purger EXCEPT ![p] = [step |-> "marked", token |-> purges]]
      /\ ~unfenced /\ overtaken = {}
      /\ \A q \in Purgers : purger[q].token # purges
  BY DEF ListStale, Undoubted, disk, vars, row, history, RInv, RTypeOK
<1>2. Exclusive /\ Detached
  BY <1>1 DEF Kept, Undoubted
<1>3. \A q \in Purgers : purger[q].step \notin Purging
  BY <1>1, <1>2 DEF Exclusive
<1>4. /\ purger'[p].step = "marked" /\ purger'[p].token = purges
      /\ \A q \in Purgers : q # p => purger'[q] = purger[q]
  BY <1>1 DEF RInv, RTypeOK
<1>5. Exclusive'
  BY <1>1, <1>3, <1>4 DEF Exclusive
<1>6. Detached'
  BY <1>1, <1>2, <1>4 DEF Detached
<1> QED
  BY <1>5, <1>6

\* The mark is a fence nobody holds yet, over what lies there.
LEMMA MarkKeeps ==
  ASSUME RInv, Numbered, Kept, NEW p \in Purgers, Mark(p)
  PROVE  Kept'
<1> SUFFICES ASSUME Undoubted' PROVE (Exclusive /\ Detached)'
  BY DEF Kept
<1>1. /\ session # "purging" /\ session' = "purging"
      /\ UNCHANGED <<workspace, tombstones, unfenced, overtaken>>
      /\ purges' = purges + 1
      /\ purger' = [purger EXCEPT ![p] = [step |-> "marked", token |-> purges']]
  BY DEF Mark, MarkForPurge, PurgerStep, disk
<1>2. Undoubted /\ Exclusive /\ Detached
  BY <1>1 DEF Kept, Undoubted
<1>3. /\ \A q \in Purgers : purger[q].step \notin Purging
      /\ tombstones = {}
  BY <1>1, <1>2 DEF Exclusive, Detached
<1>4. /\ purger'[p].step = "marked" /\ purger'[p].token = purges'
      /\ \A q \in Purgers : q # p => purger'[q] = purger[q]
  BY <1>1 DEF RInv, RTypeOK
<1>5. Exclusive'
  BY <1>1, <1>3, <1>4 DEF Exclusive
<1>6. Detached'
  BY <1>1, <1>3, <1>4 DEF Detached, Purging, Numbered
<1> QED
  BY <1>5, <1>6

\* The steps of purge and the report keep to the token.
LEMMA PurgeKeeps ==
  ASSUME RInv, Kept, NEW p \in Purgers, Look(p) \/ Rename(p) \/ Delete(p) \/ Report(p)
  PROVE  Kept'
<1> SUFFICES ASSUME Undoubted' PROVE (Exclusive /\ Detached)'
  BY DEF Kept
<1> DEFINE t == purger[p].token
<1>1. UNCHANGED <<purges, unfenced, overtaken>> /\ purger[p].step \in Purging
  BY DEF Look, Rename, Delete, Report, At, PurgerStep, Purging, MarkPurged, SetSession
<1>2. Exclusive /\ Detached /\ session = "purging" /\ t = purges
  BY <1>1 DEF Kept, Undoubted, Exclusive
<1>3. \A q \in Purgers : q # p => purger[q].step \notin Purging
  BY <1>1, <1>2 DEF Exclusive
<1>4. purger \in [Purgers -> [step : PurgerSteps, token : 0 .. MaxPurges]]
      /\ workspace \in Nat /\ purges \in Nat
  BY DEF RInv, RTypeOK
<1>5. CASE Look(p)
  <2>1. /\ UNCHANGED <<session, workspace, tombstones>>
        /\ \/ PurgerStep(p, "rename", t)
           \/ PurgerStep(p, "delete", t) /\ (t \in tombstones \/ workspace = 0)
    BY <1>5 DEF Look, disk
  <2>2. CASE PurgerStep(p, "rename", t)
    BY <1>1, <1>2, <1>3, <1>4, <2>1, <2>2 DEF PurgerStep, Exclusive, Detached, Purging
  <2>3. CASE PurgerStep(p, "delete", t) /\ (t \in tombstones \/ workspace = 0)
    BY <1>1, <1>2, <1>3, <1>4, <2>1, <2>3 DEF PurgerStep, Exclusive, Detached, Purging
  <2> QED
    BY <2>1, <2>2, <2>3
<1>6. CASE Rename(p)
  <2>1. UNCHANGED session /\ PurgerStep(p, "delete", t)
    BY <1>6 DEF Rename
  <2>2. /\ workspace' = 0 /\ tombstones' \subseteq {purges}
    BY <1>2, <1>6 DEF Rename, Detached, disk
  <2> QED
    BY <1>1, <1>2, <1>3, <1>4, <2>1, <2>2 DEF PurgerStep, Exclusive, Detached, Purging
<1>7. CASE Delete(p)
  <2>1. /\ UNCHANGED <<session, workspace>> /\ PurgerStep(p, "deleted", t)
        /\ tombstones' = {} /\ workspace = 0
    BY <1>2, <1>7 DEF Delete, Detached, At
  <2> QED
    BY <1>1, <1>2, <1>3, <1>4, <2>1 DEF PurgerStep, Exclusive, Detached, Purging
<1>8. CASE Report(p)
  <2>1. /\ UNCHANGED disk /\ PurgerStep(p, "idle", 0)
        /\ tombstones = {} /\ workspace = 0
    BY <1>2, <1>8 DEF Report, Detached, At
  <2> QED
    BY <1>1, <1>2, <1>3, <1>4, <2>1 DEF PurgerStep, Exclusive, Detached, Purging, disk
<1> QED
  BY <1>5, <1>6, <1>7, <1>8

\* A sweep that only lists, passes or dies takes no part any more.
LEMMA IdleKeeps ==
  ASSUME RInv, Kept, NEW p \in Purgers, ListExpired(p) \/ Pass(p) \/ Abandon(p)
  PROVE  Kept'
<1>1. /\ UNCHANGED <<session, purges, disk, unfenced, overtaken>>
      /\ \E s \in {"idle", "listed"} : purger' = [purger EXCEPT ![p] = [step |-> s, token |-> 0]]
  BY DEF ListExpired, Pass, Abandon, PurgerStep
<1>2. purger'[p].step \in {"idle", "listed"} /\ \A q \in Purgers : q # p => purger'[q] = purger[q]
  BY <1>1 DEF RInv, RTypeOK
<1> QED
  BY <1>1, <1>2 DEF Kept, Exclusive, Detached, Undoubted, Purging, disk

LEMMA NumberedStep ==
  ASSUME RInv, Numbered, [RNext]_rvars
  PROVE  Numbered'
<1>1. purges \in Nat /\ workspace \in Nat
  BY DEF RInv, RTypeOK
<1>2. CASE \E w \in Workers : ProvisionWorkspace(w)
  BY <1>1, <1>2 DEF ProvisionWorkspace, Numbered
<1>3. CASE \E p \in Purgers : Mark(p) \/ Rename(p)
  BY <1>1, <1>3 DEF Mark, Rename, Numbered, disk
<1>4. CASE \E p \in Purgers : \/ ListExpired(p) \/ ListStale(p) \/ Pass(p) \/ Look(p)
                              \/ Delete(p) \/ Report(p) \/ Abandon(p)
  BY <1>4 DEF ListExpired, ListStale, Pass, Look, Delete, Report, Abandon, Numbered, disk
<1>5. CASE \/ ActivityStep \/ QuietStep \/ RetireSession \/ ReopenSession \/ Expire
           \/ \E j \in Jobs : TouchSession(j)
  BY <1>5 DEF ActivityStep, QuietStep, RetireSession, ReopenSession, Expire, TouchSession,
              Numbered, disk
<1>6. CASE UNCHANGED rvars
  BY <1>6 DEF rvars, Numbered, disk
<1> QED
  BY <1>2, <1>3, <1>4, <1>5, <1>6 DEF RNext, Sweep

LEMMA KeptStep ==
  ASSUME RInv, IInv, IInv', Numbered, Kept, [RNext]_rvars
  PROVE  Kept'
<1>1. CASE \/ ActivityStep \/ QuietStep \/ RetireSession \/ ReopenSession
           \/ \E j \in Jobs : TouchSession(j)
           \/ \E w \in Workers : ProvisionWorkspace(w)
  BY <1>1, JobsKeep
<1>2. CASE \E p \in Purgers : Sweep(p) \/ Abandon(p)
  BY <1>2, TakeOverKeeps, MarkKeeps, PurgeKeeps, IdleKeeps DEF Sweep
<1>3. CASE Expire \/ UNCHANGED rvars
  <2>1. UNCHANGED <<session, purges, disk, purger, unfenced, overtaken>>
    BY <1>3 DEF Expire, rvars, sweeps
  <2> QED
    BY <2>1 DEF Kept, Exclusive, Detached, Undoubted, disk
<1> QED
  BY <1>1, <1>2, <1>3 DEF RNext

LEMMA KeptInvariant == RSpec => [](RInv /\ Numbered /\ Kept)
<1>1. RInit => Numbered /\ Kept
  <2> SUFFICES ASSUME RInit PROVE Numbered /\ Exclusive /\ Detached
    BY DEF Kept
  <2>1. /\ purges = 0 /\ workspace = 0 /\ tombstones = {} /\ session = "new"
        /\ \A p \in Purgers : purger[p].step = "idle"
    BY DEF RInit, Init
  <2> QED
    BY <2>1 DEF Numbered, Exclusive, Detached, Purging
<1>2. RInv /\ IInv /\ IInv' /\ Numbered /\ Kept /\ [RNext]_rvars => Numbered' /\ Kept'
  BY NumberedStep, KeptStep
<1>3. RSpec => []IInv
  BY RetentionRefines, Invariant, PTL DEF ImplementsJobs
<1> QED
  BY <1>1, <1>2, <1>3, RInvariant, PTL DEF RSpec

\* Whichever sweeps die on the way and whichever take over, a session that reads
\* purged has left neither a workspace nor a tombstone (purge, then
\* mark_session_purged with the token of the row).
THEOREM PurgedIsGone == RSpec => []PurgedIsDeleted
<1>1. Kept => PurgedIsDeleted
  BY DEF Kept, Detached, PurgedIsDeleted
<1> QED
  BY <1>1, KeptInvariant, PTL

\* As long as no fence is lifted and nobody who was given up on goes on, a
\* sweep detaches no workspace that is newer than its token: it takes a breach of
\* the fence to violate PurgeSparesNewWorkspace.
THEOREM FencedPurgeSparesNewWorkspace ==
    RSpec => [][\A p \in Purgers : Undoubted /\ Rename(p) /\ workspace # workspace' =>
                                      workspace <= purger[p].token]_rvars
<1>1. ASSUME Kept, NEW p \in Purgers, Undoubted, Rename(p)
      PROVE  workspace <= purger[p].token
  BY <1>1 DEF Kept, Exclusive, Detached, Rename, At, Purging
<1>2. Kept /\ [RNext]_rvars
        => [\A p \in Purgers : Undoubted /\ Rename(p) /\ workspace # workspace' =>
                                  workspace <= purger[p].token]_rvars
  BY <1>1
<1> QED
  BY <1>2, KeptInvariant, PTL DEF RSpec
=============================================================================
