--------------------------- MODULE ScanTasksProofs ---------------------------
(* Type correctness of ScanTasks, that the end of a task is final, and that   *)
(* no completion is missed, for any number of tasks, files and threads.       *)
EXTENDS ScanTasks, TLAPS

Row == [status : Active \cup Final \cup {"none"}, phase : Phases]
Job == [status : Pending \cup {"none", "done", "incomplete"}, task : Owner,
        tries : Tries, missing : BOOLEAN]

AgentType ==
    /\ agent \in [step : Steps, task : Owner, file : Files \cup {NoFile},
                  todo : SUBSET Files, queued : BOOLEAN, failed : BOOLEAN]
    /\ agent.task = NoTask =>
           agent.step \in {"idle", "scanning", "draining", "drained"}
    /\ agent.step \in {"scanning", "draining", "drained"}
           <=> agent.file # NoFile

ThreadType ==
    /\ \A h \in Threads : thread[h].step = "idle" <=> thread[h].file = NoFile
    /\ thread \in [Threads -> [step : {"idle", "claimed", "analysing", "bare",
                                       "recorded"},
                               file : Files \cup {NoFile}, task : Owner,
                               tries : Tries]]

ServerType == /\ task \in [Tasks -> Row] /\ job \in [Files -> Job]
              /\ spool \subseteq Files

BoxType == /\ scanned \subseteq Files
           /\ outbox \in [Files -> Item] /\ dead \in [Files -> Item]

OtherType == /\ boot \in {"down", "opened", "requeued", "up"}
             /\ upsets \in 0..MaxUpsets /\ doubtful \subseteq Files

Requests == Request \cup {Startup}

MessageType == requests \subseteq Requests /\ reports \subseteq Message

\* The agent waits for the one request whose caller is still there.
LiveInv == \A r \in requests :
              r.live => /\ agent.step \in {"scanning", "draining"}
                        /\ agent.file = r.file
                        /\ \A q \in requests : q.live => q = r

IInv == /\ ServerType /\ MessageType /\ AgentType /\ BoxType /\ ThreadType
        /\ OtherType /\ LiveInv

\* What every step does to a task that has ended.
Kept == \A t \in Tasks : task[t].status \in Final => task'[t] = task[t]

LEMMA TypeParts == TypeOK <=> /\ ServerType /\ MessageType /\ AgentType
                              /\ BoxType /\ ThreadType /\ OtherType
  BY DEF TypeOK, ServerType, MessageType, AgentType, BoxType, ThreadType,
         OtherType, Row, Job, Requests

-----------------------------------------------------------------------------
(* The operators on rows of scan_tasks.                                      *)

\* The reconciliation of a row gives a row, and keeps a settled one.
LEMMA ReconciledRow ==
  ASSUME NEW row \in Row, NEW t, NEW jobs
  PROVE  /\ Reconciled(row, t, jobs) \in Row
         /\ row.status \in Final => Reconciled(row, t, jobs) = row
<1>1. CASE Reconciled(row, t, jobs) = row
  BY <1>1
<1>2. CASE Told(row)
  <2>1. row.status = "acknowledged" /\ row.status \notin Final
    BY <1>2 DEF Told, Final
  <2>2. \/ Reconciled(row, t, jobs) = row
        \/ Reconciled(row, t, jobs) = [status |-> "failed", phase |-> "failed"]
        \/ Reconciled(row, t, jobs)
               = [status |-> "completed", phase |-> "completed"]
    BY <1>2 DEF Reconciled
  <2> QED
    BY <2>1, <2>2 DEF Row, Final, Phases
<1> QED
  BY <1>1, <1>2 DEF Reconciled

LEMMA ReconcileKeeps ==
  ASSUME task \in [Tasks -> Row], NEW ts, Reconcile(ts)
  PROVE  task' \in [Tasks -> Row] /\ Kept
<1>1. ASSUME NEW t \in Tasks
      PROVE  /\ task'[t] \in Row
             /\ task[t].status \in Final => task'[t] = task[t]
  BY ReconciledRow, task[t] \in Row DEF Reconcile
<1> QED
  BY <1>1 DEF Reconcile, Kept

LEMMA MayReconcileKeeps ==
  ASSUME task \in [Tasks -> Row], NEW ts, MayReconcile(ts)
  PROVE  task' \in [Tasks -> Row] /\ Kept
  BY ReconcileKeeps DEF MayReconcile

LEMMA AppliedKeeps ==
  ASSUME task \in [Tasks -> Row], NEW m \in Message, task' = Applied(m)
  PROVE  task' \in [Tasks -> Row] /\ Kept
<1> DEFINE stored == IF m.status = "completed" THEN "acknowledged" ELSE m.status
           row == [status |-> stored, phase |-> m.phase]
<1>1. CASE task[m.task].status \in Final
  BY <1>1 DEF Applied, Kept
<1>2. CASE task[m.task].status \notin Final
  <2>1. row \in Row /\ m.task \in Tasks
    BY DEF Message, Row, Active, Final
  <2>2. Reconciled(row, m.task, job) \in Row
    BY <2>1, ReconciledRow
  <2>3. task' = [task EXCEPT ![m.task] = Reconciled(row, m.task, job)]
    BY <1>2 DEF Applied
  <2> HIDE DEF row
  <2> QED
    BY <1>2, <2>1, <2>2, <2>3 DEF Kept
<1> QED
  BY <1>1, <1>2

LEMMA SendKeeps ==
  ASSUME task \in [Tasks -> Row], reports \subseteq Message, upsets \in 0..MaxUpsets,
         NEW m \in Message, Send(m)
  PROVE  /\ task' \in [Tasks -> Row] /\ Kept
         /\ reports' \subseteq Message /\ upsets' \in 0..MaxUpsets
<1>1. CASE task' = Applied(m) /\ UNCHANGED <<reports, upsets>>
  BY <1>1, AppliedKeeps
<1>2. CASE Upset /\ reports' = reports \cup {m} /\ UNCHANGED task
  BY <1>2, ScanAssumption DEF Upset, Kept
<1> QED
  BY <1>1, <1>2 DEF Send

LEMMA MaintainedKeeps ==
  ASSUME task \in [Tasks -> Row], NEW old, NEW stale
  PROVE  /\ Maintained(old, stale) \in [Tasks -> Row]
         /\ \A t \in Tasks : task[t].status \in Final
                                 => Maintained(old, stale)[t] = task[t]
  BY DEF Maintained, Row, Active, Final

LEMMA OpenStoreKeeps ==
  ASSUME task \in [Tasks -> Row], OpenStore
  PROVE  task' \in [Tasks -> Row] /\ Kept
<1>1. PICK silent \in SUBSET {t \in Tasks :
                                 /\ task[t].status = "acknowledged"
                                 /\ task[t].phase = "local_scan"
                                 /\ Linked(t, job) = {}} :
          task' = [t \in Tasks |->
                      IF task[t].status = "delivered"
                      THEN [task[t] EXCEPT !.status = "queued"]
                      ELSE IF t \in silent
                      THEN [status |-> "failed", phase |-> "failed"]
                      ELSE Reconciled(task[t], t, job)]
  BY DEF OpenStore
<1>2. ASSUME NEW t \in Tasks
      PROVE  /\ task'[t] \in Row
             /\ task[t].status \in Final => task'[t] = task[t]
  <2>1. task[t] \in Row
    OBVIOUS
  <2>2. CASE task[t].status = "delivered"
    BY <1>1, <2>1, <2>2 DEF Row, Active, Final
  <2>3. CASE task[t].status # "delivered" /\ t \in silent
    BY <1>1, <2>3 DEF Row, Final, Phases
  <2>4. CASE task[t].status # "delivered" /\ t \notin silent
    BY <1>1, <2>1, <2>4, ReconciledRow
  <2> QED
    BY <2>2, <2>3, <2>4
<1> QED
  BY <1>1, <1>2 DEF Kept

-----------------------------------------------------------------------------
(* The agent and its requests.                                               *)

LEMMA UpsetType ==
  ASSUME OtherType, Upset
  PROVE  upsets' \in 0..MaxUpsets
  BY ScanAssumption DEF OtherType, Upset

\* The token of the maintenance aside, what is sent is a request.
LEMMA TypedRequest ==
  ASSUME IInv, NEW r \in requests, r.live \/ r.step # "startup"
  PROVE  r \in Request
  BY DEF IInv, MessageType, Requests, Startup

\* A request, or the token, after its caller left or its payload was deleted.
LEMMA MarkedRequest ==
  ASSUME NEW r \in Requests
  PROVE  /\ [r EXCEPT !.live = FALSE] \in Requests
         /\ ~[r EXCEPT !.live = FALSE].live
         /\ [r EXCEPT !.spooled = FALSE] \in Requests
         /\ [r EXCEPT !.spooled = FALSE].live = r.live
         /\ [r EXCEPT !.spooled = FALSE].file = r.file
<1>1. CASE r \in Request
  BY <1>1 DEF Request, Requests
<1>2. CASE r = Startup
  <2> DEFINE S == [file : {NoFile}, task : {NoTask}, live : {FALSE},
                   step : {"startup"}, spooled : {FALSE}]
  <2>1. r \in S
    BY <1>2 DEF Startup
  <2>2. [r EXCEPT !.live = FALSE] = r /\ ~r.live /\ [r EXCEPT !.spooled = FALSE] = r
    BY <2>1
  <2> QED
    BY <2>2
<1> QED
  BY <1>1, <1>2 DEF Requests

\* Nobody waits for a request unless the agent says so.
LEMMA NoneWaits ==
  ASSUME LiveInv, agent.step \notin {"scanning", "draining"}
  PROVE  \A r \in requests : ~r.live
  BY DEF LiveInv

LEMMA AskKeeps ==
  ASSUME IInv, agent.step \notin {"scanning", "draining"},
         NEW f \in Files, NEW t \in Owner, Ask(f, t),
         agent'.step \in {"scanning", "draining"}, agent'.file = f
  PROVE  requests' \subseteq Requests /\ LiveInv'
<1> DEFINE new == [file |-> f, task |-> t, live |-> TRUE, step |-> "sent",
                   spooled |-> FALSE]
<1>1. new \in Request /\ requests' = requests \cup {new}
  BY DEF Ask, Request
<1>2. new.live /\ new.file = f
  OBVIOUS
<1>3. \A r \in requests : ~r.live
  BY NoneWaits DEF IInv
<1> HIDE DEF new
<1> QED
  BY <1>1, <1>2, <1>3 DEF IInv, MessageType, Requests, LiveInv

LEMMA AnswerKeeps ==
  ASSUME IInv, NEW r \in requests, NEW new \in BOOLEAN, Answer(r, new)
  PROVE  /\ AgentType' /\ scanned' \subseteq Files
         /\ requests' \subseteq Requests /\ LiveInv'
<1>1. requests' = requests \ {r} /\ requests' \subseteq Requests
  BY DEF Answer, IInv, MessageType
<1>2. CASE ~r.live
  BY <1>1, <1>2 DEF Answer, IInv, AgentType, BoxType, LiveInv
<1>3. CASE r.live
  <2>1. \A q \in requests' : ~q.live
    BY <1>1, <1>3 DEF IInv, LiveInv
  <2>2. agent.step \in {"scanning", "draining"} /\ r.file \in Files
    BY <1>3, TypedRequest DEF IInv, LiveInv, Request
  <2>3. CASE agent.step = "scanning"
    <3>1. agent' = [agent EXCEPT !.step = Afterwards("scan"), !.file = NoFile,
                       !.queued = agent.task # NoTask /\ (@ \/ new)]
      BY <1>3, <2>3 DEF Answer
    <3>2. scanned' = scanned \cup {r.file}
      BY <1>3, <2>3 DEF Answer
    <3> QED
      BY <1>1, <2>1, <2>2, <3>1, <3>2
      DEF IInv, AgentType, BoxType, LiveInv, Afterwards, Steps
  <2>4. CASE agent.step = "draining"
    <3>1. agent' = [agent EXCEPT !.step = "drained"] /\ UNCHANGED scanned
      BY <1>3, <2>4 DEF Answer
    <3> QED
      BY <1>1, <2>1, <2>4, <3>1 DEF IInv, AgentType, BoxType, LiveInv, Steps
  <2> QED
    BY <2>2, <2>3, <2>4
<1> QED
  BY <1>1, <1>2, <1>3

LEMMA PutOffKeeps ==
  ASSUME IInv, agent.step \in {"scanning", "draining"},
         NEW written \in BOOLEAN, PutOff(written)
  PROVE  AgentType' /\ outbox' \in [Files -> Item]
<1> DEFINE fits == ~outbox[agent.file].held /\ written
<1>0. agent.file \in Files /\ agent.task \in Owner /\ fits \in BOOLEAN
  BY DEF IInv, AgentType
<1>1. CASE agent.step = "scanning"
  <2>1. agent' = [agent EXCEPT !.step = Afterwards("scan"), !.file = NoFile,
                     !.failed = agent.task # NoTask /\ (@ \/ ~fits)]
    BY <1>1 DEF PutOff
  <2>2. \/ outbox' = outbox
        \/ outbox' = [outbox EXCEPT ![agent.file] =
                         [held |-> TRUE, result |-> FALSE, task |-> agent.task]]
    BY <1>1 DEF PutOff
  <2>3. outbox' \in [Files -> Item]
    <3> DEFINE letter == [held |-> TRUE, result |-> FALSE, task |-> agent.task]
    <3>1. letter \in Item
      BY <1>0 DEF Item
    <3>2. outbox \in [Files -> Item]
      BY DEF IInv, BoxType
    <3>3. outbox' = outbox \/ outbox' = [outbox EXCEPT ![agent.file] = letter]
      BY <2>2
    <3> HIDE DEF letter
    <3> QED
      BY <3>1, <3>2, <3>3
  <2> HIDE DEF fits
  <2> QED
    BY <1>0, <1>1, <2>1, <2>3 DEF IInv, AgentType, Afterwards, Steps
<1>2. CASE agent.step = "draining"
  <2>1. /\ agent' = [agent EXCEPT !.step = Afterwards("drain"), !.file = NoFile]
        /\ UNCHANGED outbox
    BY <1>2 DEF PutOff
  <2> QED
    BY <1>0, <2>1 DEF IInv, AgentType, BoxType, Afterwards, Steps
<1> QED
  BY <1>1, <1>2

\* A request that is taken a step further is the same request to its caller.
LEMMA AdvanceKeeps ==
  ASSUME IInv, NEW r \in requests, NEW q \in Request,
         q.live = r.live, q.file = r.file,
         requests' = (requests \ {r}) \cup {q}, UNCHANGED agent
  PROVE  requests' \subseteq Requests /\ LiveInv'
  BY DEF IInv, MessageType, Requests, LiveInv

LEMMA NobodyWaits ==
  ASSUME \A r \in requests' : ~r.live
  PROVE  LiveInv'
  BY DEF LiveInv

-----------------------------------------------------------------------------
(* One lemma per action.                                                     *)

LEMMA CreateStep ==
  ASSUME IInv, NEW t \in Tasks, Create(t)
  PROVE  IInv' /\ Kept
<1>1. task' = [task EXCEPT ![t].status = "queued"] /\ task[t].status = "none"
  BY DEF Create
<1>2. task' \in [Tasks -> Row] /\ Kept
  BY <1>1 DEF IInv, ServerType, Row, Kept, Active, Final
<1> QED
  BY <1>2 DEF Create, IInv, ServerType, MessageType, AgentType, BoxType,
              ThreadType, OtherType, LiveInv, client, worker

LEMMA MaintainStep ==
  ASSUME IInv, NEW old, NEW stale, Maintain(old, stale)
  PROVE  IInv' /\ Kept
<1>1. task' \in [Tasks -> Row] /\ Kept
  BY MaintainedKeeps DEF Maintain, IInv, ServerType, Kept
<1>2. upsets' \in 0..MaxUpsets
  BY UpsetType DEF Maintain, IInv
<1> QED
  BY <1>1, <1>2 DEF Maintain, IInv, ServerType, MessageType, AgentType, BoxType,
                    ThreadType, OtherType, LiveInv, client, worker

LEMMA PollStep ==
  ASSUME IInv, NEW t \in Tasks, NEW old, NEW stale, Poll(t, old, stale)
  PROVE  IInv' /\ Kept
<1> DEFINE rows == Maintained(old, stale)
<1>1. rows \in [Tasks -> Row]
      /\ \A u \in Tasks : task[u].status \in Final => rows[u] = task[u]
  BY MaintainedKeeps DEF IInv, ServerType
<1>2. rows[t].status = "queued" /\ task' = [rows EXCEPT ![t].status = "delivered"]
  BY DEF Poll
<1> HIDE DEF rows
<1>3. task' \in [Tasks -> Row]
  BY <1>1, <1>2 DEF Row, Active
<1>4. task[t].status \notin Final
  BY <1>1, <1>2 DEF Final
<1>5. Kept
  BY <1>1, <1>2, <1>4 DEF Kept
<1>6. agent.step = "idle" /\ \A r \in requests : ~r.live
  BY NoneWaits DEF Poll, IInv
<1>7. AgentType'
  <2>1. CASE agent' = [AtRest EXCEPT !.step = "polled", !.task = t]
    BY <2>1, ScanAssumption DEF AgentType, AtRest, Steps, Owner
  <2>2. CASE UNCHANGED agent
    BY <2>2 DEF AgentType, IInv
  <2> QED
    BY <2>1, <2>2 DEF Poll
<1>8. upsets' \in 0..MaxUpsets
  BY UpsetType DEF Poll, IInv, OtherType
<1>9. LiveInv'
  BY <1>6, NobodyWaits DEF Poll
<1> QED
  BY <1>3, <1>5, <1>7, <1>8, <1>9
  DEF Poll, IInv, ServerType, MessageType, BoxType, ThreadType, OtherType, worker

LEMMA LateReportStep ==
  ASSUME IInv, NEW m \in reports, LateReport(m)
  PROVE  IInv' /\ Kept
<1>1. task' \in [Tasks -> Row] /\ Kept
  BY AppliedKeeps DEF LateReport, IInv, ServerType, MessageType
<1> QED
  BY <1>1 DEF LateReport, IInv, ServerType, MessageType, AgentType, BoxType,
              ThreadType, OtherType, LiveInv, client, worker

LEMMA AcknowledgeStep ==
  ASSUME IInv, Acknowledge
  PROVE  IInv' /\ Kept
<1> DEFINE m == [task |-> agent.task, status |-> "acknowledged",
                 phase |-> "local_scan"]
<1>1. agent.step = "polled" /\ agent.task \in Tasks /\ \A r \in requests : ~r.live
  BY NoneWaits DEF Acknowledge, IInv, AgentType, Owner
<1>2. m \in Message /\ Send(m)
  BY <1>1 DEF Acknowledge, Message, Phases
<1>3. task' \in [Tasks -> Row] /\ Kept
      /\ reports' \subseteq Message /\ upsets' \in 0..MaxUpsets
  <2> HIDE DEF m
  <2> QED
    BY <1>2, SendKeeps DEF IInv, ServerType, MessageType, OtherType
<1>4. AgentType'
  BY <1>1, ScanAssumption DEF Acknowledge, AgentType, IInv, Steps, BoxType
<1>5. LiveInv'
  BY <1>1, NobodyWaits DEF Acknowledge
<1> QED
  BY <1>3, <1>4, <1>5 DEF Acknowledge, IInv, ServerType, MessageType, BoxType,
                          ThreadType, OtherType, worker

LEMMA ScanPathStep ==
  ASSUME IInv, NEW f \in Files, ScanPath(f)
  PROVE  IInv' /\ Kept
<1>1. agent.step \in {"scan", "idle"} /\ agent.task \in Owner
  BY DEF ScanPath, IInv, AgentType
<1>2. agent' = [agent EXCEPT !.step = "scanning", !.file = f,
                             !.todo = @ \ {f}]
  BY DEF ScanPath
<1>3. AgentType'
  BY <1>1, <1>2, ScanAssumption DEF AgentType, IInv, Steps
<1>4. agent'.step = "scanning" /\ agent'.file = f
  BY <1>2 DEF IInv, AgentType
<1>5. requests' \subseteq Requests /\ LiveInv'
  BY <1>1, <1>4, AskKeeps DEF ScanPath
<1>6. upsets' \in 0..MaxUpsets
  BY UpsetType DEF ScanPath, IInv, OtherType
<1> QED
  BY <1>3, <1>5, <1>6 DEF ScanPath, IInv, ServerType, MessageType, BoxType,
                          ThreadType, OtherType, Kept, server, worker

LEMMA GiveUpStep ==
  ASSUME IInv, GiveUp
  PROVE  IInv' /\ Kept
<1>1. AgentType' /\ outbox' \in [Files -> Item]
  BY PutOffKeeps DEF GiveUp
<1>2. requests' \subseteq Requests /\ \A r \in requests' : ~r.live
  <2>1. requests' = {[r EXCEPT !.live = FALSE] : r \in requests}
    BY DEF GiveUp
  <2>2. requests \subseteq Requests
    BY DEF IInv, MessageType
  <2>3. ASSUME NEW q \in requests'
        PROVE  q \in Requests /\ ~q.live
    <3>1. PICK r \in requests : q = [r EXCEPT !.live = FALSE]
      BY <2>1
    <3> QED
      BY <2>2, <3>1, MarkedRequest
  <2> QED
    BY <2>3
<1>3. upsets' \in 0..MaxUpsets
  BY UpsetType DEF GiveUp, IInv
<1>4. LiveInv'
  BY <1>2, NobodyWaits
<1> QED
  BY <1>1, <1>2, <1>3, <1>4 DEF GiveUp, IInv, ServerType, MessageType, BoxType,
                                ThreadType, OtherType, Kept, server, worker

LEMMA EndScanStep ==
  ASSUME IInv, EndScan
  PROVE  IInv' /\ Kept
<1>1. agent.step = "scan" /\ agent' = [agent EXCEPT !.step = "drain"]
      /\ \A r \in requests : ~r.live
  BY NoneWaits DEF EndScan, IInv
<1>2. AgentType'
  BY <1>1 DEF AgentType, IInv, Steps
<1>3. LiveInv'
  BY <1>1, NobodyWaits DEF EndScan
<1>4. BoxType' /\ OtherType'
  <2>1. CASE UNCHANGED <<outbox, dead, upsets, doubtful>>
    BY <2>1 DEF EndScan, IInv, BoxType, OtherType, worker
  <2>2. ASSUME NEW old \in SUBSET {f \in Files : outbox[f].held},
               Pruned(old), Upset
        PROVE  BoxType' /\ OtherType'
    <3>1. upsets' \in 0..MaxUpsets
      BY <2>2, UpsetType DEF IInv
    <3>2. NoItem \in Item
      BY DEF NoItem, Item, Owner
    <3> QED
      BY <2>2, <3>1, <3>2 DEF EndScan, Pruned, IInv, BoxType, OtherType, worker
  <2> QED
    BY <2>1, <2>2 DEF EndScan
<1> QED
  BY <1>2, <1>3, <1>4 DEF EndScan, IInv, ServerType, MessageType, ThreadType,
                          Kept, server, worker

LEMMA ReviveStep ==
  ASSUME IInv, NEW f \in Files, Revive(f)
  PROVE  IInv' /\ Kept
<1>1. NoItem \in Item
  BY DEF NoItem, Item, Owner
<1>2. BoxType'
  BY <1>1 DEF Revive, IInv, BoxType
<1> QED
  BY <1>2 DEF Revive, IInv, ServerType, MessageType, AgentType, ThreadType,
              OtherType, LiveInv, Kept, server, worker

LEMMA DrainStep ==
  ASSUME IInv, NEW f \in Files, Drain(f)
  PROVE  IInv' /\ Kept
<1>1. /\ agent.step \in {"idle", "drain"}
      /\ agent' = [agent EXCEPT !.step = "draining", !.file = f]
      /\ outbox[f].task \in Owner
  BY DEF Drain, IInv, BoxType, Item
<1>2. AgentType' /\ agent'.step = "draining" /\ agent'.file = f
  BY <1>1, ScanAssumption DEF AgentType, IInv, Steps
<1>3. requests' \subseteq Requests /\ LiveInv'
  BY <1>1, <1>2, AskKeeps DEF Drain
<1> QED
  BY <1>2, <1>3 DEF Drain, IInv, ServerType, MessageType, BoxType, ThreadType,
                    OtherType, Kept, server, worker

LEMMA DrainedStep ==
  ASSUME IInv, Drained
  PROVE  IInv' /\ Kept
<1> DEFINE f == agent.file
           t == outbox[f].task
           last == t # NoTask /\ outbox[f].result /\ OthersOf(t, f) = {}
           m == [task |-> t, status |-> "acknowledged",
                 phase |-> "server_processing"]
<1>1. /\ agent.step = "drained" /\ f \in Files
      /\ agent' = [agent EXCEPT !.step = Afterwards("drain"), !.file = NoFile]
      /\ \A r \in requests : ~r.live
  BY NoneWaits DEF Drained, IInv, AgentType
<1>2. t \in Owner
  BY <1>1 DEF IInv, BoxType, Item
<1>3. last => m \in Message
  BY <1>2 DEF Message, Owner, Phases
<1>4. AgentType'
  BY <1>1, ScanAssumption DEF AgentType, IInv, Afterwards, Steps
<1>5. LiveInv'
  BY <1>1, NobodyWaits DEF Drained
<1>6. BoxType'
  <2>1. NoItem \in Item
    BY DEF NoItem, Item, Owner
  <2> QED
    BY <1>1, <2>1 DEF Drained, IInv, BoxType
<1>7. task' \in [Tasks -> Row] /\ Kept
      /\ reports' \subseteq Message /\ upsets' \in 0..MaxUpsets
  <2>1. CASE UNCHANGED <<task, reports, upsets>>
    BY <2>1 DEF IInv, ServerType, MessageType, OtherType, Kept
  <2>2. CASE last /\ task' = Applied(m) /\ UNCHANGED reports
             /\ (Upset \/ UNCHANGED upsets)
    <3>1. upsets' \in 0..MaxUpsets
      BY <2>2, UpsetType DEF IInv, OtherType
    <3> HIDE DEF m
    <3> QED
      BY <1>3, <2>2, <3>1, AppliedKeeps DEF IInv, ServerType, MessageType
  <2>3. CASE last /\ Upset /\ reports' = reports \cup {m} /\ UNCHANGED task
    <3>1. upsets' \in 0..MaxUpsets
      BY <2>3, UpsetType DEF IInv
    <3> HIDE DEF m
    <3> QED
      BY <1>3, <2>3, <3>1 DEF IInv, ServerType, MessageType, Kept
  <2> QED
    BY <2>1, <2>2, <2>3 DEF Drained
<1> QED
  BY <1>4, <1>5, <1>6, <1>7 DEF Drained, IInv, ServerType, MessageType,
                                ThreadType, OtherType, worker

LEMMA ReportStep ==
  ASSUME IInv, Report
  PROVE  IInv' /\ Kept
<1> DEFINE t == agent.task
           left == {f \in Files : outbox[f].held /\ outbox[f].task = t}
           phase == IF agent.failed THEN "failed"
                    ELSE IF left # {} THEN "agent_outbox"
                    ELSE IF agent.queued THEN "server_processing"
                    ELSE "completed"
           status == IF phase \in {"failed", "completed"} THEN phase
                     ELSE "acknowledged"
           m == [task |-> t, status |-> status, phase |-> phase]
<1>1. agent.step = "drain" /\ t \in Tasks /\ \A r \in requests : ~r.live
  BY NoneWaits DEF Report, IInv, AgentType, Owner
<1>2. m \in Message
  BY <1>1 DEF Message, Phases
<1>3. Send(m) /\ agent' = AtRest
  BY DEF Report
<1>4. task' \in [Tasks -> Row] /\ Kept
      /\ reports' \subseteq Message /\ upsets' \in 0..MaxUpsets
  <2> HIDE DEF m
  <2> QED
    BY <1>2, <1>3, SendKeeps DEF IInv, ServerType, MessageType, OtherType
<1>5. AgentType'
  BY <1>3, ScanAssumption DEF AgentType, AtRest, Steps, Owner
<1>6. LiveInv'
  BY <1>1, NobodyWaits DEF Report
<1>7. outbox' \in [Files -> Item]
  <2>1. CASE outbox' = outbox
    BY <2>1 DEF IInv, BoxType
  <2>2. CASE outbox' = [f \in Files |-> IF f \in left
                                        THEN [outbox[f] EXCEPT !.result = TRUE]
                                        ELSE outbox[f]]
    BY <2>2 DEF IInv, BoxType, Item
  <2> QED
    BY <2>1, <2>2 DEF Report
<1> QED
  BY <1>4, <1>5, <1>6, <1>7 DEF Report, IInv, ServerType, MessageType, BoxType,
                                ThreadType, OtherType, worker

LEMMA AbortRunStep ==
  ASSUME IInv, AbortRun
  PROVE  IInv' /\ Kept
<1> DEFINE m == [task |-> agent.task, status |-> "failed", phase |-> "failed"]
<1>1. agent.step \in {"scan", "drain"} /\ \A r \in requests : ~r.live
  BY NoneWaits DEF AbortRun, IInv
<1>2. m \in Message
  BY <1>1 DEF IInv, AgentType, Owner, Message, Phases
<1>3. \/ task' = Applied(m) /\ UNCHANGED reports
      \/ reports' = reports \cup {m} /\ UNCHANGED task
  BY DEF AbortRun
<1>4. task' \in [Tasks -> Row] /\ Kept /\ reports' \subseteq Message
  <2> HIDE DEF m
  <2> QED
    BY <1>2, <1>3, AppliedKeeps DEF IInv, ServerType, MessageType, Kept
<1>5. AgentType'
  BY ScanAssumption DEF AbortRun, AgentType, AtRest, Steps, Owner
<1>6. LiveInv'
  BY <1>1, NobodyWaits DEF AbortRun
<1>7. upsets' \in 0..MaxUpsets
  BY UpsetType DEF AbortRun, IInv
<1> QED
  BY <1>4, <1>5, <1>6, <1>7 DEF AbortRun, IInv, ServerType, MessageType, BoxType,
                                ThreadType, OtherType, worker

LEMMA AgentCrashStep ==
  ASSUME IInv, AgentCrash
  PROVE  IInv' /\ Kept
<1>1. requests' \subseteq Requests /\ \A r \in requests' : ~r.live
  <2>1. requests' = {[r EXCEPT !.live = FALSE] : r \in requests}
    BY DEF AgentCrash
  <2>2. requests \subseteq Requests
    BY DEF IInv, MessageType
  <2>3. ASSUME NEW q \in requests'
        PROVE  q \in Requests /\ ~q.live
    <3>1. PICK r \in requests : q = [r EXCEPT !.live = FALSE]
      BY <2>1
    <3> QED
      BY <2>2, <3>1, MarkedRequest
  <2> QED
    BY <2>3
<1>2. AgentType'
  BY ScanAssumption DEF AgentCrash, AgentType, AtRest, Steps, Owner
<1>3. LiveInv'
  BY <1>1, NobodyWaits
<1>4. upsets' \in 0..MaxUpsets
  BY UpsetType DEF AgentCrash, IInv
<1> QED
  BY <1>1, <1>2, <1>3, <1>4 DEF AgentCrash, IInv, ServerType, MessageType,
         BoxType, ThreadType, OtherType, Kept, server, worker

LEMMA RefuseStep ==
  ASSUME IInv, NEW r \in requests, Refuse(r)
  PROVE  IInv' /\ Kept
<1>1. r.live /\ agent.step \in {"scanning", "draining"}
      /\ \A q \in requests : q.live => q = r
  BY DEF Refuse, IInv, LiveInv
<1>2. AgentType' /\ outbox' \in [Files -> Item]
  BY <1>1, PutOffKeeps DEF Refuse
<1>3. requests' = requests \ {r}
  BY DEF Refuse
<1>4. \A q \in requests' : ~q.live
  BY <1>1, <1>3
<1>5. LiveInv'
  BY <1>4, NobodyWaits
<1>6. upsets' \in 0..MaxUpsets
  BY UpsetType DEF Refuse, IInv
<1> QED
  BY <1>2, <1>3, <1>5, <1>6 DEF Refuse, IInv, ServerType, MessageType, BoxType,
                                ThreadType, OtherType, Kept, server, worker

\* The answer to a repeated event.
LEMMA DedupeKeeps ==
  ASSUME IInv, NEW r \in requests, Dedupe(r),
         UNCHANGED <<reports, outbox, dead, worker, upsets, doubtful>>
  PROVE  IInv' /\ Kept
<1>1. task' \in [Tasks -> Row] /\ Kept
  BY MayReconcileKeeps DEF Dedupe, IInv, ServerType
<1>2. /\ AgentType' /\ scanned' \subseteq Files
      /\ requests' \subseteq Requests /\ LiveInv'
  BY AnswerKeeps DEF Dedupe
<1> QED
  BY <1>1, <1>2 DEF Dedupe, IInv, ServerType, MessageType, BoxType, ThreadType,
                    OtherType, worker

LEMMA LookupStep ==
  ASSUME IInv, NEW r \in requests, Lookup(r)
  PROVE  IInv' /\ Kept
<1>1. r \in Request
  BY TypedRequest DEF Lookup
<1>2. CASE job[r.file].status = "none"
  <2> DEFINE q == [r EXCEPT !.step = "insert", !.spooled = TRUE]
  <2>1. requests' = (requests \ {r}) \cup {q} /\ UNCHANGED <<server, agent, scanned>>
    BY <1>2 DEF Lookup
  <2>2. q \in Request /\ q.live = r.live /\ q.file = r.file
    BY <1>1 DEF Request
  <2> HIDE DEF q
  <2>3. requests' \subseteq Requests /\ LiveInv'
    BY <2>1, <2>2, AdvanceKeeps
  <2> QED
    BY <2>1, <2>3 DEF Lookup, IInv, ServerType, MessageType, AgentType, BoxType,
                      ThreadType, OtherType, Kept, server, worker
<1>3. CASE job[r.file].status # "none" /\ Reopens(r.file)
  <2> DEFINE q == [r EXCEPT !.step = "reopen"]
  <2>1. /\ requests' = (requests \ {r}) \cup {q}
        /\ UNCHANGED <<task, job, agent, scanned>>
        /\ spool' = spool \cup {r.file}
    BY <1>3 DEF Lookup
  <2>2. q \in Request /\ q.live = r.live /\ q.file = r.file /\ q.file \in Files
    BY <1>1 DEF Request
  <2> HIDE DEF q
  <2>3. requests' \subseteq Requests /\ LiveInv'
    BY <2>1, <2>2, AdvanceKeeps
  <2> QED
    BY <2>1, <2>2, <2>3 DEF Lookup, IInv, ServerType, MessageType, AgentType,
           BoxType, ThreadType, OtherType, Kept, worker
<1>4. CASE job[r.file].status # "none" /\ ~Reopens(r.file)
  BY <1>4, DedupeKeeps DEF Lookup
<1> QED
  BY <1>2, <1>3, <1>4

LEMMA QueuedJob ==
  ASSUME job \in [Files -> Job], NEW f \in Files, NEW t \in Owner
  PROVE  Queued(f, t) \in Job
  BY DEF Queued, Job, Pending

LEMMA InsertStep ==
  ASSUME IInv, NEW r \in requests, Insert(r)
  PROVE  IInv' /\ Kept
<1>1. r.file \in Files /\ r.task \in Owner
  BY TypedRequest DEF Insert, Request
<1>2. CASE job[r.file].status = "none"
  <2>1. /\ job' = [job EXCEPT ![r.file] = Queued(r.file, r.task)]
        /\ spool' = IF r.spooled THEN spool \cup {r.file} ELSE spool
        /\ MayReconcile({r.task} \cap Tasks)
        /\ Answer(r, TRUE)
    BY <1>2 DEF Insert
  <2>2. task' \in [Tasks -> Row] /\ Kept
    BY <2>1, MayReconcileKeeps DEF IInv, ServerType
  <2>3. job' \in [Files -> Job] /\ spool' \subseteq Files
    BY <1>1, <2>1, QueuedJob DEF IInv, ServerType
  <2>4. /\ AgentType' /\ scanned' \subseteq Files
        /\ requests' \subseteq Requests /\ LiveInv'
    BY <2>1, AnswerKeeps
  <2> QED
    BY <2>2, <2>3, <2>4 DEF Insert, IInv, ServerType, MessageType, BoxType,
                            ThreadType, OtherType, worker
<1>3. CASE job[r.file].status # "none"
  BY <1>3, DedupeKeeps DEF Insert
<1> QED
  BY <1>2, <1>3

LEMMA ReopenStep ==
  ASSUME IInv, NEW r \in requests, Reopen(r)
  PROVE  IInv' /\ Kept
<1>1. r.file \in Files /\ r.task \in Owner
  BY TypedRequest DEF Reopen, Request
<1>2. task' \in [Tasks -> Row] /\ Kept
  BY MayReconcileKeeps DEF Reopen, IInv, ServerType
<1>3. job' \in [Files -> Job] /\ doubtful' \subseteq Files
  BY <1>1, QueuedJob DEF Reopen, IInv, ServerType, OtherType
<1>4. /\ AgentType' /\ scanned' \subseteq Files
      /\ requests' \subseteq Requests /\ LiveInv'
  BY AnswerKeeps DEF Reopen
<1> QED
  BY <1>2, <1>3, <1>4 DEF Reopen, IInv, ServerType, MessageType, BoxType,
                          ThreadType, OtherType, worker

LEMMA ApiRestartStep ==
  ASSUME IInv, ApiRestart
  PROVE  IInv' /\ Kept
<1>1. task' \in [Tasks -> Row] /\ Kept
  BY OpenStoreKeeps DEF ApiRestart, IInv, ServerType
<1>2. upsets' \in 0..MaxUpsets
  BY UpsetType DEF ApiRestart, IInv
<1>3. LiveInv' /\ requests' \subseteq Requests
  BY DEF ApiRestart, LiveInv, Requests, Startup
<1> QED
  BY <1>1, <1>2, <1>3 DEF ApiRestart, IInv, ServerType, MessageType, AgentType,
         BoxType, ThreadType, OtherType, client, worker

-----------------------------------------------------------------------------
(* The worker process, which touches neither the agent nor its requests.     *)

Outside == <<reports, agent, scanned, outbox, dead>>

\* A step of the worker that changes the server's rows only.
LEMMA ServerStep ==
  ASSUME IInv, UNCHANGED <<Outside, requests>>,
         task' \in [Tasks -> Row], job' \in [Files -> Job],
         spool' \subseteq Files, ThreadType', OtherType'
  PROVE  IInv'
  BY DEF IInv, Outside, ServerType, MessageType, AgentType, BoxType, LiveInv

LEMMA WorkerCrashStep ==
  ASSUME IInv, WorkerCrash
  PROVE  IInv' /\ Kept
<1>1. ThreadType'
  BY ScanAssumption DEF WorkerCrash, ThreadType, Free, Owner, Tries
<1>2. OtherType'
  BY UpsetType DEF WorkerCrash, IInv, OtherType
<1> QED
  BY <1>1, <1>2, ServerStep DEF WorkerCrash, IInv, ServerType, Outside, Kept,
                                server, client

LEMMA WorkerStartStep ==
  ASSUME IInv, WorkerStart
  PROVE  IInv' /\ Kept
<1>1. task' \in [Tasks -> Row] /\ Kept
  BY OpenStoreKeeps DEF WorkerStart, IInv, ServerType
<1>2. ThreadType' /\ OtherType'
  BY DEF WorkerStart, IInv, ThreadType, OtherType
<1> QED
  BY <1>1, <1>2, ServerStep DEF WorkerStart, IInv, ServerType, Outside, client

LEMMA RequeueInterruptedStep ==
  ASSUME IInv, RequeueInterrupted
  PROVE  IInv' /\ Kept
<1>1. task' \in [Tasks -> Row] /\ Kept
  BY MayReconcileKeeps DEF RequeueInterrupted, IInv, ServerType
<1>2. job' \in [Files -> Job]
  <2>1. ASSUME NEW f \in Files
        PROVE  [job[f] EXCEPT !.status = "queued",
                              !.tries = IF @ > 0 THEN @ - 1 ELSE 0] \in Job
    <3>1. job[f] \in Job
      BY DEF IInv, ServerType
    <3>2. job[f].tries \in 0..(RetryLimit + MaxUpsets)
      BY <3>1 DEF Job, Tries
    <3> DEFINE n == IF job[f].tries > 0 THEN job[f].tries - 1 ELSE 0
    <3>3. n \in Tries
      BY <3>2, ScanAssumption DEF Tries
    <3>4. [job[f] EXCEPT !.status = "queued", !.tries = IF @ > 0 THEN @ - 1 ELSE 0]
              = [job[f] EXCEPT !.status = "queued", !.tries = n]
      OBVIOUS
    <3> HIDE DEF n
    <3> QED
      BY <3>1, <3>3, <3>4 DEF Job, Pending
  <2>2. job' = [f \in Files |->
                   IF f \in Processing
                   THEN [job[f] EXCEPT !.status = "queued",
                            !.tries = IF @ > 0 THEN @ - 1 ELSE 0]
                   ELSE job[f]]
    BY DEF RequeueInterrupted
  <2> QED
    BY <2>1, <2>2 DEF IInv, ServerType
<1>3. ThreadType' /\ OtherType'
  BY DEF RequeueInterrupted, IInv, ThreadType, OtherType
<1> QED
  BY <1>1, <1>2, <1>3, ServerStep
  DEF RequeueInterrupted, IInv, ServerType, Outside, client

\* Cleaning the spool, by either process.
LEMMA CleanSpoolKeeps ==
  ASSUME IInv, NEW left \in SUBSET requests, NEW lapsed, CleanSpool(left, lapsed),
         UNCHANGED agent
  PROVE  /\ task' \in [Tasks -> Row] /\ Kept
         /\ job' \in [Files -> Job] /\ spool' \subseteq Files
         /\ requests' \subseteq Requests /\ LiveInv'
<1>1. task' \in [Tasks -> Row] /\ Kept
  BY MayReconcileKeeps DEF CleanSpool, IInv, ServerType
<1>2. job' \in [Files -> Job] /\ spool' \subseteq Files
  <2>1. ASSUME NEW f \in Files
        PROVE  [job[f] EXCEPT !.status = "incomplete", !.missing = TRUE] \in Job
    BY job[f] \in Job DEF IInv, ServerType, Job
  <2> DEFINE bare == ({f \in Files : job[f].status = "queued"} \cup lapsed) \ spool
  <2>2. job' = [f \in Files |->
                   IF f \in bare
                   THEN [job[f] EXCEPT !.status = "incomplete", !.missing = TRUE]
                   ELSE job[f]]
    BY DEF CleanSpool
  <2> HIDE DEF bare
  <2> QED
    BY <2>1, <2>2 DEF CleanSpool, IInv, ServerType
<1>3. requests' = {[r EXCEPT !.spooled = FALSE] : r \in left}
  BY DEF CleanSpool
<1>4. requests' \subseteq Requests
  BY <1>3, MarkedRequest DEF IInv, MessageType
<1>5. LiveInv'
  <2>1. ASSUME NEW r \in requests', r.live
        PROVE  /\ agent.step \in {"scanning", "draining"} /\ agent.file = r.file
               /\ \A q \in requests' : q.live => q = r
    <3>1. PICK r0 \in left : r = [r0 EXCEPT !.spooled = FALSE]
      BY <1>3
    <3>2. r0 \in requests /\ r0.live /\ r0.file = r.file
      BY <2>1, <3>1, MarkedRequest DEF IInv, MessageType
    <3>3. ASSUME NEW q \in requests', q.live
          PROVE  q = r
      <4>1. PICK q0 \in left : q = [q0 EXCEPT !.spooled = FALSE]
        BY <1>3
      <4>2. q0 \in requests /\ q0.live
        BY <3>3, <4>1, MarkedRequest DEF IInv, MessageType
      <4>3. q0 = r0
        BY <3>2, <4>2 DEF IInv, LiveInv
      <4> QED
        BY <3>1, <4>1, <4>3
    <3> QED
      BY <3>2, <3>3 DEF IInv, LiveInv
  <2> QED
    BY <2>1 DEF LiveInv
<1> QED
  BY <1>1, <1>2, <1>4, <1>5

LEMMA ReconcileSpoolStep ==
  ASSUME IInv, ReconcileSpool
  PROVE  IInv' /\ Kept
<1>1. /\ task' \in [Tasks -> Row] /\ Kept
      /\ job' \in [Files -> Job] /\ spool' \subseteq Files
      /\ requests' \subseteq Requests /\ LiveInv'
  BY CleanSpoolKeeps DEF ReconcileSpool, client
<1> QED
  BY <1>1 DEF ReconcileSpool, IInv, ServerType, MessageType, AgentType, BoxType,
              ThreadType, OtherType, client

LEMMA StartupMaintenanceStep ==
  ASSUME IInv, StartupMaintenance
  PROVE  IInv' /\ Kept
<1>1. PICK lapsed \in SUBSET (Processing \ spool) :
          /\ CleanSpool(requests \ {Startup}, lapsed)
          /\ IF lapsed \cap WorkedOn = {} THEN UNCHANGED <<upsets, doubtful>>
             ELSE Upset /\ doubtful' = doubtful \cup (lapsed \cap WorkedOn)
  BY DEF StartupMaintenance
<1>2. /\ task' \in [Tasks -> Row] /\ Kept
      /\ job' \in [Files -> Job] /\ spool' \subseteq Files
      /\ requests' \subseteq Requests /\ LiveInv'
  <2>1. requests \ {Startup} \in SUBSET requests /\ UNCHANGED agent
    BY DEF StartupMaintenance, client
  <2> QED
    BY <1>1, <2>1, CleanSpoolKeeps
<1>3. upsets' \in 0..MaxUpsets /\ doubtful' \subseteq Files
  BY <1>1, UpsetType DEF IInv, OtherType, Processing
<1> QED
  BY <1>2, <1>3 DEF StartupMaintenance, IInv, ServerType, MessageType, AgentType,
         BoxType, ThreadType, OtherType, client, worker

LEMMA RequeueStaleStep ==
  ASSUME IInv, NEW f \in Files, RequeueStale(f)
  PROVE  IInv' /\ Kept
<1>1. task' \in [Tasks -> Row] /\ Kept
  BY MayReconcileKeeps DEF RequeueStale, IInv, ServerType
<1>2. job' \in [Files -> Job]
  BY DEF RequeueStale, IInv, ServerType, Job, Pending
<1>3. OtherType' /\ ThreadType'
  BY UpsetType DEF RequeueStale, IInv, OtherType, ThreadType, worker
<1> QED
  BY <1>1, <1>2, <1>3, ServerStep
  DEF RequeueStale, IInv, ServerType, Outside, client

LEMMA ClaimStep ==
  ASSUME IInv, NEW h \in Threads, NEW f \in Files, Claim(h, f)
  PROVE  IInv' /\ Kept
<1>1. job[f] \in Job
  BY DEF IInv, ServerType
<1>2. Tried(f) \in Tries /\ job[f].task \in Owner
  BY <1>1, ScanAssumption DEF Tried, Tries, Job
<1>3. job' \in [Files -> Job]
  BY <1>2 DEF Claim, IInv, ServerType, Job, Pending
<1>4. thread' = [thread EXCEPT ![h] = [step |-> "claimed", file |-> f,
                                       task |-> job[f].task,
                                       tries |-> Tried(f)]]
  BY DEF Claim
<1>5. ThreadType'
  BY <1>2, <1>4, ScanAssumption DEF IInv, ThreadType
<1> QED
  BY <1>3, <1>5, ServerStep DEF Claim, IInv, ServerType, OtherType, Outside,
                                Kept, client

LEMMA ReadPayloadStep ==
  ASSUME IInv, NEW h \in Threads, ReadPayload(h)
  PROVE  IInv' /\ Kept
<1>1. ThreadType'
  BY DEF ReadPayload, IInv, ThreadType
<1> QED
  BY <1>1, ServerStep DEF ReadPayload, IInv, ServerType, OtherType, Outside,
                          Kept, server, client

\* The file of a thread at work.
LEMMA WorkFile ==
  ASSUME IInv, NEW h \in Threads, thread[h].step # "idle"
  PROVE  thread[h].file \in Files
  BY DEF IInv, ThreadType

LEMMA FinalizeKeeps ==
  ASSUME IInv, NEW h \in Threads, thread[h].step # "idle",
         NEW status \in {"done", "incomplete"}, NEW missing \in BOOLEAN,
         Finalize(h, status, missing)
  PROVE  /\ task' \in [Tasks -> Row] /\ Kept
         /\ job' \in [Files -> Job] /\ ThreadType'
<1>1. thread[h].file \in Files
  BY WorkFile
<1>2. task' \in [Tasks -> Row] /\ Kept
  BY ReconcileKeeps DEF Finalize, IInv, ServerType
<1>3. job' \in [Files -> Job]
  BY <1>1 DEF Finalize, IInv, ServerType, Job
<1>4. ThreadType'
  BY DEF Finalize, IInv, ThreadType
<1> QED
  BY <1>2, <1>3, <1>4

LEMMA FreeThread ==
  ASSUME ThreadType, NEW h \in Threads, thread' = [thread EXCEPT ![h] = Free]
  PROVE  ThreadType'
<1>1. Free \in [step : {"idle", "claimed", "analysing", "bare", "recorded"},
                file : Files \cup {NoFile}, task : Owner, tries : Tries]
      /\ Free.step = "idle" /\ Free.file = NoFile
  BY ScanAssumption DEF Free, Owner, Tries
<1> QED
  BY <1>1 DEF ThreadType

LEMMA AnalyseStep ==
  ASSUME IInv, NEW h \in Threads, Analyse(h)
  PROVE  IInv' /\ Kept
<1>1. thread[h].step = "analysing" /\ thread[h].file \in Files
  BY WorkFile DEF Analyse
<1>2. CASE \E status \in {"done", "incomplete"} : Finalize(h, status, FALSE)
  <2>1. /\ task' \in [Tasks -> Row] /\ Kept
        /\ job' \in [Files -> Job] /\ ThreadType'
    BY <1>1, <1>2, FinalizeKeeps
  <2> QED
    BY <2>1, ServerStep DEF Analyse, IInv, ServerType, OtherType, Outside, client
<1>3. CASE /\ job' = [job EXCEPT ![thread[h].file].status = "queued",
                                 ![thread[h].file].missing = FALSE]
           /\ MayReconcile({job[thread[h].file].task} \cap Tasks)
           /\ thread' = [thread EXCEPT ![h] = Free]
  <2>1. job' \in [Files -> Job]
    BY <1>1, <1>3 DEF IInv, ServerType, Job, Pending
  <2>2. task' \in [Tasks -> Row] /\ Kept
    BY <1>3, MayReconcileKeeps DEF IInv, ServerType
  <2>3. ThreadType'
    BY <1>3, FreeThread DEF IInv
  <2> QED
    BY <2>1, <2>2, <2>3, ServerStep
    DEF Analyse, IInv, ServerType, OtherType, Outside, client
<1> QED
  BY <1>2, <1>3 DEF Analyse

LEMMA RefuseBareStep ==
  ASSUME IInv, NEW h \in Threads, RefuseBare(h)
  PROVE  IInv' /\ Kept
<1>1. /\ task' \in [Tasks -> Row] /\ Kept
      /\ job' \in [Files -> Job] /\ ThreadType'
  BY FinalizeKeeps DEF RefuseBare
<1> QED
  BY <1>1, ServerStep DEF RefuseBare, IInv, ServerType, OtherType, Outside, client

LEMMA AbandonStep ==
  ASSUME IInv, NEW h \in Threads, Abandon(h)
  PROVE  IInv' /\ Kept
<1>1. ThreadType'
  BY FreeThread DEF Abandon, IInv
<1>2. OtherType'
  BY UpsetType DEF Abandon, IInv, OtherType
<1> QED
  BY <1>1, <1>2, ServerStep DEF Abandon, IInv, ServerType, Outside, Kept,
                                server, client

LEMMA DeletePayloadStep ==
  ASSUME IInv, NEW h \in Threads, DeletePayload(h)
  PROVE  IInv' /\ Kept
<1>1. ThreadType'
  BY FreeThread DEF DeletePayload, IInv
<1> QED
  BY <1>1, ServerStep DEF DeletePayload, IInv, ServerType, OtherType, Outside,
                          Kept, client

-----------------------------------------------------------------------------

LEMMA InitIInv == Init => IInv
<1> SUFFICES ASSUME Init PROVE IInv
  OBVIOUS
<1>1. ServerType
  BY ScanAssumption
  DEF Init, ServerType, Row, Job, NoJob, Phases, Owner, Tries
<1>2. AgentType
  BY DEF Init, AgentType, AtRest, Steps, Owner
<1>3. BoxType
  BY DEF Init, BoxType, NoItem, Item, Owner
<1>4. ThreadType
  BY ScanAssumption DEF Init, ThreadType, Free, Owner, Tries
<1>5. OtherType /\ MessageType /\ LiveInv
  BY ScanAssumption DEF Init, OtherType, MessageType, LiveInv
<1> QED
  BY <1>1, <1>2, <1>3, <1>4, <1>5 DEF IInv

LEMMA NextIInv ==
  ASSUME IInv, [Next]_vars
  PROVE  IInv' /\ Kept
<1>1. CASE Agent
  BY <1>1, AcknowledgeStep, GiveUpStep, EndScanStep, DrainedStep, ReportStep,
     AbortRunStep, AgentCrashStep, ScanPathStep, DrainStep, ReviveStep DEF Agent
<1>2. CASE Api
  BY <1>2, CreateStep, MaintainStep, PollStep, LateReportStep, RefuseStep,
     LookupStep, InsertStep, ReopenStep, ApiRestartStep, StartupMaintenanceStep
  DEF Api
<1>3. CASE Worker
  BY <1>3, WorkerCrashStep, WorkerStartStep, RequeueInterruptedStep,
     ReconcileSpoolStep, RequeueStaleStep, ClaimStep, ReadPayloadStep,
     AnalyseStep, RefuseBareStep, AbandonStep, DeletePayloadStep
  DEF Worker, Thread
<1>4. CASE UNCHANGED vars
  BY <1>4 DEF vars, server, client, worker, IInv, ServerType, MessageType,
              AgentType, BoxType, ThreadType, OtherType, LiveInv, Kept
<1> QED
  BY <1>1, <1>2, <1>3, <1>4 DEF Next

LEMMA Invariant == Spec => []IInv
<1>1. IInv /\ [Next]_vars => IInv'
  BY NextIInv
<1> QED
  BY <1>1, InitIInv, PTL DEF Spec

\* In every reachable state of the server, the agent and the worker the
\* variables have their types: the agent's task, file and step fit each other,
\* and a thread is busy exactly when it has a job.
THEOREM TypeCorrect == Spec => []TypeOK
<1>1. IInv => TypeOK
  BY TypeParts DEF IInv
<1> QED
  BY <1>1, Invariant, PTL

\* What a task ended with is final: late and repeated reports, polls, restarts
\* of either process and jobs that are recorded afterwards leave it alone.
THEOREM EndIsFinal == Spec => EndedStaysEnded
<1>1. IInv /\ [Next]_vars
      => [\A t \in Tasks : task[t].status \in Final => task'[t] = task[t]]_vars
  BY NextIInv DEF Kept
<1> QED
  BY <1>1, Invariant, PTL DEF Spec, EndedStaysEnded

-----------------------------------------------------------------------------
(* Why a task whose agent has sent everything waits for a job.  As long as   *)
(* nothing was mixed up, a thread that has not recorded its outcome yet has   *)
(* the claimed job to itself, so the reconciliation with which it records the *)
(* outcome is that of the right task.                                         *)

AtWork(h) == thread[h].step \in {"claimed", "analysing", "bare"}

WorkInv ==
    /\ \A h \in Threads : AtWork(h) =>
           /\ job[thread[h].file].status = "processing"
           /\ job[thread[h].file].task = thread[h].task
    /\ \A h, g \in Threads :
           AtWork(h) /\ AtWork(g) /\ thread[h].file = thread[g].file => h = g
    /\ boot # "up" => \A h \in Threads : thread[h].step = "idle"

Unlinked(jobs) == \A f \in Files : jobs[f].status = "none" => jobs[f].task = NoTask

\* A job a task may wait for.
Awaited(row) == \/ row.status \in Pending
                \/ row.status = "incomplete" /\ row.missing

Waiting(row, t, jobs) ==
    Told(row) => \/ \E f \in Linked(t, jobs) : Awaited(jobs[f])
                 \/ Linked(t, jobs) = {} /\ row.phase = "server_processing"

Waits == \A t \in Tasks : Waiting(task[t], t, job)

WInv == doubtful = {} => Unlinked(job) /\ WorkInv /\ Waits

LEMMA WaitsParts == WaitsForAJob <=> (doubtful = {} => Waits)
  BY DEF WaitsForAJob, Waits, Waiting, Awaited

\* A row that was just reconciled waits for a job, or is settled.
LEMMA ReconciledWaits ==
  ASSUME NEW t \in Tasks, NEW row, NEW jobs \in [Files -> Job], Unlinked(jobs)
  PROVE  Waiting(Reconciled(row, t, jobs), t, jobs)
<1> DEFINE new == Reconciled(row, t, jobs)
<1>1. SUFFICES ASSUME Told(new)
               PROVE  \/ \E f \in Linked(t, jobs) : Awaited(jobs[f])
                      \/ /\ Linked(t, jobs) = {}
                         /\ new.phase = "server_processing"
  BY DEF Waiting
<1>2. new = row /\ Told(row)
  BY <1>1 DEF Told, Reconciled
<1>3. /\ \A f \in Linked(t, jobs) : jobs[f].status # "incomplete"
      /\ \/ \E f \in Linked(t, jobs) : jobs[f].status # "done"
         \/ Linked(t, jobs) = {} /\ row.phase # "completed"
  BY <1>1, <1>2 DEF Told, Reconciled
<1>4. CASE Linked(t, jobs) = {} /\ row.phase # "completed"
  BY <1>2, <1>4 DEF Told
<1>5. CASE \E f \in Linked(t, jobs) : jobs[f].status # "done"
  <2>1. PICK f \in Linked(t, jobs) : jobs[f].status # "done"
    BY <1>5
  <2>2. f \in Files /\ jobs[f].task = t /\ jobs[f].status # "incomplete"
    BY <1>3, <2>1 DEF Linked
  <2>3. jobs[f].status # "none"
    BY <2>2, ScanAssumption DEF Unlinked
  <2>4. jobs[f].status \in Pending
    BY <2>1, <2>2, <2>3, jobs[f] \in Job DEF Job
  <2> QED
    BY <2>1, <2>4 DEF Awaited
<1> QED
  BY <1>3, <1>4, <1>5

\* What a step may make of the row of a task.
Recorded(t) == \/ task'[t] = task[t]
               \/ ~Told(task'[t])
               \/ \E row \in Row : task'[t] = Reconciled(row, t, job')

LEMMA ReconcileRecords ==
  ASSUME task \in [Tasks -> Row], NEW ts, Reconcile(ts)
  PROVE  \A t \in Tasks : Recorded(t)
  BY DEF Reconcile, Recorded

LEMMA MayReconcileRecords ==
  ASSUME task \in [Tasks -> Row], NEW ts, MayReconcile(ts)
  PROVE  \A t \in Tasks : Recorded(t)
  BY ReconcileRecords DEF MayReconcile

LEMMA AppliedRecords ==
  ASSUME task \in [Tasks -> Row], NEW m \in Message, task' = Applied(m),
         UNCHANGED job
  PROVE  \A t \in Tasks : Recorded(t)
<1> DEFINE stored == IF m.status = "completed" THEN "acknowledged" ELSE m.status
           row == [status |-> stored, phase |-> m.phase]
<1>1. CASE task[m.task].status \in Final
  BY <1>1 DEF Applied, Recorded
<1>2. CASE task[m.task].status \notin Final
  <2>1. row \in Row
    BY DEF Message, Row, Active, Final
  <2>2. task' = [task EXCEPT ![m.task] = Reconciled(row, m.task, job)]
    BY <1>2 DEF Applied
  <2>3. job' = job
    OBVIOUS
  <2> HIDE DEF row
  <2> QED
    BY <2>1, <2>2, <2>3 DEF Recorded
<1> QED
  BY <1>1, <1>2

LEMMA OpenStoreRecords ==
  ASSUME task \in [Tasks -> Row], OpenStore, UNCHANGED job
  PROVE  \A t \in Tasks : Recorded(t)
<1> SUFFICES ASSUME NEW t \in Tasks PROVE Recorded(t)
  OBVIOUS
<1>1. \/ task'[t] = [task[t] EXCEPT !.status = "queued"]
      \/ task'[t] = [status |-> "failed", phase |-> "failed"]
      \/ task'[t] = Reconciled(task[t], t, job)
  BY DEF OpenStore
<1>2. task[t] \in Row
  OBVIOUS
<1> QED
  BY <1>1, <1>2 DEF Recorded, Told, Row

\* A job that goes on keeps its task waiting.
LEMMA StillWaits ==
  ASSUME NEW t \in Tasks, NEW row, Waiting(row, t, job),
         \A f \in Files :
             \/ /\ job'[f].task = job[f].task
                /\ job[f].task = t /\ Awaited(job[f]) => Awaited(job'[f])
             \/ job[f].task # t /\ Awaited(job'[f])
  PROVE  Waiting(row, t, job')
<1>1. SUFFICES ASSUME Told(row)
               PROVE  \/ \E f \in Linked(t, job') : Awaited(job'[f])
                      \/ /\ Linked(t, job') = {}
                         /\ row.phase = "server_processing"
  BY DEF Waiting
<1>2. CASE \E f \in Linked(t, job) : Awaited(job[f])
  BY <1>2 DEF Linked
<1>3. CASE Linked(t, job) = {} /\ row.phase = "server_processing"
  BY <1>3 DEF Linked
<1> QED
  BY <1>1, <1>2, <1>3 DEF Waiting

\* The two together: enough for every step.
LEMMA WaitsStep ==
  ASSUME job' \in [Files -> Job], Unlinked(job'), Waits,
         NEW S \in SUBSET Tasks,
         \A t \in S : \E row \in Row : task'[t] = Reconciled(row, t, job'),
         \A t \in Tasks \ S :
             /\ Recorded(t)
             /\ task'[t] = task[t] /\ Told(task[t]) =>
                \A f \in Files :
                   \/ /\ job'[f].task = job[f].task
                      /\ job[f].task = t /\ Awaited(job[f]) => Awaited(job'[f])
                   \/ job[f].task # t /\ Awaited(job'[f])
  PROVE  Waits'
<1> SUFFICES ASSUME NEW t \in Tasks PROVE Waiting(task'[t], t, job')
  BY DEF Waits
<1>1. CASE \E row \in Row : task'[t] = Reconciled(row, t, job')
  BY <1>1, ReconciledWaits
<1>2. CASE ~Told(task'[t])
  BY <1>2 DEF Waiting
<1>3. CASE t \notin S /\ task'[t] = task[t] /\ Told(task[t])
  <2>1. Waiting(task[t], t, job)
    BY DEF Waits
  <2> QED
    BY <1>3, <2>1, StillWaits
<1> QED
  BY <1>1, <1>2, <1>3 DEF Recorded

-----------------------------------------------------------------------------
(* The steps.                                                                *)

\* What was mixed up stays so.
DoubtGrows == doubtful' = {} => doubtful = {}

\* Steps that leave jobs and threads alone.
LEMMA JobsStay ==
  ASSUME IInv, WInv, DoubtGrows, UNCHANGED <<job, thread, boot>>,
         \A t \in Tasks : Recorded(t)
  PROVE  WInv'
<1> SUFFICES ASSUME doubtful' = {} PROVE (Unlinked(job) /\ WorkInv /\ Waits)'
  BY DEF WInv
<1>1. Unlinked(job) /\ WorkInv /\ Waits
  BY DEF WInv, DoubtGrows
<1>2. Unlinked(job)' /\ WorkInv'
  BY <1>1 DEF Unlinked, WorkInv, AtWork
<1>3. job' \in [Files -> Job] /\ Unlinked(job') /\ job' = job
  BY <1>1 DEF IInv, ServerType
<1>4. Waits'
  <2> DEFINE S == {}
  <2>1. \A t \in Tasks \ S :
           /\ Recorded(t)
           /\ task'[t] = task[t] /\ Told(task[t]) =>
              \A f \in Files :
                 \/ /\ job'[f].task = job[f].task
                    /\ job[f].task = t /\ Awaited(job[f]) => Awaited(job'[f])
                 \/ job[f].task # t /\ Awaited(job'[f])
    BY <1>3
  <2>2. S \in SUBSET Tasks /\ \A t \in S :
            \E row \in Row : task'[t] = Reconciled(row, t, job')
    OBVIOUS
  <2> HIDE DEF S
  <2> QED
    BY <1>1, <1>3, <2>1, <2>2, WaitsStep
<1> QED
  BY <1>2, <1>4

\* The agent's steps.
LEMMA AgentWaits ==
  ASSUME IInv, WInv, Agent
  PROVE  WInv'
<1>1. UNCHANGED <<job, thread, boot>>
  BY DEF Agent, Acknowledge, GiveUp, EndScan, Drained, Report, AbortRun,
         AgentCrash, ScanPath, Drain, Revive, server, worker
<1>2. DoubtGrows
  BY DEF Agent, Acknowledge, GiveUp, EndScan, Pruned, Drained, Report, AbortRun,
         AgentCrash, ScanPath, Drain, Revive, DoubtGrows
<1>3. \A t \in Tasks : Recorded(t)
  <2>1. CASE UNCHANGED task
    BY <2>1 DEF Recorded
  <2>2. ASSUME NEW m \in Message, task' = Applied(m)
        PROVE  \A t \in Tasks : Recorded(t)
    BY <1>1, <2>2, AppliedRecords DEF IInv, ServerType
  <2>3. ASSUME NEW m \in Message, Send(m)
        PROVE  UNCHANGED task \/ task' = Applied(m)
    BY <2>3 DEF Send
  <2>4. CASE Acknowledge
    <3> DEFINE m == [task |-> agent.task, status |-> "acknowledged",
                     phase |-> "local_scan"]
    <3>1. m \in Message /\ Send(m)
      BY <2>4 DEF Acknowledge, IInv, AgentType, Owner, Message, Phases
    <3> HIDE DEF m
    <3> QED
      BY <2>1, <2>2, <2>3, <3>1
  <2>5. CASE Report
    <3> DEFINE t == agent.task
               left == {f \in Files : outbox[f].held /\ outbox[f].task = t}
               phase == IF agent.failed THEN "failed"
                        ELSE IF left # {} THEN "agent_outbox"
                        ELSE IF agent.queued THEN "server_processing"
                        ELSE "completed"
               status == IF phase \in {"failed", "completed"} THEN phase
                         ELSE "acknowledged"
               m == [task |-> t, status |-> status, phase |-> phase]
    <3>1. agent.step = "drain" /\ t \in Tasks
      BY <2>5 DEF Report, IInv, AgentType, Owner
    <3>2. m \in Message
      BY <3>1 DEF Message, Phases
    <3>3. Send(m)
      BY <2>5 DEF Report
    <3> HIDE DEF m
    <3> QED
      BY <2>1, <2>2, <2>3, <3>2, <3>3
  <2>6. CASE Drained /\ ~UNCHANGED task
    <3> DEFINE f == agent.file
               t == outbox[f].task
               m == [task |-> t, status |-> "acknowledged",
                     phase |-> "server_processing"]
    <3>1. f \in Files
      BY <2>6 DEF Drained, IInv, AgentType
    <3>2. t \in Owner
      BY <3>1 DEF IInv, BoxType, Item
    <3>3. t # NoTask /\ task' = Applied(m)
      BY <2>6 DEF Drained
    <3>4. m \in Message
      BY <3>2, <3>3 DEF Message, Owner, Phases
    <3> HIDE DEF m
    <3> QED
      BY <2>2, <3>3, <3>4
  <2>7. CASE AbortRun /\ ~UNCHANGED task
    <3> DEFINE m == [task |-> agent.task, status |-> "failed", phase |-> "failed"]
    <3>1. m \in Message /\ task' = Applied(m)
      BY <2>7 DEF AbortRun, IInv, AgentType, Owner, Message, Phases
    <3> HIDE DEF m
    <3> QED
      BY <2>2, <3>1
  <2> QED
    BY <2>1, <2>4, <2>5, <2>6, <2>7
    DEF Agent, GiveUp, EndScan, AgentCrash, ScanPath, Drain, Revive, server
<1> QED
  BY <1>1, <1>2, <1>3, JobsStay

\* A repeated event changes no job.
LEMMA DedupeWaits ==
  ASSUME IInv, WInv, NEW r \in requests, Dedupe(r), UNCHANGED <<job, worker, doubtful>>
  PROVE  WInv'
<1>1. \A t \in Tasks : Recorded(t)
  BY MayReconcileRecords DEF Dedupe, IInv, ServerType
<1> QED
  BY <1>1, JobsStay DEF DoubtGrows, worker

\* A step that queues the job of one file and gives it to the task of a request:
\* nobody works on it, and no other task loses it.
LEMMA QueueWaits ==
  ASSUME IInv, WInv, DoubtGrows, NEW f \in Files, NEW u \in Owner,
         job' = [job EXCEPT ![f] = Queued(f, u)],
         MayReconcile({u} \cap Tasks), UNCHANGED <<thread, boot>>,
         doubtful' = {} => /\ job[f].status \notin Pending
                           /\ job[f].task \in {u, NoTask} \cup Ended
  PROVE  WInv'
<1> SUFFICES ASSUME doubtful' = {} PROVE (Unlinked(job) /\ WorkInv /\ Waits)'
  BY DEF WInv
<1>1. Unlinked(job) /\ WorkInv /\ Waits /\ job \in [Files -> Job]
  BY DEF WInv, DoubtGrows, IInv, ServerType
<1>2. Queued(f, u) \in Job /\ Queued(f, u).status = "queued"
      /\ Queued(f, u).task = u
  BY <1>1, QueuedJob DEF Queued, Job
<1>3. job' \in [Files -> Job] /\ Unlinked(job')
  BY <1>1, <1>2 DEF Unlinked
<1>4. \A h \in Threads : AtWork(h) => thread[h].file # f
  BY <1>1 DEF WorkInv, Pending
<1>5. WorkInv'
  BY <1>1, <1>4 DEF WorkInv, AtWork
<1>6. \A t \in Tasks : Recorded(t)
  BY <1>1, MayReconcileRecords DEF IInv, ServerType
<1>7. ASSUME NEW t \in Tasks, Told(task[t]), NEW g \in Files
      PROVE  \/ /\ job'[g].task = job[g].task
                /\ job[g].task = t /\ Awaited(job[g]) => Awaited(job'[g])
             \/ job[g].task # t /\ Awaited(job'[g])
  <2>1. CASE g # f
    BY <1>1, <2>1
  <2>2. CASE g = f
    <3>1. job'[f] = Queued(f, u) /\ Awaited(job'[f])
      BY <1>1, <1>2 DEF Awaited, Pending
    <3>2. t \notin Ended /\ t # NoTask
      BY <1>7, ScanAssumption DEF Ended, Told, Final
    <3>3. job[f].task = u \/ job[f].task # t
      BY <3>2
    <3> QED
      BY <1>2, <2>2, <3>1, <3>3
  <2> QED
    BY <2>1, <2>2
<1>8. Waits'
  <2> DEFINE S == {}
  <2>1. S \in SUBSET Tasks /\ \A t \in S :
            \E row \in Row : task'[t] = Reconciled(row, t, job')
    OBVIOUS
  <2>2. \A t \in Tasks \ S :
           /\ Recorded(t)
           /\ task'[t] = task[t] /\ Told(task[t]) =>
              \A g \in Files :
                 \/ /\ job'[g].task = job[g].task
                    /\ job[g].task = t /\ Awaited(job[g]) => Awaited(job'[g])
                 \/ job[g].task # t /\ Awaited(job'[g])
    BY <1>6, <1>7
  <2> HIDE DEF S
  <2> QED
    BY <1>1, <1>3, <2>1, <2>2, WaitsStep
<1> QED
  BY <1>3, <1>5, <1>8

\* Jobs keep their tasks, and what was awaited still is.
LEMMA JobsGoOn ==
  ASSUME Waits, job \in [Files -> Job], job' \in [Files -> Job], Unlinked(job),
         \A g \in Files : /\ job'[g].task = job[g].task
                          /\ job'[g].status = "none" => job[g].status = "none"
                          /\ Awaited(job[g]) => Awaited(job'[g]),
         \A t \in Tasks : Recorded(t)
  PROVE  Unlinked(job') /\ Waits'
<1>1. Unlinked(job')
  BY DEF Unlinked
<1>2. Waits'
  <2> DEFINE S == {}
  <2>1. S \in SUBSET Tasks /\ \A t \in S :
            \E row \in Row : task'[t] = Reconciled(row, t, job')
    OBVIOUS
  <2>2. \A t \in Tasks \ S :
           /\ Recorded(t)
           /\ task'[t] = task[t] /\ Told(task[t]) =>
              \A g \in Files :
                 \/ /\ job'[g].task = job[g].task
                    /\ job[g].task = t /\ Awaited(job[g]) => Awaited(job'[g])
                 \/ job[g].task # t /\ Awaited(job'[g])
    OBVIOUS
  <2> HIDE DEF S
  <2> QED
    BY <1>1, <2>1, <2>2, WaitsStep
<1> QED
  BY <1>1, <1>2

\* The spool is cleaned: jobs without payload are refused, not those at work.
LEMMA CleanSpoolWaits ==
  ASSUME IInv, IInv', WInv, NEW left, NEW lapsed \in SUBSET Processing,
         CleanSpool(left, lapsed), lapsed \cap WorkedOn = {}, UNCHANGED thread,
         boot' \in {boot, "up"},
         doubtful = {}
  PROVE  (Unlinked(job) /\ WorkInv /\ Waits)'
<1> DEFINE bare == ({f \in Files : job[f].status = "queued"} \cup lapsed) \ spool
<1>1. Unlinked(job) /\ WorkInv /\ Waits /\ job \in [Files -> Job]
      /\ job' \in [Files -> Job]
  BY DEF WInv, IInv, ServerType
<1>2. job' = [f \in Files |->
                 IF f \in bare
                 THEN [job[f] EXCEPT !.status = "incomplete", !.missing = TRUE]
                 ELSE job[f]]
  BY DEF CleanSpool
<1>3. \A f \in bare : job[f].status \in Pending
  BY DEF Processing, Pending
<1>4. \A h \in Threads : AtWork(h) => /\ thread[h].file \in Files \ bare
                                      /\ job'[thread[h].file] = job[thread[h].file]
  <2> SUFFICES ASSUME NEW h \in Threads, AtWork(h)
               PROVE  thread[h].file \in Files \ bare
    BY <1>2
  <2>1. thread[h].file \in Files /\ job[thread[h].file].status = "processing"
    BY <1>1, WorkFile DEF WorkInv, AtWork
  <2> QED
    BY <2>1 DEF WorkedOn
<1> HIDE DEF bare
<1>5. WorkInv'
  BY <1>1, <1>4 DEF WorkInv, AtWork
<1>6. \A t \in Tasks : Recorded(t)
  BY MayReconcileRecords DEF CleanSpool, IInv, ServerType
<1>7. \A g \in Files : /\ job'[g].task = job[g].task
                       /\ job'[g].status = "none" => job[g].status = "none"
                       /\ Awaited(job[g]) => Awaited(job'[g])
  BY <1>1, <1>2, <1>3 DEF Awaited, Job
<1> QED
  BY <1>1, <1>5, <1>6, <1>7, JobsGoOn

LEMMA ReconcileSpoolWaits ==
  ASSUME IInv, IInv', WInv, ReconcileSpool, doubtful' = {}
  PROVE  (Unlinked(job) /\ WorkInv /\ Waits)'
  BY CleanSpoolWaits DEF ReconcileSpool

\* A thread at work whose lease has lapsed is an upset; the others keep their job.
LEMMA StartupMaintenanceWaits ==
  ASSUME IInv, IInv', WInv, StartupMaintenance, doubtful' = {}
  PROVE  (Unlinked(job) /\ WorkInv /\ Waits)'
<1>1. PICK lapsed \in SUBSET (Processing \ spool) :
          /\ CleanSpool(requests \ {Startup}, lapsed)
          /\ IF lapsed \cap WorkedOn = {} THEN UNCHANGED <<upsets, doubtful>>
             ELSE Upset /\ doubtful' = doubtful \cup (lapsed \cap WorkedOn)
  BY DEF StartupMaintenance
<1>2. lapsed \cap WorkedOn = {} /\ doubtful = {} /\ UNCHANGED <<thread, boot>>
  BY <1>1 DEF StartupMaintenance, worker
<1> QED
  BY <1>1, <1>2, CleanSpoolWaits

LEMMA ApiWaits ==
  ASSUME IInv, IInv', WInv, Api
  PROVE  WInv'
<1>0. task \in [Tasks -> Row] /\ job \in [Files -> Job]
  BY DEF IInv, ServerType
<1>1. ASSUME NEW t \in Tasks, Create(t)
      PROVE  WInv'
  <2>1. \A u \in Tasks : Recorded(u)
    BY <1>0, <1>1 DEF Create, Recorded, Told
  <2> QED
    BY <1>1, <2>1, JobsStay DEF Create, DoubtGrows, worker
<1>2. ASSUME NEW old, NEW stale, Maintain(old, stale)
      PROVE  WInv'
  <2>1. \A u \in Tasks : Recorded(u)
    BY <1>0, <1>2 DEF Maintain, Maintained, Recorded, Told, Row
  <2> QED
    BY <1>2, <2>1, JobsStay DEF Maintain, DoubtGrows, worker
<1>3. ASSUME NEW t \in Tasks, NEW old, NEW stale, Poll(t, old, stale)
      PROVE  WInv'
  <2> DEFINE rows == Maintained(old, stale)
  <2>1. \A u \in Tasks : rows[u] = task[u] \/ ~Told(rows[u])
    BY <1>0 DEF Maintained, Told, Row
  <2>2. rows \in [Tasks -> Row] /\ task' = [rows EXCEPT ![t].status = "delivered"]
    BY <1>0, <1>3, MaintainedKeeps DEF Poll
  <2> HIDE DEF rows
  <2>3. \A u \in Tasks : Recorded(u)
    BY <2>1, <2>2 DEF Recorded, Told, Row
  <2> QED
    BY <1>3, <2>3, JobsStay DEF Poll, DoubtGrows, worker
<1>4. ASSUME NEW m \in reports, LateReport(m)
      PROVE  WInv'
  <2>1. m \in Message
    BY DEF IInv, MessageType
  <2>2. \A u \in Tasks : Recorded(u)
    BY <1>0, <1>4, <2>1, AppliedRecords DEF LateReport
  <2> QED
    BY <1>4, <2>2, JobsStay DEF LateReport, DoubtGrows, worker
<1>5. ASSUME NEW r \in requests, Refuse(r)
      PROVE  WInv'
  <2>1. \A u \in Tasks : Recorded(u)
    BY <1>5 DEF Refuse, Recorded, server
  <2> QED
    BY <1>5, <2>1, JobsStay DEF Refuse, DoubtGrows, worker, server
<1>6. ASSUME NEW r \in requests, Lookup(r)
      PROVE  WInv'
  <2>1. CASE UNCHANGED <<task, job>>
    <3>1. \A u \in Tasks : Recorded(u)
      BY <2>1 DEF Recorded
    <3> QED
      BY <1>6, <2>1, <3>1, JobsStay DEF Lookup, DoubtGrows, worker
  <2>2. CASE job' = job /\ Dedupe(r)
    BY <1>6, <2>2, DedupeWaits DEF Lookup
  <2> QED
    BY <1>6, <2>1, <2>2 DEF Lookup, server
<1>7. ASSUME NEW r \in requests, Insert(r)
      PROVE  WInv'
  <2>1. r.file \in Files /\ r.task \in Owner
    BY <1>7, TypedRequest DEF Insert, Request
  <2>2. CASE job[r.file].status = "none"
    <3>1. /\ job' = [job EXCEPT ![r.file] = Queued(r.file, r.task)]
          /\ MayReconcile({r.task} \cap Tasks)
      BY <1>7, <2>2 DEF Insert
    <3>2. doubtful = {} => job[r.file].task = NoTask
      BY <2>1, <2>2 DEF WInv, Unlinked
    <3>3. DoubtGrows /\ UNCHANGED <<thread, boot, doubtful>>
      BY <1>7 DEF Insert, DoubtGrows, worker
    <3> QED
      BY <2>1, <2>2, <3>1, <3>2, <3>3, QueueWaits DEF Pending
  <2>3. CASE job[r.file].status # "none"
    BY <1>7, <2>3, DedupeWaits DEF Insert
  <2> QED
    BY <2>2, <2>3
<1>8. ASSUME NEW r \in requests, Reopen(r)
      PROVE  WInv'
  <2>1. r.file \in Files /\ r.task \in Owner
    BY <1>8, TypedRequest DEF Reopen, Request
  <2>2. /\ job' = [job EXCEPT ![r.file] = Queued(r.file, r.task)]
        /\ MayReconcile({r.task} \cap Tasks)
        /\ DoubtGrows /\ UNCHANGED <<thread, boot>>
    BY <1>8 DEF Reopen, DoubtGrows, worker
  <2>3. doubtful' = {} => /\ job[r.file].status \notin Pending
                          /\ job[r.file].task \in {r.task, NoTask} \cup Ended
    BY <1>8 DEF Reopen, Reopens, Pending
  <2> QED
    BY <2>1, <2>2, <2>3, QueueWaits
<1>9. CASE ApiRestart
  <2>1. \A u \in Tasks : Recorded(u)
    BY <1>0, <1>9, OpenStoreRecords DEF ApiRestart
  <2> QED
    BY <1>9, <2>1, JobsStay DEF ApiRestart, DoubtGrows, worker
<1>10. CASE StartupMaintenance
  BY <1>10, StartupMaintenanceWaits DEF WInv
<1> QED
  BY <1>1, <1>2, <1>3, <1>4, <1>5, <1>6, <1>7, <1>8, <1>9, <1>10 DEF Api

LEMMA RequeueInterruptedWaits ==
  ASSUME IInv, IInv', WInv, RequeueInterrupted, doubtful' = {}
  PROVE  (Unlinked(job) /\ WorkInv /\ Waits)'
<1>1. Unlinked(job) /\ WorkInv /\ Waits /\ job \in [Files -> Job]
      /\ job' \in [Files -> Job]
  BY DEF RequeueInterrupted, WInv, IInv, ServerType
<1>2. \A h \in Threads : thread[h].step = "idle" /\ thread'[h].step = "idle"
  BY <1>1 DEF WorkInv, RequeueInterrupted
<1>3. WorkInv'
  BY <1>2 DEF WorkInv, AtWork
<1>4. \A t \in Tasks : Recorded(t)
  BY MayReconcileRecords DEF RequeueInterrupted, IInv, ServerType
<1>5. \A g \in Files : /\ job'[g].task = job[g].task
                       /\ job'[g].status = "none" => job[g].status = "none"
                       /\ Awaited(job[g]) => Awaited(job'[g])
  BY <1>1 DEF RequeueInterrupted, Processing, Awaited, Pending, Job
<1> QED
  BY <1>1, <1>3, <1>4, <1>5, JobsGoOn

LEMMA RequeueStaleWaits ==
  ASSUME IInv, IInv', WInv, NEW f \in Files, RequeueStale(f), doubtful' = {}
  PROVE  (Unlinked(job) /\ WorkInv /\ Waits)'
<1>1. f \notin WorkedOn /\ doubtful = {}
  BY DEF RequeueStale
<1>2. Unlinked(job) /\ WorkInv /\ Waits /\ job \in [Files -> Job]
      /\ job' \in [Files -> Job]
  BY <1>1 DEF WInv, IInv, ServerType
<1>3. job' = [job EXCEPT ![f].status = "queued"] /\ UNCHANGED <<thread, boot>>
      /\ job[f].status = "processing"
  BY DEF RequeueStale, worker, Processing
<1>4. WorkInv'
  BY <1>1, <1>2, <1>3 DEF WorkInv, AtWork, WorkedOn
<1>5. \A t \in Tasks : Recorded(t)
  BY MayReconcileRecords DEF RequeueStale, IInv, ServerType
<1>6. \A g \in Files : /\ job'[g].task = job[g].task
                       /\ job'[g].status = "none" => job[g].status = "none"
                       /\ Awaited(job[g]) => Awaited(job'[g])
  BY <1>2, <1>3 DEF Awaited, Pending, Job
<1> QED
  BY <1>2, <1>4, <1>5, <1>6, JobsGoOn

LEMMA ClaimWaits ==
  ASSUME IInv, IInv', WInv, NEW h \in Threads, NEW f \in Files, Claim(h, f),
         doubtful' = {}
  PROVE  (Unlinked(job) /\ WorkInv /\ Waits)'
<1>1. Unlinked(job) /\ WorkInv /\ Waits /\ job \in [Files -> Job]
      /\ job' \in [Files -> Job]
  BY DEF Claim, WInv, IInv, ServerType
<1>2. /\ job[f].status = "queued" /\ thread[h].step = "idle" /\ boot' = "up"
      /\ job' = [job EXCEPT ![f].status = "processing", ![f].tries = Tried(f)]
      /\ thread' = [thread EXCEPT ![h] = [step |-> "claimed", file |-> f,
                                          task |-> job[f].task,
                                          tries |-> Tried(f)]]
  BY DEF Claim
<1>3. \A g \in Files : /\ job'[g].task = job[g].task
                       /\ job'[g].status = "none" => job[g].status = "none"
                       /\ Awaited(job[g]) => Awaited(job'[g])
  BY <1>1, <1>2 DEF Awaited, Pending, Job
<1>4. \A t \in Tasks : Recorded(t)
  BY DEF Claim, Recorded
<1>5. \A g \in Threads : AtWork(g) => thread[g].file # f
  BY <1>1, <1>2 DEF WorkInv
<1>6. /\ thread'[h].file = f /\ thread'[h].task = job[f].task
      /\ \A g \in Threads \ {h} : thread'[g] = thread[g]
      /\ job'[f].status = "processing" /\ job'[f].task = job[f].task
      /\ \A g \in Files \ {f} : job'[g] = job[g]
  BY <1>1, <1>2 DEF IInv, ThreadType, Job
<1>7. \A g \in Threads : AtWork(g)' =>
          g = h \/ (AtWork(g) /\ thread'[g] = thread[g] /\ thread[g].file # f
                    /\ thread[g].file \in Files)
  BY <1>5, <1>6, WorkFile DEF AtWork
<1>8. WorkInv'
  BY <1>1, <1>2, <1>6, <1>7 DEF WorkInv
<1> QED
  BY <1>1, <1>3, <1>4, <1>8, JobsGoOn

\* The outcome is recorded, and the task of the job reconciled.
LEMMA FinalizeWaits ==
  ASSUME IInv, IInv', WInv, NEW h \in Threads, AtWork(h),
         NEW status \in {"done", "incomplete"}, NEW missing \in BOOLEAN,
         Finalize(h, status, missing), doubtful = {}, UNCHANGED boot
  PROVE  (Unlinked(job) /\ WorkInv /\ Waits)'
<1> DEFINE f == thread[h].file
           t0 == job[f].task
<1>1. Unlinked(job) /\ WorkInv /\ Waits /\ job \in [Files -> Job]
      /\ job' \in [Files -> Job] /\ task \in [Tasks -> Row]
  BY DEF WInv, IInv, ServerType
<1>2. f \in Files /\ job[f].status = "processing" /\ t0 = thread[h].task
  BY <1>1, WorkFile DEF WorkInv, AtWork
<1>3. /\ job' = [job EXCEPT ![f].status = status, ![f].missing = missing]
      /\ Reconcile({t0} \cap Tasks)
      /\ thread' = [thread EXCEPT ![h].step = "recorded"]
  BY <1>2 DEF Finalize
<1>4. Unlinked(job')
  BY <1>1, <1>2, <1>3 DEF Unlinked
<1>5. \A g \in Threads : AtWork(g)' => AtWork(g) /\ thread'[g] = thread[g]
                                       /\ thread[g].file # f
                                       /\ thread[g].file \in Files
  <2>1. ~AtWork(h)'
    BY <1>3 DEF AtWork, IInv, ThreadType
  <2>2. \A g \in Threads : g # h => thread'[g] = thread[g]
    BY <1>3 DEF IInv, ThreadType
  <2> QED
    BY <1>1, <2>1, <2>2, WorkFile DEF AtWork, WorkInv
<1>6. \A g \in Files : g # f => job'[g] = job[g]
  BY <1>1, <1>3
<1>7. WorkInv'
  <2>1. (boot # "up")' => \A g \in Threads : thread[g].step = "idle"
    BY <1>1 DEF WorkInv
  <2>2. boot' = "up"
    BY <2>1 DEF AtWork
  <2> QED
    BY <1>1, <1>5, <1>6, <2>2 DEF WorkInv
<1>8. Waits'
  <2> DEFINE S == {t0} \cap Tasks
  <2>1. \A t \in Tasks : task[t] \in Row
    BY <1>1
  <2>2. S \in SUBSET Tasks /\ \A t \in S :
            \E row \in Row : task'[t] = Reconciled(row, t, job')
    BY <1>3, <2>1 DEF Reconcile
  <2>3. job'[f].task = t0 /\ \A t \in Tasks \ S : Recorded(t) /\ t # t0
    BY <1>1, <1>2, <1>3 DEF Recorded, Reconcile
  <2>4. \A t \in Tasks \ S :
           /\ Recorded(t)
           /\ task'[t] = task[t] /\ Told(task[t]) =>
              \A g \in Files :
                 \/ /\ job'[g].task = job[g].task
                    /\ job[g].task = t /\ Awaited(job[g]) => Awaited(job'[g])
                 \/ job[g].task # t /\ Awaited(job'[g])
    BY <1>6, <2>3
  <2> HIDE DEF S
  <2> QED
    BY <1>1, <1>4, <2>2, <2>4, WaitsStep
<1> QED
  BY <1>4, <1>7, <1>8

\* A thread lets its job go.
LEMMA FreedWork ==
  ASSUME IInv, WorkInv, NEW h \in Threads, thread' = [thread EXCEPT ![h] = Free],
         \A g \in Files : g = thread[h].file \/ job'[g] = job[g],
         AtWork(h) \/ job' = job, UNCHANGED boot
  PROVE  WorkInv'
<1>1. \A g \in Threads : AtWork(g)' => AtWork(g) /\ thread'[g] = thread[g] /\ g # h
                                       /\ thread[g].file \in Files
  BY WorkFile DEF AtWork, Free, IInv, ThreadType
<1>2. \A g \in Threads : thread[g].step = "idle" => thread'[g].step = "idle"
  BY DEF Free, IInv, ThreadType
<1>3. \A g \in Threads : AtWork(g)' => job'[thread[g].file] = job[thread[g].file]
  BY <1>1 DEF WorkInv
<1> QED
  BY <1>1, <1>2, <1>3 DEF WorkInv

LEMMA AnalyseWaits ==
  ASSUME IInv, IInv', WInv, NEW h \in Threads, Analyse(h), doubtful' = {}
  PROVE  (Unlinked(job) /\ WorkInv /\ Waits)'
<1>1. doubtful = {} /\ AtWork(h) /\ UNCHANGED boot /\ thread[h].file \in Files
  BY WorkFile DEF Analyse, AtWork
<1>2. CASE \E status \in {"done", "incomplete"} : Finalize(h, status, FALSE)
  BY <1>1, <1>2, FinalizeWaits
<1>3. CASE /\ job' = [job EXCEPT ![thread[h].file].status = "queued",
                                 ![thread[h].file].missing = FALSE]
           /\ MayReconcile({job[thread[h].file].task} \cap Tasks)
           /\ thread' = [thread EXCEPT ![h] = Free]
  <2>1. Unlinked(job) /\ WorkInv /\ Waits /\ job \in [Files -> Job]
        /\ job' \in [Files -> Job]
    BY <1>1 DEF WInv, IInv, ServerType
  <2>2. job[thread[h].file].status = "processing"
    BY <1>1, <2>1 DEF WorkInv
  <2>3. WorkInv'
    BY <1>1, <1>3, <2>1, FreedWork
  <2>4. \A t \in Tasks : Recorded(t)
    BY <1>3, MayReconcileRecords DEF IInv, ServerType
  <2>5. \A g \in Files : /\ job'[g].task = job[g].task
                         /\ job'[g].status = "none" => job[g].status = "none"
                         /\ Awaited(job[g]) => Awaited(job'[g])
    BY <1>1, <1>3, <2>1, <2>2 DEF Awaited, Pending, Job
  <2> QED
    BY <2>1, <2>3, <2>4, <2>5, JobsGoOn
<1> QED
  BY <1>2, <1>3 DEF Analyse

\* Threads come to rest or read their payload: no row changes.
LEMMA ThreadWaits ==
  ASSUME IInv, WInv, UNCHANGED job, doubtful' = doubtful,
         \A t \in Tasks : Recorded(t), WorkInv => WorkInv'
  PROVE  WInv'
<1>1. CASE doubtful # {}
  BY <1>1 DEF WInv
<1>2. CASE doubtful = {}
  <2>1. Unlinked(job) /\ WorkInv /\ Waits /\ job \in [Files -> Job]
    BY <1>2 DEF WInv, IInv, ServerType
  <2>2. Unlinked(job') /\ Waits'
    BY <2>1, JobsGoOn
  <2> QED
    BY <2>1, <2>2 DEF WInv, Unlinked
<1> QED
  BY <1>1, <1>2

LEMMA WorkerWaits ==
  ASSUME IInv, IInv', WInv, Worker
  PROVE  WInv'
<1>1. CASE WorkerCrash
  <2>1. WorkInv'
    BY <1>1 DEF WorkerCrash, WorkInv, AtWork, Free
  <2>2. \A t \in Tasks : Recorded(t)
    BY <1>1 DEF WorkerCrash, Recorded, server
  <2> QED
    BY <1>1, <2>1, <2>2, ThreadWaits DEF WorkerCrash, server
<1>2. CASE WorkerStart
  <2>1. WorkInv => WorkInv'
    BY <1>2 DEF WorkerStart, WorkInv, AtWork
  <2>2. \A t \in Tasks : Recorded(t)
    BY <1>2, OpenStoreRecords DEF WorkerStart, IInv, ServerType
  <2> QED
    BY <1>2, <2>1, <2>2, ThreadWaits DEF WorkerStart
<1>3. CASE RequeueInterrupted
  BY <1>3, RequeueInterruptedWaits DEF WInv
<1>4. CASE ReconcileSpool
  BY <1>4, ReconcileSpoolWaits DEF WInv
<1>5. ASSUME NEW f \in Files, RequeueStale(f)
      PROVE  WInv'
  BY <1>5, RequeueStaleWaits DEF WInv
<1>6. ASSUME NEW h \in Threads, NEW f \in Files, Claim(h, f)
      PROVE  WInv'
  BY <1>6, ClaimWaits DEF WInv
<1>7. ASSUME NEW h \in Threads, ReadPayload(h)
      PROVE  WInv'
  <2>1. WorkInv => WorkInv'
    <3>1. \A g \in Threads : /\ AtWork(g)' <=> AtWork(g)
                             /\ thread'[g].file = thread[g].file
                             /\ thread'[g].task = thread[g].task
                             /\ thread[g].step = "idle" => thread'[g].step = "idle"
      BY <1>7 DEF ReadPayload, AtWork, IInv, ThreadType
    <3> QED
      BY <1>7, <3>1 DEF WorkInv, ReadPayload, server
  <2>2. \A t \in Tasks : Recorded(t)
    BY <1>7 DEF ReadPayload, Recorded, server
  <2> QED
    BY <1>7, <2>1, <2>2, ThreadWaits DEF ReadPayload, server
<1>8. ASSUME NEW h \in Threads, Analyse(h)
      PROVE  WInv'
  BY <1>8, AnalyseWaits DEF WInv
<1>9. ASSUME NEW h \in Threads, RefuseBare(h)
      PROVE  WInv'
  <2>1. /\ AtWork(h) /\ UNCHANGED <<boot, doubtful>>
        /\ \E missing \in BOOLEAN : Finalize(h, "incomplete", missing)
    BY <1>9 DEF RefuseBare, AtWork
  <2> QED
    BY <2>1, FinalizeWaits DEF WInv
<1>10. ASSUME NEW h \in Threads, Abandon(h) \/ DeletePayload(h)
       PROVE  WInv'
  <2>1. /\ thread' = [thread EXCEPT ![h] = Free]
        /\ UNCHANGED <<task, job, boot, doubtful>>
    BY <1>10 DEF Abandon, DeletePayload, server
  <2>2. WorkInv => WorkInv'
    BY <2>1, FreedWork
  <2>3. \A t \in Tasks : Recorded(t)
    BY <2>1 DEF Recorded
  <2> QED
    BY <2>1, <2>2, <2>3, ThreadWaits
<1> QED
  BY <1>1, <1>2, <1>3, <1>4, <1>5, <1>6, <1>7, <1>8, <1>9, <1>10
  DEF Worker, Thread

LEMMA WaitsInvariant == Spec => [](IInv /\ WInv)
<1>1. Init => IInv /\ WInv
  <2>1. ASSUME Init
        PROVE  Unlinked(job) /\ WorkInv /\ Waits
    BY <2>1 DEF Init, NoJob, Free, Unlinked, WorkInv, AtWork, Waits, Waiting, Told
  <2> QED
    BY <2>1, InitIInv DEF WInv
<1>2. IInv /\ WInv /\ [Next]_vars => (IInv /\ WInv)'
  <2> SUFFICES ASSUME IInv, WInv, [Next]_vars PROVE (IInv /\ WInv)'
    OBVIOUS
  <2>1. IInv'
    BY NextIInv
  <2>2. CASE Agent
    BY <2>1, <2>2, AgentWaits
  <2>3. CASE Api
    BY <2>1, <2>3, ApiWaits
  <2>4. CASE Worker
    BY <2>1, <2>4, WorkerWaits
  <2>5. CASE UNCHANGED vars
    <3>1. UNCHANGED <<task, job, thread, boot, doubtful>>
      BY <2>5 DEF vars, server, worker
    <3> QED
      BY <2>1, <3>1 DEF WInv, Unlinked, WorkInv, AtWork, Waits, Waiting, Linked
  <2> QED
    BY <2>2, <2>3, <2>4, <2>5 DEF Next
<1> QED
  BY <1>1, <1>2, PTL DEF Spec

\* Reconciliations that are skipped miss no completion: unless something was
\* mixed up, a task whose agent has sent everything waits for a pending job, or
\* has none at all, or one that a restart refused for want of its payload.
THEOREM NoMissedCompletion == Spec => []WaitsForAJob
<1>1. WInv => WaitsForAJob
  BY WaitsParts DEF WInv
<1> QED
  BY <1>1, WaitsInvariant, PTL
=============================================================================
