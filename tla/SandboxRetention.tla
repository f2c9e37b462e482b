-------------------------- MODULE SandboxRetention --------------------------
(***************************************************************************)
(* The retention of a conversation's workspace, composed with its jobs.     *)
(* A sweep lists the sessions that have expired, fences the session with a  *)
(* fresh purge token, detaches the workspace directory to a tombstone named *)
(* by the token, deletes the tombstone and marks the session purged.  Each  *)
(* of these is a step of its own, between which jobs, users and other       *)
(* sweeps act; a sweep that dies is taken up from the token in the row.     *)
(*                                                                         *)
(* Workspaces and tokens are numbered: a workspace carries the number of    *)
(* the first token that is allowed to remove it.                            *)
(***************************************************************************)
EXTENDS AiSandboxJobs

CONSTANTS Purgers,    \* the sweeps: one in each worker process
          MaxPurges,  \* bound: purge tokens that are issued
          MaxDeaths   \* bound: sweeps that die or fail

ASSUME RetentionAssumption == MaxPurges \in Nat /\ MaxDeaths \in Nat

VARIABLES
    expired,     \* expires_at of the session has passed
    unread,      \* purgers whose listed last_activity_at is still that of the row
    purges,      \* tokens issued so far; the last is purge_token of the row
    workspace,   \* 0, or the number of the workspace under the fixed key
    tombstones,  \* tokens with a tombstone
    purger,      \* what each sweep is doing
    unfenced,    \* history: a purge in progress lost its fence, or its sweep
                 \* was given up on and went on
    deaths       \* used-up bound

disk   == <<workspace, tombstones>>
sweeps == <<purger, unfenced, deaths>>
rvars  == <<vars, expired, unread, purges, disk, sweeps>>

RInit == /\ Init
         /\ expired = FALSE
         /\ unread = {}
         /\ purges = 0
         /\ workspace = 0
         /\ tombstones = {}
         /\ purger = [p \in Purgers |-> [step |-> "idle", token |-> 0]]
         /\ unfenced = FALSE
         /\ deaths = 0

PurgerStep(p, s, t) ==
    /\ purger' = [purger EXCEPT ![p] = [step |-> s, token |-> t]]
    /\ UNCHANGED <<unfenced, deaths>>

At(p, s) == purger[p].step = s

-----------------------------------------------------------------------------
(* What the jobs do to the retention.                                      *)

\* A step that writes last_activity_at makes every listing out of date.
ActivityStep ==
    /\ Activity
    /\ unread' = IF row' = row THEN unread ELSE {}
    /\ UNCHANGED <<expired, purges, disk, sweeps>>

QuietStep == Quiet /\ UNCHANGED <<expired, unread, purges, disk, sweeps>>

\* touch_session moves expires_at and last_activity_at of an open session.
TouchSession(j) ==
    /\ Touch(j)
    /\ IF session \in Fenced
       THEN UNCHANGED <<expired, unread>>
       ELSE expired' = FALSE /\ unread' = {}
    /\ UNCHANGED <<purges, disk, sweeps>>

\* provision: mkdir(exist_ok=True) under the key of the session.
ProvisionWorkspace(w) ==
    /\ Provision(w)
    /\ workspace' = IF workspace = 0 THEN purges + 1 ELSE workspace
    /\ UNCHANGED <<expired, unread, purges, tombstones, sweeps>>

\* retire_conversation makes the workspace eligible at once.  It writes the
\* status of the session whatever it was, "purging" included.
RetireSession ==
    /\ Retire
    /\ expired' = TRUE
    /\ unfenced' = (unfenced \/ session = "purging")
    /\ UNCHANGED <<unread, purges, disk, purger, deaths>>

\* create_session of a purged one: the same key, a fresh lease.
ReopenSession ==
    /\ Reopen
    /\ expired' = FALSE /\ unread' = {}
    /\ UNCHANGED <<purges, disk, sweeps>>

\* Time passes.
Expire ==
    /\ ~expired
    /\ expired' = TRUE
    /\ UNCHANGED <<vars, unread, purges, disk, sweeps>>

-----------------------------------------------------------------------------
(* The sweep: purge_expired_once, and purge of the provisioner.            *)

\* list_expired_sessions.
ListExpired(p) ==
    /\ At(p, "idle")
    /\ expired /\ session \in {"ready", "stopped"} /\ NoActiveJob
    /\ PurgerStep(p, "listed", 0)
    /\ unread' = unread \cup {p}
    /\ UNCHANGED <<vars, expired, purges, disk>>

\* Mutant: a stale purge is taken up without its token.
ListStaleUnfenced(p) ==
    /\ At(p, "idle")
    /\ session = "purging" /\ NoActiveJob
    /\ PurgerStep(p, "marked", 0)
    /\ UNCHANGED <<vars, expired, unread, purges, disk>>

\* recover_stale_purging_sessions: any purge may have become stale, that of a
\* sweep that is only slow included.
ListStale(p) ==
    /\ At(p, "idle")
    /\ session = "purging" /\ NoActiveJob
    /\ purger' = [purger EXCEPT ![p] = [step |-> "marked", token |-> purges]]
    /\ unfenced' = (unfenced \/ \E q \in Purgers : purger[q].token = purges)
    /\ UNCHANGED <<vars, expired, unread, purges, disk, deaths>>

\* Mutant: the listing is trusted, last_activity_at is not compared.
MarkListed(p) ==
    /\ At(p, "listed")
    /\ purges < MaxPurges
    /\ MarkForPurge
    /\ purges' = purges + 1
    /\ PurgerStep(p, "marked", purges')
    /\ unread' = unread \ {p}
    /\ UNCHANGED <<expired, disk>>

\* Mutant: the jobs of the session are not looked at again.
MarkUnderJob(p) ==
    /\ At(p, "listed")
    /\ p \in unread
    /\ purges < MaxPurges
    /\ session \in {"ready", "stopped"}
    /\ session' = "purging"
    /\ permission' = [j \in Jobs |-> IF permission[j] = "pending"
                                     THEN "expired" ELSE permission[j]]
    /\ UNCHANGED <<status, claimed_by, attempt, cleanup>>
    /\ UNCHANGED <<request, worker, outside, history, losses>>
    /\ purges' = purges + 1
    /\ PurgerStep(p, "marked", purges')
    /\ unread' = unread \ {p}
    /\ UNCHANGED <<expired, disk>>

\* mark_session_for_purge.
Mark(p) ==
    /\ At(p, "listed")
    /\ p \in unread
    /\ purges < MaxPurges
    /\ MarkForPurge
    /\ purges' = purges + 1
    /\ PurgerStep(p, "marked", purges')
    /\ unread' = unread \ {p}
    /\ UNCHANGED <<expired, disk>>

\* The mark is refused: the listing is out of date.
Pass(p) ==
    /\ At(p, "listed")
    /\ p \notin unread \/ session \notin {"ready", "stopped"} \/ ~NoActiveJob
    /\ PurgerStep(p, "idle", 0)
    /\ unread' = unread \ {p}
    /\ UNCHANGED <<vars, expired, purges, disk>>

\* purge: without a tombstone of its token, a workspace is to be detached ...
Look(p) ==
    /\ At(p, "marked")
    /\ PurgerStep(p, IF purger[p].token \notin tombstones /\ workspace # 0
                     THEN "rename" ELSE "delete", purger[p].token)
    /\ UNCHANGED <<vars, expired, unread, purges, disk>>

\* ... unless somebody else has done so meanwhile ...
Rename(p) ==
    /\ At(p, "rename")
    /\ IF workspace # 0 /\ purger[p].token \notin tombstones
       THEN workspace' = 0 /\ tombstones' = tombstones \cup {purger[p].token}
       ELSE UNCHANGED disk
    /\ PurgerStep(p, "delete", purger[p].token)
    /\ UNCHANGED <<vars, expired, unread, purges>>

\* ... and the tombstone is deleted.
Delete(p) ==
    /\ At(p, "delete")
    /\ tombstones' = tombstones \ {purger[p].token}
    /\ PurgerStep(p, "deleted", purger[p].token)
    /\ UNCHANGED <<vars, expired, unread, purges, workspace>>

\* Mutant: a sweep that failed to finish counts as a purge.
ReportAny(p) ==
    /\ purger[p].step \in {"rename", "delete", "deleted"}
    /\ IF session = "purging" /\ purger[p].token = purges /\ NoActiveJob
       THEN MarkPurged ELSE UNCHANGED vars
    /\ PurgerStep(p, "idle", 0)
    /\ UNCHANGED <<expired, unread, purges, disk>>

\* mark_session_purged: refused without the token of the row.
Report(p) ==
    /\ At(p, "deleted")
    /\ IF session = "purging" /\ purger[p].token = purges /\ NoActiveJob
       THEN MarkPurged ELSE UNCHANGED vars
    /\ PurgerStep(p, "idle", 0)
    /\ UNCHANGED <<expired, unread, purges, disk>>

\* The process dies, or the purge raises: the session stays as it is.
Abandon(p) ==
    /\ ~At(p, "idle")
    /\ deaths < MaxDeaths
    /\ deaths' = deaths + 1
    /\ purger' = [purger EXCEPT ![p] = [step |-> "idle", token |-> 0]]
    /\ unread' = unread \ {p}
    /\ UNCHANGED <<vars, expired, purges, disk, unfenced>>

Sweep(p) == \/ ListExpired(p) \/ ListStale(p) \/ Mark(p) \/ Pass(p)
            \/ Look(p) \/ Rename(p) \/ Delete(p) \/ Report(p)

RNext == \/ ActivityStep \/ QuietStep \/ RetireSession \/ ReopenSession \/ Expire
         \/ \E j \in Jobs : TouchSession(j)
         \/ \E w \in Workers : ProvisionWorkspace(w)
         \/ \E p \in Purgers : Sweep(p) \/ Abandon(p)

RSpec == RInit /\ [][RNext]_rvars

\* The poll loop of a worker sweeps in every round.
FairRSpec == RSpec /\ \A p \in Purgers : WF_rvars(Sweep(p))

-----------------------------------------------------------------------------
PurgerSteps == {"idle", "listed", "marked", "rename", "delete", "deleted"}

RTypeOK == /\ TypeOK
           /\ expired \in BOOLEAN
           /\ unread \subseteq Purgers
           /\ purges \in 0 .. MaxPurges
           /\ workspace \in 0 .. MaxPurges + 1
           /\ tombstones \subseteq 1 .. MaxPurges
           /\ purger \in [Purgers -> [step : PurgerSteps, token : 0 .. MaxPurges]]
           /\ unfenced \in BOOLEAN
           /\ deaths \in Nat

\* No fence was lifted, and nobody who was given up on went on.
Undoubted == ~unfenced /\ overtaken = {}

\* A session whose lease was extended after the sweep listed it is not purged.
PurgeOnlyExpired == [][session' = "purging" => session = "purging" \/ expired]_rvars

\* A session that reads purged has left nothing on the disk, whichever sweep
\* died after the detaching and whichever took the deletion over.  Not said
\* when a sweep or a worker that was taken for dead is still at work.
PurgedIsDeleted == session = "purged" /\ Undoubted => workspace = 0 /\ tombstones = {}

\* A purge that was begun comes to its end, whatever sweep dies on the way.
PurgeEnds == session = "purging" ~> session # "purging"

\* The sweep changes a conversation's jobs and session only as AiSandboxJobs
\* lets its retention do.
ImplementsJobs == Spec

\* A purge detaches the workspace its token was issued for and never the one
\* that the conversation has been given since (executor.py, purge: "this
\* worker remains fenced to its immutable token-scoped tombstone").
PurgeSparesNewWorkspace ==
    [][\A p \in Purgers : Rename(p) /\ workspace # workspace' =>
                             workspace <= purger[p].token]_rvars
=============================================================================
