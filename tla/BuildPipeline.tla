---------------------------- MODULE BuildPipeline ----------------------------
(***************************************************************************)
(* One server process building dashboards: the build thread an approve     *)
(* starts (agent/pipeline.py compile_and_build, _commit_delivery, agent/   *)
(* cleanup.py), the BI system it writes to, the registry entry the API     *)
(* keeps of a session (api/sessions.py), crashes of the process, and the   *)
(* recovery the next start runs before it serves (cli.py _serve).          *)
(*                                                                         *)
(* Durable state is BuildStore's; the rest of the process dies in Crash.   *)
(* The BI system may refuse any call, or perform it and lose the answer.   *)
(* A Store call may raise at the sites named in Faults.                    *)
(***************************************************************************)
EXTENDS BuildStore

CONSTANTS
    NoToken,         \* "no token": outside Token
    Faults,          \* sites where a Store or BI call may raise
    PruneOnRebuild   \* AUTO_BI_PRUNE_ON_REBUILD

FaultSites == {"begin", "prepare", "start", "failure", "owner", "success",
               "pending", "orphans", "status", "prune_delete"}

ASSUME NoTokenAssumption == NoToken \notin Token
ASSUME FaultsAssumption == Faults \subseteq FaultSites
ASSUME PruneAssumption == PruneOnRebuild \in BOOLEAN

VARIABLES
    remote,    \* BI: copies of each private artifact of a token
    sharedDb,  \* BI: the shared database connection exists
    srv,       \* the server process: down, recovering, serving
    mem,       \* ManagedSession.build_status ("absent": not in the registry)
    pc, tok,   \* the build thread of a session and the token it builds
    orph, gone,\* its prune: rows still to delete, rows deleted so far
    todo,      \* startup: interrupted attempts not yet reconciled
    rtok, owned \* startup: the attempt being cleaned, artifacts to delete

biVars     == <<remote, sharedDb>>
threadVars == <<pc, tok, orph, gone>>
bootVars   == <<srv, todo, rtok, owned>>
memVars    == <<mem, threadVars>>
vars == <<storeVars, biVars, memVars, bootVars>>

BuildState == {"absent", "idle", "building", "built", "failed",
               "built_with_cleanup_degraded"}

WritePc  == {"database", "dataset", "chart", "dashboard"}
AfterPc  == {"commit", "pending", "select", "prune", "mark", "degrade",
             "return"}
ThreadPc == {"idle", "begin", "gate", "prepare", "start", "fail_early",
             "fail_started"} \cup WritePc \cup AfterPc

BiTypeOK ==
    /\ remote \in [Token -> [PrivateKinds -> Nat]]
    /\ sharedDb \in BOOLEAN

MemTypeOK ==
    /\ mem \in [Sessions -> BuildState]
    /\ pc \in [Sessions -> ThreadPc]
    /\ tok \in [Sessions -> Token \cup {NoToken}]
    /\ orph \in [Sessions -> SUBSET (Token \X PrivateKinds)]
    /\ gone \in [Sessions -> SUBSET (Token \X PrivateKinds)]

BootTypeOK ==
    /\ srv \in {"down", "reconcile", "reap", "audit", "serving"}
    /\ todo \in SUBSET Token
    /\ rtok \in Token \cup {NoToken}
    /\ owned \in SUBSET PrivateKinds

TypeOK == StoreTypeOK /\ BiTypeOK /\ MemTypeOK /\ BootTypeOK

Init ==
    /\ StoreInit
    /\ remote = [t \in Token |-> [k \in PrivateKinds |-> 0]]
    /\ sharedDb = FALSE
    /\ srv = "down"
    /\ mem = [s \in Sessions |-> "absent"]
    /\ pc = [s \in Sessions |-> "idle"]
    /\ tok = [s \in Sessions |-> NoToken]
    /\ orph = [s \in Sessions |-> {}]
    /\ gone = [s \in Sessions |-> {}]
    /\ todo = {}
    /\ rtok = NoToken
    /\ owned = {}

-----------------------------------------------------------------------------
(* The API of a session: what a request may do to it. *)

\* Slip: an approved session without builds is not offered a retry.
HydratedStatus_NoWindow(s) ==
    CASE lastRow[s] = "ok"                -> "built"
      [] lastRow[s] = "delivered_pending" -> "built_with_cleanup_degraded"
      [] lastRow[s] = "failed"            -> "failed"
      [] lastRow[s] = "none"              -> "idle"

\* Slip: the session's own status is not consulted.
HydratedStatus_RowOnly(s) ==
    CASE lastRow[s] = "ok"                -> "built"
      [] lastRow[s] = "delivered_pending" -> "built_with_cleanup_degraded"
      [] lastRow[s] = "failed"            -> "failed"
      [] lastRow[s] = "none" -> IF LatestIsApproved(s) THEN "failed" ELSE "idle"

\* _hydrate: the status a session gets when it is rebuilt from its rows.
HydratedStatus(s) ==
    IF lastRow[s] \in DeliveredRows
    THEN IF \/ lastRow[s] = "delivered_pending"
            \/ sess[s] = "built_with_cleanup_degraded"
         THEN "built_with_cleanup_degraded" ELSE "built"
    ELSE IF lastRow[s] = "failed" \/ LatestIsApproved(s)
         THEN "failed" ELSE "idle"

\* The agent is in phase APPROVE while its latest spec awaits approval, and
\* in APPROVED afterwards, where only a failed or degraded build may retry.
MayApprove(s, status) ==
    /\ status \notin {"absent", "building"}
    /\ \/ ~LatestIsApproved(s)
       \/ status \in {"failed", "built_with_cleanup_degraded"}

CanApprove(s) == MayApprove(s, mem[s])

Hydrate(s) ==
    /\ srv = "serving"
    /\ mem[s] = "absent"
    /\ sess[s] # "deleted"
    /\ mem' = [mem EXCEPT ![s] = HydratedStatus(s)]
    /\ UNCHANGED <<storeVars, biVars, threadVars, bootVars>>

\* Registry over MAX_SESSIONS: an idle session is dropped from memory.
Evict(s) ==
    /\ mem[s] \notin {"absent", "building"}
    /\ mem' = [mem EXCEPT ![s] = "absent"]
    /\ UNCHANGED <<storeVars, biVars, threadVars, bootVars>>

\* A word edit proposes a new revision; allowed while a build is running.
Reply(s) ==
    /\ mem[s] # "absent"
    /\ nspec[s] < MaxRev
    /\ save_spec(s)
    /\ UNCHANGED <<biVars, memVars, bootVars>>

Approve(s) ==
    /\ CanApprove(s)
    /\ approve_spec(s)
    /\ mem' = [mem EXCEPT ![s] = "building"]
    /\ pc' = [pc EXCEPT ![s] = "begin"]
    /\ UNCHANGED <<tok, orph, gone, biVars, bootVars>>

Delete(s) ==
    /\ mem[s] \notin {"absent", "building"}
    /\ mem' = [mem EXCEPT ![s] = "absent"]
    /\ set_session_status(s, "deleted")
    /\ UNCHANGED <<biVars, threadVars, bootVars>>

-----------------------------------------------------------------------------
(* The build thread. *)

Go(s, label) ==
    /\ pc' = [pc EXCEPT ![s] = label]
    /\ UNCHANGED <<mem, tok, orph, gone>>

End(s, status) ==
    /\ pc' = [pc EXCEPT ![s] = "idle"]
    /\ tok' = [tok EXCEPT ![s] = NoToken]
    /\ orph' = [orph EXCEPT ![s] = {}]
    /\ gone' = [gone EXCEPT ![s] = {}]
    /\ mem' = [mem EXCEPT ![s] = status]

\* Slip: the thread ends without telling the session.
Raise_Silent(s) == End(s, "building")

\* The exception reaches _build in api/app.py: apply_build_failure.
Raise(s) == End(s, "failed")

Reusable(t) == row[t] \in DeliveredRows

\* A delivered token is not built again.
BeginReuse(s, t) ==
    /\ pc[s] = "begin"
    /\ IsLatestApproved(t)
    /\ Reusable(t)
    /\ set_session_status(s, IF row[t] = "delivered_pending"
                             THEN "built_with_cleanup_degraded" ELSE "built")
    /\ Go(s, "return")
    /\ UNCHANGED <<biVars, bootVars>>

BeginBlocked(s, t) ==
    /\ pc[s] = "begin"
    /\ IsLatestApproved(t)
    /\ ~Reusable(t)
    /\ HasActiveAttempt(s)
    /\ Raise(s)
    /\ UNCHANGED <<storeVars, biVars, bootVars>>

BeginBuild(s, t) ==
    /\ pc[s] = "begin"
    /\ IsLatestApproved(t)
    /\ ~Reusable(t)
    /\ ~HasActiveAttempt(s)
    /\ set_session_status(s, "building")
    /\ pc' = [pc EXCEPT ![s] = "gate"]
    /\ tok' = [tok EXCEPT ![s] = t]
    /\ UNCHANGED <<mem, orph, gone, biVars, bootVars>>

\* Either status write of the prologue raises, outside the pipeline's try.
BeginFault(s) ==
    /\ pc[s] = "begin"
    /\ "begin" \in Faults
    /\ Raise(s)
    /\ UNCHANGED <<storeVars, biVars, bootVars>>

\* Normalisation, validate_spec, the SQL guard and the BI health check.
Gate(s) ==
    /\ pc[s] = "gate"
    /\ Go(s, "prepare") \/ Go(s, "fail_early")
    /\ UNCHANGED <<storeVars, biVars, bootVars>>

Prepare(s) ==
    /\ pc[s] = "prepare"
    /\ prepare_build_attempt(tok[s])
    /\ Go(s, "start")
    /\ UNCHANGED <<biVars, bootVars>>

PrepareRefused(s) ==
    /\ pc[s] = "prepare"
    /\ ~CanPrepare(tok[s]) \/ "prepare" \in Faults
    /\ Go(s, "fail_early")
    /\ UNCHANGED <<storeVars, biVars, bootVars>>

Start(s) ==
    /\ pc[s] = "start"
    /\ start_build_attempt(tok[s])
    /\ Go(s, "database")
    /\ UNCHANGED <<biVars, bootVars>>

StartRefused(s) ==
    /\ pc[s] = "start"
    /\ attempt[tok[s]] # "prepared" \/ "start" \in Faults
    /\ Go(s, "fail_early")
    /\ UNCHANGED <<storeVars, biVars, bootVars>>

\* The remote calls of BIAdapter.build, in the order the adapter makes them.
WriteFails(s, label) ==
    /\ pc[s] = label
    /\ Go(s, "fail_started")
    /\ UNCHANGED <<storeVars, biVars, bootVars>>

\* A call that was performed: the answer arrives, or is lost and raises.
WriteDone(s, label, next) ==
    /\ pc[s] = label
    /\ Go(s, next) \/ Go(s, "fail_started")
    /\ UNCHANGED <<storeVars, bootVars>>

\* The connection is reused by name, or created once for everyone.
ensure_database(s) ==
    /\ WriteDone(s, "database", "dataset")
    /\ sharedDb' = TRUE
    /\ UNCHANGED remote

\* A dataset is looked up by its technical name and updated if it exists.
ensure_dataset(s) ==
    /\ WriteDone(s, "dataset", "chart")
    /\ remote' = IF remote[tok[s]]["dataset"] > 0 THEN remote
                 ELSE [remote EXCEPT ![tok[s]]["dataset"] = 1]
    /\ UNCHANGED sharedDb

\* Charts and dashboards are POSTed: every call makes a new object.
create_chart(s) ==
    /\ WriteDone(s, "chart", "dashboard")
    /\ remote' = [remote EXCEPT ![tok[s]]["chart"] = @ + 1]
    /\ UNCHANGED sharedDb

assemble_dashboard(s) ==
    /\ WriteDone(s, "dashboard", "commit")
    /\ remote' = [remote EXCEPT ![tok[s]]["dashboard"] = @ + 1]
    /\ UNCHANGED sharedDb

Build(s) ==
    \/ ensure_database(s) \/ ensure_dataset(s)
    \/ create_chart(s) \/ assemble_dashboard(s)
    \/ \E label \in WritePc : WriteFails(s, label)

\* attempt_id is passed only once start_build_attempt has committed.
Fail(s) ==
    /\ \/ /\ pc[s] = "fail_early"
          /\ commit_build_failure(tok[s], FALSE)
       \/ /\ pc[s] = "fail_started"
          /\ commit_build_failure(tok[s], TRUE)
    /\ Raise(s)
    /\ UNCHANGED <<biVars, bootVars>>

FailFault(s) ==
    /\ pc[s] \in {"fail_early", "fail_started"}
    /\ \/ "failure" \in Faults
       \/ pc[s] = "fail_started" /\ attempt[tok[s]] # "building"
    /\ Raise(s)
    /\ UNCHANGED <<storeVars, biVars, bootVars>>

AfterCommit == IF PruneOnRebuild THEN "select" ELSE "return"

Commit(s) ==
    /\ pc[s] = "commit"
    /\ commit_build_success(tok[s])
    /\ Go(s, AfterCommit)
    /\ UNCHANGED <<biVars, bootVars>>

\* _commit_delivery reads the session row before its own try.
CommitOwnerFault(s) ==
    /\ pc[s] = "commit"
    /\ "owner" \in Faults
    /\ Raise(s)
    /\ UNCHANGED <<storeVars, biVars, bootVars>>

CommitFault(s) ==
    /\ pc[s] = "commit"
    /\ attempt[tok[s]] # "building" \/ "success" \in Faults
    /\ Go(s, "pending")
    /\ UNCHANGED <<storeVars, biVars, bootVars>>

CommitPending(s) ==
    /\ pc[s] = "pending"
    /\ commit_build_delivered_pending(tok[s])
    /\ Go(s, AfterCommit)
    /\ UNCHANGED <<biVars, bootVars>>

\* Neither commit worked: only a log line is left of the delivery.
CommitPendingFault(s) ==
    /\ pc[s] = "pending"
    /\ attempt[tok[s]] # "building" \/ "pending" \in Faults
    /\ Go(s, AfterCommit)
    /\ UNCHANGED <<storeVars, biVars, bootVars>>

-----------------------------------------------------------------------------
(* Pruning what prior revisions of the session left in the BI system. *)

PruneOrder(k) == CASE k = "chart" -> 0 [] k = "dashboard" -> 1
                     [] k = "dataset" -> 2

NextToPrune(rows, a) ==
    /\ a \in rows
    /\ \A b \in rows : PruneOrder(a[2]) <= PruneOrder(b[2])

SelectOrphans(s) ==
    /\ pc[s] = "select"
    /\ orph' = [orph EXCEPT ![s] = orphan_bi_artifacts(s, tok[s])]
    /\ pc' = [pc EXCEPT ![s] = IF orph'[s] = {} THEN "return" ELSE "prune"]
    /\ UNCHANGED <<mem, tok, gone, storeVars, biVars, bootVars>>

\* Delete by native id; an artifact already gone (404) counts as deleted.
DeleteOne(t, k) ==
    remote' = [remote EXCEPT ![t][k] = IF @ > 0 THEN @ - 1 ELSE 0]

PruneDelete(s) ==
    /\ pc[s] = "prune"
    /\ \E a \in orph[s] :
        /\ NextToPrune(orph[s], a)
        /\ DeleteOne(a[1], a[2])
        /\ orph' = [orph EXCEPT ![s] = @ \ {a}]
        /\ gone' = [gone EXCEPT ![s] = @ \cup {a}]
        /\ pc' = [pc EXCEPT ![s] = IF orph'[s] = {} THEN "mark" ELSE "prune"]
    /\ UNCHANGED <<mem, tok, sharedDb, storeVars, bootVars>>

\* A delete the BI system refuses: the row stays live, the loop goes on.
PruneDeleteFails(s) ==
    /\ pc[s] = "prune"
    /\ "prune_delete" \in Faults
    /\ \E a \in orph[s] :
        /\ NextToPrune(orph[s], a)
        /\ orph' = [orph EXCEPT ![s] = @ \ {a}]
        /\ pc' = [pc EXCEPT ![s] = IF orph'[s] = {} THEN "mark" ELSE "prune"]
    /\ UNCHANGED <<mem, tok, gone, storeVars, biVars, bootVars>>

MarkPruned(s) ==
    /\ pc[s] = "mark"
    /\ mark_bi_artifacts_superseded(gone[s])
    /\ Go(s, "return")
    /\ UNCHANGED <<biVars, bootVars>>

\* The prune path itself raised: it is swallowed, the session degrades.
PruneFault(s) ==
    /\ pc[s] \in {"select", "mark"}
    /\ "orphans" \in Faults
    /\ Go(s, "degrade")
    /\ UNCHANGED <<storeVars, biVars, bootVars>>

Degrade(s) ==
    /\ pc[s] = "degrade"
    /\ set_session_status(s, "built_with_cleanup_degraded")
    /\ Go(s, "return")
    /\ UNCHANGED <<biVars, bootVars>>

DegradeFault(s) ==
    /\ pc[s] = "degrade"
    /\ "status" \in Faults
    /\ Raise(s)
    /\ UNCHANGED <<storeVars, biVars, bootVars>>

\* Back in api/app.py: the durable status decides what the user is told.
Return(s) ==
    /\ pc[s] = "return"
    /\ End(s, IF sess[s] = "built_with_cleanup_degraded"
              THEN "built_with_cleanup_degraded" ELSE "built")
    /\ UNCHANGED <<storeVars, biVars, bootVars>>

Thread(s) ==
    \/ \E t \in TokensOf(s) :
        BeginReuse(s, t) \/ BeginBlocked(s, t) \/ BeginBuild(s, t)
    \/ BeginFault(s) \/ Gate(s)
    \/ Prepare(s) \/ PrepareRefused(s) \/ Start(s) \/ StartRefused(s)
    \/ Build(s) \/ Fail(s) \/ FailFault(s)
    \/ Commit(s) \/ CommitOwnerFault(s) \/ CommitFault(s)
    \/ CommitPending(s) \/ CommitPendingFault(s)
    \/ SelectOrphans(s) \/ PruneDelete(s) \/ PruneDeleteFails(s)
    \/ MarkPruned(s) \/ PruneFault(s) \/ Degrade(s) \/ DegradeFault(s)
    \/ Return(s)

-----------------------------------------------------------------------------
(* Crash of the process, and the recovery of the next start. *)

Crash ==
    /\ srv # "down"
    /\ srv' = "down"
    /\ mem' = [s \in Sessions |-> "absent"]
    /\ pc' = [s \in Sessions |-> "idle"]
    /\ tok' = [s \in Sessions |-> NoToken]
    /\ orph' = [s \in Sessions |-> {}]
    /\ gone' = [s \in Sessions |-> {}]
    /\ todo' = {}
    /\ rtok' = NoToken
    /\ owned' = {}
    /\ UNCHANGED <<storeVars, biVars>>

Boot ==
    /\ srv = "down"
    /\ srv' = "reconcile"
    /\ todo' = interrupted_build_attempts
    /\ UNCHANGED <<rtok, owned, storeVars, biVars, memVars>>

\* A PREPARED attempt has written nothing: it is aborted without a call.
AbortPrepared(t) ==
    /\ srv = "reconcile" /\ rtok = NoToken
    /\ t \in todo
    /\ attempt[t] = "prepared"
    /\ finish_build_attempt_reconciliation(t, "aborted")
    /\ todo' = todo \ {t}
    /\ UNCHANGED <<srv, rtok, owned, biVars, memVars>>

\* Slip: the search does not find the charts.
Discover_NoCharts(t) ==
    /\ srv = "reconcile" /\ rtok = NoToken
    /\ t \in todo
    /\ attempt[t] # "prepared"
    /\ rtok' = t
    /\ owned' = {k \in PrivateKinds \ {"chart"} : remote[t][k] > 0}
    /\ UNCHANGED <<srv, todo, storeVars, biVars, memVars>>

\* The exact-token search: everything the attempt left in the BI system.
Discover(t) ==
    /\ srv = "reconcile" /\ rtok = NoToken
    /\ t \in todo
    /\ attempt[t] # "prepared"
    /\ rtok' = t
    /\ owned' = {k \in PrivateKinds : remote[t][k] > 0}
    /\ UNCHANGED <<srv, todo, storeVars, biVars, memVars>>

\* All discovered copies of a kind go, kind by kind in the discovered order.
DeleteOwned(k) ==
    /\ rtok # NoToken
    /\ k \in owned
    /\ \A j \in owned : PruneOrder(k) <= PruneOrder(j)
    /\ remote' = [remote EXCEPT ![rtok][k] = 0]
    /\ owned' = owned \ {k}
    /\ UNCHANGED <<sharedDb, srv, todo, rtok, storeVars, memVars>>

\* Slip: an attempt whose cleanup failed is tried again at once.
FinishReconcile_Again(t, status) ==
    /\ finish_build_attempt_reconciliation(t, status)
    /\ todo' = IF status = "cleanup_required" THEN todo ELSE todo \ {t}
    /\ rtok' = NoToken
    /\ owned' = {}
    /\ UNCHANGED <<srv, biVars, memVars>>

FinishReconcile(t, status) ==
    /\ finish_build_attempt_reconciliation(t, status)
    /\ todo' = todo \ {t}
    /\ rtok' = NoToken
    /\ owned' = {}
    /\ UNCHANGED <<srv, biVars, memVars>>

\* Slip: the attempt is closed before its artifacts are deleted.
Cleaned_Early ==
    /\ rtok # NoToken
    /\ FinishReconcile(rtok, "cleaned")

Cleaned ==
    /\ rtok # NoToken
    /\ owned = {}
    /\ FinishReconcile(rtok, "cleaned")

\* The snapshot, the adapter, a search, a delete or the commit failed.
CleanupFails(t) ==
    /\ srv = "reconcile"
    /\ t \in todo
    /\ attempt[t] # "prepared"
    /\ rtok \in {t, NoToken}
    /\ FinishReconcile(t, "cleanup_required")

Reconciled ==
    /\ srv = "reconcile" /\ todo = {}
    /\ srv' = "reap"
    /\ UNCHANGED <<todo, rtok, owned, storeVars, biVars, memVars>>

Reap ==
    /\ srv = "reap"
    /\ reap_stuck_builds
    /\ srv' = "audit"
    /\ UNCHANGED <<todo, rtok, owned, biVars, memVars>>

\* reconcile_pending_ledgers only reports pending_ledger_builds.
Audit ==
    /\ srv = "audit"
    /\ srv' = "serving"
    /\ UNCHANGED <<todo, rtok, owned, storeVars, biVars, memVars>>

Recovery ==
    \/ \E t \in Token : AbortPrepared(t) \/ Discover(t) \/ CleanupFails(t)
    \/ \E k \in PrivateKinds : DeleteOwned(k)
    \/ Cleaned \/ Reconciled \/ Reap \/ Audit

Request(s) == Hydrate(s) \/ Evict(s) \/ Reply(s) \/ Approve(s) \/ Delete(s)

Next ==
    \/ \E s \in Sessions : Request(s) \/ Thread(s)
    \/ Crash \/ Boot \/ Recovery

Spec == Init /\ [][Next]_vars

-----------------------------------------------------------------------------
(* Safety. *)

Copies(t, k) == remote[t][k]

\* Every private artifact in the BI system is accounted for: its attempt may
\* still be cleaned up after a crash, or its live ledger row lets a prune
\* delete it, or it belongs to a delivery whose ledger is pending.  (The
\* safety property ADR 0002 asks of compile_and_build and the startup.)
OrphanFree ==
    \A t \in Token, k \in PrivateKinds :
        Copies(t, k) > 0 =>
            \/ attempt[t] \in {"building", "cleanup_required",
                               "delivered_pending"}
            \/ k \in ledger[t]

\* A crash, a lost answer or a retry of the same approve never makes a second
\* chart or dashboard of a revision, although both are POSTed.
NoDuplicateArtifact ==
    \A t \in Token, k \in PrivateKinds : Copies(t, k) <= 1

\* No remote create happens unless BUILDING is already durable for its token
\* (the hard invariant in compile_and_build before adapter.build).
WriteNeedsIntent ==
    [][\A t \in Token, k \in PrivateKinds :
          remote'[t][k] > remote[t][k] => attempt[t] = "building"]_vars

\* The newest revision a session was delivered with a ledger stays complete in
\* the BI system, whatever later builds, crashes and prunes do.
NewestDelivered(t) ==
    /\ row[t] = "ok"
    /\ \A u \in TokensOf(t[1]) : u[2] > t[2] => row[u] \notin DeliveredRows
DeliveredStaysUp ==
    \A t \in Token, k \in PrivateKinds :
        NewestDelivered(t) => Copies(t, k) > 0

\* Once the startup steps are done no session is left 'building', so the user
\* can always see a terminal status of an interrupted build.
NoStuckSession ==
    srv = "audit" => \A s \in Sessions : sess[s] # "building"

\* Dropping an idle session from the registry and rebuilding it from its rows
\* changes neither whether the user sees a dashboard nor what they may approve.
DashboardShown == {"built", "built_with_cleanup_degraded"}
EvictionInvisible ==
    \A s \in Sessions :
        mem[s] \notin {"absent", "building"} =>
            /\ MayApprove(s, HydratedStatus(s)) = CanApprove(s)
            /\ {mem[s], HydratedStatus(s)} \cap DashboardShown # {}
               => HydratedStatus(s) = mem[s]

\* An approved revision of a session whose last build delivered nothing can
\* be approved again: no session dead-ends between approve and build.  (After
\* an earlier delivery one does: a crash before the first row of the new
\* revision leaves a session that shows the old one.)
ApprovedIsRetryable ==
    \A s \in Sessions :
        /\ mem[s] \notin {"absent", "building"}
        /\ LatestIsApproved(s)
        /\ lastRow[s] \notin DeliveredRows
        => CanApprove(s)

-----------------------------------------------------------------------------
(* Liveness. *)

\* The build thread runs; a stopped server is started again and its startup
\* runs through; an operator restarts a server in which an attempt blocks
\* retries; and no BI call fails for ever.
Restart == Crash /\ srv = "serving" /\ interrupted_build_attempts # {}

Fairness ==
    /\ \A s \in Sessions : WF_vars(Thread(s))
    /\ WF_vars(Boot) /\ WF_vars(Reconciled) /\ WF_vars(Reap) /\ WF_vars(Audit)
    /\ \A t \in Token : WF_vars(AbortPrepared(t)) /\ WF_vars(Discover(t))
    /\ \A k \in PrivateKinds : WF_vars(DeleteOwned(k))
    /\ WF_vars(Cleaned)

FairSpec == Spec /\ Fairness

StrongFairness ==
    /\ \A t \in Token :
          /\ SF_vars(AbortPrepared(t) \/ Discover(t))
          /\ SF_vars(rtok = t /\ (Cleaned \/ \E k \in PrivateKinds : DeleteOwned(k)))
    /\ SF_vars(Restart)
    /\ SF_vars(Boot \/ Reconciled \/ Reap \/ Audit)
    /\ \A s \in Sessions : WF_vars(Thread(s))

RecoverySpec == Spec /\ StrongFairness

\* A build thread always ends, and the session leaves 'building' with it.
BuildEnds == \A s \in Sessions : mem[s] = "building" ~> mem[s] # "building"

\* If the server stops crashing it ends up serving for good.
StartupCompletes == <>[][~Crash]_vars => <>[](srv = "serving")

\* An interrupted attempt does not block its session's retries for ever.
AttemptSettles ==
    \A t \in Token : attempt[t] \in Nonterminal ~> attempt[t] \notin Nonterminal
=============================================================================
