----------------------------- MODULE BuildProofs ------------------------------
(***************************************************************************)
(* The safety theorems of the build pipeline, for every value of the       *)
(* constants.  Types come first; then the frames of a thread's step; then  *)
(* the conjuncts of IInv, those about threads and attempts one by one,     *)
(* those about the BI system by the kind of step (request, thread, crash   *)
(* and startup); then the theorems that follow from IInv, and the          *)
(* refinement of ArtifactOwnership.                                        *)
(*                                                                         *)
(* Last, what becomes of a delivery: that it stays in the BI system, that  *)
(* a session which has none can be approved again, and that a session      *)
(* rebuilt from its rows shows what it showed.  Three invariants stand on  *)
(* each other and on IInv: rows and attempts agree (RowInv), a thread past *)
(* its commit has a delivery on record (DeliveryInv), and memory shows     *)
(* what rows say (StatusInv).  The last two hold for fault sets that the   *)
(* theorems name.                                                          *)
(***************************************************************************)
EXTENDS BuildInvariants, TLAPS

-----------------------------------------------------------------------------
(* Types. *)

\* The initial state has the right types.
LEMMA TypeInit == Init => TypeOK
<1> SUFFICES ASSUME Init PROVE TypeOK
  OBVIOUS
<1>1. 1 \in Revs
  BY MaxRevAssumption, SMT DEF Revs
<1>2. StoreTypeOK
  BY <1>1, SMT DEF Init, StoreInit, StoreTypeOK, SessionStatus, AttemptStatus,
     BuildStatus
<1>3. remote \in [Token -> [PrivateKinds -> Nat]]
  BY SMT DEF Init
<1>4. QED
  BY <1>2, <1>3 DEF Init, TypeOK, BiTypeOK, MemTypeOK, BootTypeOK, BuildState,
     ThreadPc

\* Types under the transactions on sessions and specs.
LEMMA TypeSessionRows ==
    ASSUME StoreTypeOK, NEW s \in Sessions, NEW status \in SessionStatus,
           \/ set_session_status(s, status)
           \/ nspec[s] < MaxRev /\ save_spec(s)
           \/ approve_spec(s)
    PROVE  StoreTypeOK'
<1> USE DEF StoreTypeOK, specVars, buildVars
<1>1. CASE set_session_status(s, status)
  BY <1>1 DEF set_session_status
<1>2. CASE nspec[s] < MaxRev /\ save_spec(s)
  BY <1>2, MaxRevAssumption DEF save_spec, Revs
<1>3. CASE approve_spec(s)
  BY <1>3 DEF approve_spec, LatestSpec, Token
<1>4. QED
  BY <1>1, <1>2, <1>3

\* Types under the transactions that advance an attempt.
LEMMA TypeAttemptRows ==
    ASSUME StoreTypeOK, NEW t \in Token,
           \/ prepare_build_attempt(t)
           \/ start_build_attempt(t)
           \/ commit_build_success(t)
           \/ commit_build_delivered_pending(t)
    PROVE  StoreTypeOK'
<1> USE DEF StoreTypeOK, specVars, buildVars, SessionStatus, AttemptStatus,
            Nonterminal, Delivered, BuildStatus, AddBuildRow
<1>1. CASE prepare_build_attempt(t)
  BY <1>1 DEF prepare_build_attempt
<1>2. CASE start_build_attempt(t)
  BY <1>2 DEF start_build_attempt
<1>3. CASE commit_build_success(t)
  BY <1>3 DEF commit_build_success
<1>4. CASE commit_build_delivered_pending(t)
  BY <1>4 DEF commit_build_delivered_pending
<1>5. QED
  BY <1>1, <1>2, <1>3, <1>4

\* Types under the transactions that fail or settle an attempt.
LEMMA TypeFailureRows ==
    ASSUME StoreTypeOK, NEW t \in Token,
           \/ \E withAttempt \in BOOLEAN : commit_build_failure(t, withAttempt)
           \/ \E status \in AttemptStatus :
                finish_build_attempt_reconciliation(t, status)
    PROVE  StoreTypeOK'
<1>1. "failed" \in SessionStatus /\ "cleanup_required" \in AttemptStatus
  BY DEF SessionStatus, AttemptStatus, Nonterminal
<1>2. /\ attempt' \in [Token -> AttemptStatus]
      /\ sess' \in [Sessions -> SessionStatus]
      /\ UNCHANGED <<specVars, ledger>>
  BY <1>1 DEF StoreTypeOK, commit_build_failure,
     finish_build_attempt_reconciliation
<1>3. UNCHANGED buildVars \/ AddBuildRow(t, "failed")
  BY DEF commit_build_failure, finish_build_attempt_reconciliation
<1>4. QED
  BY <1>2, <1>3 DEF StoreTypeOK, specVars, buildVars, AddBuildRow, BuildStatus

\* Types under the reaper and the end of a prune.
LEMMA TypeOtherRows ==
    ASSUME StoreTypeOK,
           \/ reap_stuck_builds
           \/ \E gn \in SUBSET (Token \X PrivateKinds) :
              mark_bi_artifacts_superseded(gn)
    PROVE  StoreTypeOK'
BY DEF StoreTypeOK, specVars, buildVars, reap_stuck_builds,
   mark_bi_artifacts_superseded, SessionStatus, BuildStatus

\* Types of rows no step touches.
LEMMA TypeSameRows == StoreTypeOK /\ UNCHANGED storeVars => StoreTypeOK'
BY DEF StoreTypeOK, storeVars

\* One artifact counter set to a number.
LEMMA RemoteWrite ==
    ASSUME BiTypeOK, NEW t \in Token, NEW k \in PrivateKinds, NEW n \in Nat
    PROVE  [remote EXCEPT ![t][k] = n] \in [Token -> [PrivateKinds -> Nat]]
<1>1. remote[t] \in [PrivateKinds -> Nat]
  BY DEF BiTypeOK
<1>2. [remote[t] EXCEPT ![k] = n] \in [PrivateKinds -> Nat]
  BY <1>1
<1>3. QED
  BY <1>2 DEF BiTypeOK

\* Types under an API request.
LEMMA TypeRequest ==
    ASSUME TypeOK, NEW s \in Sessions, Request(s) PROVE TypeOK'
<1> USE DEF TypeOK, BiTypeOK, MemTypeOK, BootTypeOK, biVars, memVars,
            threadVars, bootVars, BuildState, ThreadPc
<1>1. CASE Hydrate(s)
  BY <1>1, TypeSameRows DEF Hydrate, HydratedStatus
<1>2. CASE Evict(s)
  BY <1>2, TypeSameRows DEF Evict
<1>3. CASE Reply(s)
  <2>1. StoreTypeOK'
    BY <1>3, TypeSessionRows DEF Reply, SessionStatus
  <2>2. QED
    BY <1>3, <2>1 DEF Reply
<1>4. CASE Approve(s)
  <2>1. StoreTypeOK'
    BY <1>4, TypeSessionRows DEF Approve, SessionStatus
  <2>2. QED
    BY <1>4, <2>1 DEF Approve
<1>5. CASE Delete(s)
  <2>1. StoreTypeOK'
    BY <1>5, TypeSessionRows DEF Delete, SessionStatus
  <2>2. QED
    BY <1>5, <2>1 DEF Delete
<1>6. QED BY <1>1, <1>2, <1>3, <1>4, <1>5 DEF Request

\* Types under a step of a build thread, which holds a token when it needs one.
LEMMA TypeThread ==
    ASSUME TypeOK, TokenHeld, NEW s \in Sessions, Thread(s) PROVE TypeOK'
<1>0. pc[s] \notin {"idle", "begin", "return"} => tok[s] \in Token
  BY DEF TokenHeld, HoldsToken, TokensOf
<1> USE DEF TypeOK, BiTypeOK, MemTypeOK, BootTypeOK, biVars, threadVars,
            bootVars, Go, Raise, End, BuildState, ThreadPc
<1>1. ASSUME NEW t \in TokensOf(s), BeginReuse(s, t) PROVE TypeOK'
  <2>1. StoreTypeOK'
    BY <1>1, TypeSessionRows DEF BeginReuse, SessionStatus
  <2>2. QED
    BY <1>1, <2>1 DEF BeginReuse, AfterPc
<1>2. ASSUME NEW t \in TokensOf(s), BeginBlocked(s, t) PROVE TypeOK'
  BY <1>2, TypeSameRows DEF BeginBlocked
<1>3. ASSUME NEW t \in TokensOf(s), BeginBuild(s, t) PROVE TypeOK'
  <2>1. StoreTypeOK'
    BY <1>3, TypeSessionRows DEF BeginBuild, SessionStatus
  <2>2. QED
    BY <1>3, <2>1 DEF BeginBuild, TokensOf
<1>4. CASE BeginFault(s) \/ Gate(s)
  BY <1>4, TypeSameRows DEF BeginFault, Gate
<1>5. CASE Prepare(s)
  <2>1. StoreTypeOK'
    BY <1>5, <1>0, TypeAttemptRows DEF Prepare
  <2>2. QED
    BY <1>5, <2>1 DEF Prepare
<1>6. CASE Start(s)
  <2>1. StoreTypeOK'
    BY <1>6, <1>0, TypeAttemptRows DEF Start
  <2>2. QED
    BY <1>6, <2>1 DEF Start, WritePc
<1>7. CASE PrepareRefused(s) \/ StartRefused(s)
  BY <1>7, TypeSameRows DEF PrepareRefused, StartRefused
<1>8. CASE Fail(s)
  <2>1. StoreTypeOK'
    BY <1>8, <1>0, TypeFailureRows DEF Fail
  <2>2. QED
    BY <1>8, <2>1 DEF Fail
<1>9. CASE FailFault(s)
  BY <1>9, TypeSameRows DEF FailFault
<1>10. CASE Commit(s)
  <2>1. StoreTypeOK'
    BY <1>10, <1>0, TypeAttemptRows DEF Commit
  <2>2. QED
    BY <1>10, <2>1 DEF Commit, AfterCommit, AfterPc
<1>11. CASE CommitOwnerFault(s) \/ CommitFault(s)
  BY <1>11, TypeSameRows DEF CommitOwnerFault, CommitFault, AfterPc
<1>12. CASE CommitPending(s)
  <2>1. StoreTypeOK'
    BY <1>12, <1>0, TypeAttemptRows DEF CommitPending
  <2>2. QED
    BY <1>12, <2>1 DEF CommitPending, AfterCommit, AfterPc
<1>13. CASE CommitPendingFault(s)
  BY <1>13, TypeSameRows DEF CommitPendingFault, AfterCommit, AfterPc
<1>14. CASE Build(s)
  <2> USE DEF WriteDone, WritePc
  <2>1. CASE ensure_database(s) \/ \E label \in WritePc : WriteFails(s, label)
    BY <2>1, TypeSameRows DEF ensure_database, WriteFails
  <2>2. CASE ensure_dataset(s)
    BY <2>2, TypeSameRows DEF ensure_dataset
  <2>3. CASE create_chart(s)
    <3>1. remote[tok[s]]["chart"] + 1 \in Nat
      BY <1>0, <2>3 DEF create_chart, PrivateKinds
    <3>2. remote' \in [Token -> [PrivateKinds -> Nat]]
      BY <1>0, <3>1, <2>3, RemoteWrite DEF create_chart, PrivateKinds
    <3>3. QED
      BY <2>3, <3>2, TypeSameRows DEF create_chart, AfterPc
  <2>4. CASE assemble_dashboard(s)
    <3>1. remote[tok[s]]["dashboard"] + 1 \in Nat
      BY <1>0, <2>4 DEF assemble_dashboard, PrivateKinds
    <3>2. remote' \in [Token -> [PrivateKinds -> Nat]]
      BY <1>0, <3>1, <2>4, RemoteWrite DEF assemble_dashboard, PrivateKinds
    <3>3. QED
      BY <2>4, <3>2, TypeSameRows DEF assemble_dashboard, AfterPc
  <2>5. QED
    BY <1>14, <2>1, <2>2, <2>3, <2>4 DEF Build
<1>15. CASE SelectOrphans(s)
  BY <1>15, TypeSameRows DEF SelectOrphans, orphan_bi_artifacts, Kinds,
     SharedKinds, AfterPc
<1>16. CASE PruneDelete(s)
  BY <1>16, TypeSameRows DEF PruneDelete, DeleteOne, NextToPrune, AfterPc
<1>17. CASE PruneDeleteFails(s)
  BY <1>17, TypeSameRows DEF PruneDeleteFails, NextToPrune, AfterPc
<1>18. CASE MarkPruned(s)
  <2>1. StoreTypeOK'
    BY <1>18, TypeOtherRows DEF MarkPruned
  <2>2. QED
    BY <1>18, <2>1 DEF MarkPruned, AfterPc
<1>19. CASE PruneFault(s)
  BY <1>19, TypeSameRows DEF PruneFault, AfterPc
<1>20. CASE Degrade(s)
  <2>1. StoreTypeOK'
    BY <1>20, TypeSessionRows DEF Degrade, SessionStatus
  <2>2. QED
    BY <1>20, <2>1 DEF Degrade, AfterPc
<1>21. CASE DegradeFault(s) \/ Return(s)
  BY <1>21, TypeSameRows DEF DegradeFault, Return
<1>22. QED
  BY <1>1, <1>2, <1>3, <1>4, <1>5, <1>6, <1>7, <1>8, <1>9, <1>10, <1>11, <1>12,
     <1>13, <1>14, <1>15, <1>16, <1>17, <1>18, <1>19, <1>20, <1>21 DEF Thread

\* Types under a crash and the startup.
LEMMA TypeStartup ==
    ASSUME TypeOK, Crash \/ Boot \/ Recovery PROVE TypeOK'
<1> USE DEF TypeOK, BiTypeOK, MemTypeOK, BootTypeOK, biVars, threadVars,
            bootVars, memVars, BuildState, ThreadPc
<1>1. CASE Crash
  BY <1>1, TypeSameRows DEF Crash
<1>2. CASE Boot
  BY <1>2, TypeSameRows DEF Boot, interrupted_build_attempts
<1>3. ASSUME NEW t \in Token, NEW status \in AttemptStatus,
             FinishReconcile(t, status)
      PROVE  TypeOK'
  <2>1. StoreTypeOK'
    BY <1>3, TypeFailureRows DEF FinishReconcile
  <2>2. QED
    BY <1>3, <2>1 DEF FinishReconcile
<1>4. ASSUME NEW t \in Token, AbortPrepared(t) PROVE TypeOK'
  <2>1. StoreTypeOK'
    BY <1>4, TypeFailureRows DEF AbortPrepared, AttemptStatus
  <2>2. QED
    BY <1>4, <2>1 DEF AbortPrepared
<1>5. ASSUME NEW t \in Token, Discover(t) PROVE TypeOK'
  BY <1>5, TypeSameRows DEF Discover
<1>6. ASSUME NEW t \in Token, CleanupFails(t) PROVE TypeOK'
  BY <1>3, <1>6 DEF CleanupFails, AttemptStatus, Nonterminal
<1>7. ASSUME NEW k \in PrivateKinds, DeleteOwned(k) PROVE TypeOK'
  BY <1>7, TypeSameRows DEF DeleteOwned
<1>8. CASE Cleaned
  BY <1>3, <1>8 DEF Cleaned, AttemptStatus
<1>9. CASE Reconciled \/ Audit
  BY <1>9, TypeSameRows DEF Reconciled, Audit
<1>10. CASE Reap
  <2>1. StoreTypeOK'
    BY <1>10, TypeOtherRows DEF Reap
  <2>2. QED
    BY <1>10, <2>1 DEF Reap
<1>11. QED
  BY <1>1, <1>2, <1>4, <1>5, <1>6, <1>7, <1>8, <1>9, <1>10 DEF Recovery

\* Types under every step.
LEMMA TypeNext == TypeOK /\ TokenHeld /\ [Next]_vars => TypeOK'
<1>1. ASSUME TypeOK, UNCHANGED vars PROVE TypeOK'
  BY <1>1, TypeSameRows DEF TypeOK, BiTypeOK, MemTypeOK, BootTypeOK, vars,
     biVars, memVars, threadVars, bootVars
<1>2. QED
  BY <1>1, TypeRequest, TypeThread, TypeStartup DEF Next

-----------------------------------------------------------------------------
(* Frames: what a step of one thread leaves alone. *)

OnlyThread(s) ==
    /\ pc[s] # "idle"
    /\ UNCHANGED <<bootVars, specVars>>
    /\ \A u \in Sessions \ {s} :
        /\ pc'[u] = pc[u] /\ tok'[u] = tok[u] /\ mem'[u] = mem[u]
        /\ orph'[u] = orph[u] /\ gone'[u] = gone[u]
    /\ \/ mem'[s] = mem[s] /\ pc'[s] # "idle"
       \/ mem'[s] # "building" /\ pc'[s] = "idle"

\* A thread's step changes nothing of other threads or of the startup.
LEMMA ThreadFrame ==
    ASSUME TypeOK, NEW s \in Sessions, Thread(s) PROVE OnlyThread(s)
<1> USE DEF OnlyThread, TypeOK, MemTypeOK, bootVars, specVars, storeVars,
   buildVars, Go, Raise, End
<1>1. ASSUME NEW t \in TokensOf(s),
             BeginReuse(s, t) \/ BeginBlocked(s, t) \/ BeginBuild(s, t)
      PROVE  OnlyThread(s)
  BY <1>1 DEF BeginReuse, BeginBlocked, BeginBuild, set_session_status
<1>2. CASE BeginFault(s) \/ Gate(s) \/ PrepareRefused(s) \/ StartRefused(s)
           \/ FailFault(s) \/ CommitOwnerFault(s) \/ CommitFault(s)
           \/ CommitPendingFault(s)
  BY <1>2 DEF BeginFault, Gate, PrepareRefused, StartRefused, FailFault,
     CommitOwnerFault, CommitFault, CommitPendingFault, AfterCommit
<1>3. CASE Prepare(s) \/ Start(s)
  BY <1>3 DEF Prepare, Start, prepare_build_attempt, start_build_attempt
<1>4. CASE Build(s)
  BY <1>4 DEF Build, ensure_database, ensure_dataset, create_chart,
     assemble_dashboard, WriteDone, WriteFails, WritePc
<1>5. CASE Fail(s)
  BY <1>5 DEF Fail, commit_build_failure
<1>6. CASE Commit(s) \/ CommitPending(s)
  BY <1>6 DEF Commit, CommitPending, AfterCommit, commit_build_success,
     commit_build_delivered_pending
<1>7. CASE SelectOrphans(s) \/ PruneDelete(s) \/ PruneDeleteFails(s)
  BY <1>7 DEF SelectOrphans, PruneDelete, PruneDeleteFails
<1>8. CASE MarkPruned(s) \/ PruneFault(s) \/ Degrade(s) \/ DegradeFault(s)
           \/ Return(s)
  BY <1>8 DEF MarkPruned, PruneFault, Degrade, DegradeFault, Return,
     mark_bi_artifacts_superseded, set_session_status
<1>9. QED
  BY <1>1, <1>2, <1>3, <1>4, <1>5, <1>6, <1>7, <1>8 DEF Thread

\* A build thread goes on running exactly while its session shows building.
LEMMA LivesNext == IInv /\ [Next]_vars => ThreadLives'
<1> SUFFICES ASSUME IInv, [Next]_vars PROVE ThreadLives'
  OBVIOUS
<1> USE DEF IInv, ThreadLives, TypeOK, MemTypeOK, storeVars, biVars, memVars,
   threadVars, bootVars
<1>1. ASSUME NEW s \in Sessions, Request(s) PROVE ThreadLives'
  BY <1>1 DEF Request, Hydrate, Evict, Reply, Approve, Delete, HydratedStatus,
     CanApprove, MayApprove, save_spec, approve_spec, set_session_status
<1>2. ASSUME NEW s \in Sessions, Thread(s) PROVE ThreadLives'
  BY <1>2, ThreadFrame DEF OnlyThread
<1>3. CASE Crash \/ Boot
  BY <1>3 DEF Crash, Boot
<1>4. CASE Recovery
  <2>1. UNCHANGED memVars /\ srv # "serving"
    BY <1>4 DEF Recovery, AbortPrepared, Discover, CleanupFails,
       FinishReconcile,
       DeleteOwned, Cleaned, Reconciled, Reap, Audit, RecoveryStage
  <2>2. QED
    BY <2>1
<1>5. CASE UNCHANGED vars
  BY <1>5 DEF vars
<1>6. QED
  BY <1>1, <1>2, <1>3, <1>4, <1>5 DEF Next

\* Steps of a thread that only move it along, or end it.
Moves(s) ==
    \/ BeginFault(s) \/ Gate(s) \/ PrepareRefused(s) \/ StartRefused(s)
    \/ FailFault(s) \/ CommitOwnerFault(s) \/ CommitFault(s)
    \/ CommitPendingFault(s) \/ PruneFault(s) \/ Degrade(s)
    \/ DegradeFault(s) \/ Return(s)
    \/ \E t \in TokensOf(s) : BeginReuse(s, t) \/ BeginBlocked(s, t)

\* Where a step that only moves a thread can take it.
LEMMA MoveStep ==
    ASSUME TypeOK, NEW s \in Sessions, Moves(s)
    PROVE  /\ UNCHANGED <<biVars, attempt, ledger>>
           /\ \/ /\ UNCHANGED <<tok, orph, gone>>
                 /\ <<pc[s], pc'[s]>> \in
                     ({"begin"} \X {"return"}) \cup
                     ({"gate"} \X {"prepare", "fail_early"}) \cup
                     ({"prepare", "start"} \X {"fail_early"}) \cup
                     ({"commit"} \X {"pending"}) \cup
                     ({"pending"} \X {"select", "return"}) \cup
                     ({"select", "mark"} \X {"degrade"}) \cup
                     ({"degrade"} \X {"return"})
              \/ /\ pc'[s] = "idle" /\ tok'[s] = NoToken
                 /\ orph'[s] = {} /\ gone'[s] = {}
BY DEF Moves, BeginFault, Gate, PrepareRefused, StartRefused, FailFault,
   CommitOwnerFault, CommitFault, CommitPendingFault, PruneFault, Degrade,
   DegradeFault, Return, BeginReuse, BeginBlocked, Go, Raise, End,
   AfterCommit, set_session_status, TypeOK, MemTypeOK, storeVars

\* A thread's step moves it, or is one of those that do something.
LEMMA ThreadCases ==
    ASSUME NEW s \in Sessions, Thread(s)
    PROVE  \/ Moves(s) \/ \E t \in TokensOf(s) : BeginBuild(s, t)
           \/ Prepare(s) \/ Start(s) \/ Build(s) \/ Fail(s)
           \/ Commit(s) \/ CommitPending(s)
           \/ SelectOrphans(s) \/ PruneDelete(s) \/ PruneDeleteFails(s)
           \/ MarkPruned(s)
BY DEF Thread, Moves

\* A thread keeps building its session's latest approved revision.
LEMMA HeldNext == IInv /\ [Next]_vars => TokenHeld'
<1> SUFFICES ASSUME IInv, [Next]_vars PROVE TokenHeld'
  OBVIOUS
<1> USE DEF IInv, TypeOK, MemTypeOK, HoldsToken, storeVars, specVars, biVars,
   memVars, threadVars, bootVars
<1>1. ASSUME NEW s \in Sessions, Hydrate(s) \/ Evict(s) \/ Reply(s) \/ Delete(s)
      PROVE  TokenHeld'
  BY <1>1 DEF TokenHeld, IsLatestApproved, Hydrate, Evict, Reply, Delete,
     save_spec, set_session_status
<1>2. ASSUME NEW s \in Sessions, Approve(s) PROVE TokenHeld'
  BY <1>2 DEF Approve, CanApprove, MayApprove, approve_spec, TokenHeld,
     IsLatestApproved, ThreadLives, LatestSpec, TokensOf
<1>3. ASSUME NEW s \in Sessions, Thread(s) PROVE TokenHeld'
  <2>1. OnlyThread(s)
    BY <1>3, ThreadFrame
  <2>2. HoldsToken(s)'
    <3> USE DEF HoldsToken, IsLatestApproved
    <3>1. CASE Moves(s)
      BY <2>1, <3>1, MoveStep DEF OnlyThread, TokenHeld
    <3>2. ASSUME NEW t \in TokensOf(s), BeginBuild(s, t) PROVE HoldsToken(s)'
      BY <2>1, <3>2, NoTokenAssumption DEF BeginBuild, TokensOf, OnlyThread
    <3>3. CASE Prepare(s) \/ Start(s) \/ Build(s) \/ Commit(s) \/
       CommitPending(s)
      BY <2>1, <3>3 DEF OnlyThread, TokenHeld, Go, Prepare, Start, Build,
         Commit,
         CommitPending, AfterCommit, ensure_database, ensure_dataset,
         create_chart, assemble_dashboard, WriteDone, WriteFails, WritePc
    <3>4. CASE Fail(s)
      BY <2>1, <3>4 DEF OnlyThread, Fail, Raise, End
    <3>5. CASE SelectOrphans(s) \/ PruneDelete(s) \/ PruneDeleteFails(s) \/
       MarkPruned(s)
      BY <2>1, <3>5 DEF OnlyThread, TokenHeld, Go, SelectOrphans, PruneDelete,
         PruneDeleteFails, MarkPruned
    <3>6. QED
      BY <1>3, <3>1, <3>2, <3>3, <3>4, <3>5, ThreadCases
  <2>3. QED
    BY <2>1, <2>2 DEF OnlyThread, TokenHeld, HoldsToken, IsLatestApproved
<1>4. CASE Crash \/ Boot
  BY <1>4, NoTokenAssumption DEF Crash, Boot, TokenHeld, IsLatestApproved
<1>5. CASE Recovery
  BY <1>5 DEF Recovery, AbortPrepared, Discover, CleanupFails, FinishReconcile,
       DeleteOwned, Cleaned, Reconciled, Reap, Audit, TokenHeld,
          IsLatestApproved, finish_build_attempt_reconciliation,
       reap_stuck_builds
<1>6. CASE UNCHANGED vars
  BY <1>6 DEF vars, TokenHeld, IsLatestApproved
<1>7. QED
  BY <1>1, <1>2, <1>3, <1>4, <1>5, <1>6 DEF Next, Request

\* How approvals and the status of an attempt change: approvals are kept; an
\* attempt is prepared, or a nonterminal one takes another status.
AttemptMoves ==
    /\ approved \subseteq approved'
    /\ \/ UNCHANGED attempt
       \/ \E t \in Token :
            /\ \/ t \in approved /\ CanPrepare(t)
               \/ attempt[t] \in Nonterminal
            /\ attempt'[t] # "none"
            /\ attempt' = [attempt EXCEPT ![t] = attempt'[t]]

\* Every step changes approvals and attempts as AttemptMoves says.
LEMMA AttemptStep == IInv /\ [Next]_vars => AttemptMoves
<1> SUFFICES ASSUME IInv, [Next]_vars PROVE AttemptMoves
  OBVIOUS
<1> USE DEF AttemptMoves, IInv, TypeOK, StoreTypeOK, storeVars, specVars
<1>1. ASSUME NEW s \in Sessions, Request(s) PROVE AttemptMoves
  BY <1>1 DEF Request, Hydrate, Evict, Reply, Approve, Delete, save_spec,
     approve_spec, set_session_status
<1>2. ASSUME NEW s \in Sessions, Thread(s) PROVE AttemptMoves
  <2>0. approved' = approved
    BY <1>2, ThreadFrame DEF OnlyThread
  <2>1. pc[s] \notin {"idle", "begin", "return"} =>
          tok[s] \in Token /\ tok[s] \in approved
    BY DEF TokenHeld, HoldsToken, TokensOf, IsLatestApproved
  <2>2. CASE Moves(s)
    BY <2>0, <2>2, MoveStep
  <2>3. CASE \/ \E t \in TokensOf(s) : BeginBuild(s, t)
             \/ Build(s) \/ SelectOrphans(s) \/ PruneDelete(s) \/
                PruneDeleteFails(s)
             \/ MarkPruned(s)
    BY <2>0, <2>3 DEF BeginBuild, Build, ensure_database, ensure_dataset,
       create_chart,
       assemble_dashboard, WriteDone, WriteFails, SelectOrphans, PruneDelete,
       PruneDeleteFails, MarkPruned, set_session_status,
          mark_bi_artifacts_superseded
  <2>4. CASE Prepare(s)
    BY <2>0, <2>1, <2>4 DEF Prepare, prepare_build_attempt
  <2>5. CASE Start(s) \/ Commit(s) \/ CommitPending(s)
    BY <2>0, <2>1, <2>5 DEF Start, Commit, CommitPending, start_build_attempt,
       commit_build_success, commit_build_delivered_pending, Nonterminal
  <2>6. CASE Fail(s)
    BY <2>0, <2>1, <2>6 DEF Fail, commit_build_failure, Nonterminal
  <2>7. QED
    BY <1>2, <2>2, <2>3, <2>4, <2>5, <2>6, ThreadCases
<1>3. CASE Crash \/ Boot \/ UNCHANGED vars
  BY <1>3 DEF Crash, Boot, vars
<1>4. CASE Recovery
  <2>1. ASSUME NEW t \in Token, AbortPrepared(t)
        PROVE  AttemptMoves
    BY <2>1 DEF AbortPrepared, finish_build_attempt_reconciliation, Nonterminal
  <2>2. ASSUME NEW t \in todo, NEW status \in {"cleaned", "cleanup_required"}, FinishReconcile(t, status)
        PROVE  AttemptMoves
    BY <2>2 DEF FinishReconcile, finish_build_attempt_reconciliation,
       RecoveryStage, BootTypeOK
  <2>3. CASE Cleaned \/ \E t \in Token : CleanupFails(t)
    BY <2>2, <2>3 DEF Cleaned, CleanupFails, RecoveryStage
  <2>4. CASE \/ \E t \in Token : Discover(t)
             \/ \E k \in PrivateKinds : DeleteOwned(k)
             \/ Reconciled \/ Reap \/ Audit
    BY <2>4 DEF Discover, DeleteOwned, Reconciled, Reap, Audit,
       reap_stuck_builds
  <2>5. QED
    BY <1>4, <2>1, <2>3, <2>4 DEF Recovery
<1>5. QED
  BY <1>1, <1>2, <1>3, <1>4 DEF Next

\* A session keeps at most one nonterminal attempt.
LEMMA AttemptNext == IInv /\ [Next]_vars => OneAttempt'
<1> SUFFICES ASSUME IInv, [Next]_vars PROVE OneAttempt'
  OBVIOUS
<1>1. AttemptMoves
  BY AttemptStep
<1>0. approved \subseteq approved'
  BY <1>1 DEF AttemptMoves
<1> USE DEF OneAttempt, IInv, TypeOK, StoreTypeOK
<1>2. CASE UNCHANGED attempt
  BY <1>0, <1>2
<1>3. ASSUME NEW t \in Token, t \in approved \/ attempt[t] # "none",
             attempt' = [attempt EXCEPT ![t] = attempt'[t]]
      PROVE  \A u \in Token : attempt'[u] # "none" => u \in approved'
  BY <1>0, <1>3
<1>4. ASSUME NEW t \in Token, CanPrepare(t),
             attempt' = [attempt EXCEPT ![t] = attempt'[t]]
      PROVE  \A u, v \in Token :
                /\ u[1] = v[1]
                /\ {attempt'[u], attempt'[v]} \subseteq Nonterminal
                => u = v
  BY <1>4 DEF CanPrepare, TokensOf
<1>5. ASSUME NEW t \in Token, attempt[t] \in Nonterminal,
             attempt' = [attempt EXCEPT ![t] = attempt'[t]]
      PROVE  \A u, v \in Token :
                /\ u[1] = v[1]
                /\ {attempt'[u], attempt'[v]} \subseteq Nonterminal
                => u = v
  BY <1>5
<1>6. QED
  BY <1>1, <1>2, <1>3, <1>4, <1>5 DEF AttemptMoves, Nonterminal

-----------------------------------------------------------------------------
(* The BI system: what a request, a thread or the startup does to it. *)

\* The conjuncts about one thread, and those about the BI system as a whole.
Local(s) == HasIntent(s) /\ HasBuilt(s) /\ PrunesOld(s)
World == BlankAttempts /\ LedgerCovers /\ NoDuplicateArtifact
BiInv == (\A s \in Sessions : Local(s)) /\ World /\ RecoveryStage

\* A request leaves the BI system and every thread's work alone.
LEMMA RequestBi ==
    ASSUME IInv, NEW s \in Sessions, Request(s) PROVE BiInv'
<1>1. /\ UNCHANGED <<biVars, attempt, ledger, tok, orph, gone, bootVars>>
      /\ \/ pc' = pc
         \/ pc[s] = "idle" /\ pc' = [pc EXCEPT ![s] = "begin"]
  BY DEF Request, Hydrate, Evict, Reply, Approve, Delete, save_spec,
     approve_spec,
     set_session_status, storeVars, memVars, threadVars, IInv, ThreadLives,
     CanApprove, MayApprove
<1>2. QED
  BY <1>1 DEF BiInv, Local, World, IInv, TypeOK, MemTypeOK, biVars, bootVars,
     IntentDurable, HasIntent, IntentPc, BuiltSoFar, HasBuilt, StagePc,
        WritePc,
     PruneRows, PrunesOld, BlankAttempts, LedgerCovers, NoDuplicateArtifact,
     Copies, RecoveryStage

\* A thread touches its own token's attempt and its own session's artifacts.
LEMMA ThreadOwn ==
    ASSUME IInv, NEW s \in Sessions, Thread(s)
    PROVE  \A t \in Token :
            /\ t # tok[s] => attempt'[t] = attempt[t]
            /\ t[1] # s => remote'[t] = remote[t] /\ ledger'[t] = ledger[t]
<1>0. pc[s] \notin {"idle", "begin", "return"} => tok[s] \in TokensOf(s)
  BY DEF IInv, TokenHeld, HoldsToken
<1> USE DEF IInv, TypeOK, StoreTypeOK, BiTypeOK, TokensOf
<1>1. CASE Moves(s)
  BY <1>1, MoveStep DEF biVars
<1>2. CASE \/ \E t \in TokensOf(s) : BeginBuild(s, t)
           \/ Prepare(s) \/ Start(s) \/ SelectOrphans(s) \/ PruneDeleteFails(s)
  BY <1>2 DEF BeginBuild, Prepare, Start, SelectOrphans, PruneDeleteFails,
     set_session_status, prepare_build_attempt, start_build_attempt, biVars,
        storeVars
<1>3. CASE Build(s)
  BY <1>0, <1>3 DEF Build, ensure_database, ensure_dataset, create_chart,
     assemble_dashboard, WriteDone, WriteFails, WritePc, biVars, storeVars
<1>4. CASE Fail(s) \/ Commit(s) \/ CommitPending(s)
  BY <1>0, <1>4 DEF Fail, Commit, CommitPending, commit_build_failure, biVars,
     commit_build_success, commit_build_delivered_pending
<1>5. CASE PruneDelete(s)
  BY <1>5 DEF PruneDelete, DeleteOne, NextToPrune, PruneRows, PrunesOld,
     storeVars
<1>6. CASE MarkPruned(s)
  BY <1>6 DEF MarkPruned, mark_bi_artifacts_superseded, PruneRows, PrunesOld,
     biVars
<1>7. QED
  BY <1>1, <1>2, <1>3, <1>4, <1>5, <1>6, ThreadCases

\* A thread's step keeps what is known of the other threads.
LEMMA OtherThread ==
    ASSUME IInv, NEW s \in Sessions, Thread(s), NEW u \in Sessions \ {s}
    PROVE  Local(u)'
<1>1. OnlyThread(s)
  BY ThreadFrame DEF IInv
<1>2. \A t \in TokensOf(u) : attempt'[t] = attempt[t] /\ remote'[t] = remote[t]
  BY ThreadOwn, NoTokenAssumption DEF IInv, TokenHeld, HoldsToken, TokensOf
<1>3. pc[u] \notin {"idle", "begin", "return"} => tok[u] \in TokensOf(u)
  BY DEF IInv, TokenHeld, HoldsToken
<1>4. HasIntent(u)' /\ HasBuilt(u)'
  BY <1>1, <1>2, <1>3 DEF IInv, OnlyThread, IntentDurable, HasIntent, IntentPc,
     BuiltSoFar, HasBuilt, StagePc, WritePc
<1>5. PrunesOld(u)'
  BY <1>1, <1>2 DEF IInv, OnlyThread, PruneRows, PrunesOld
<1>6. QED
  BY <1>4, <1>5 DEF Local

\* A thread's step keeps what is known of itself and of the BI system.
LEMMA ThreadBi ==
    ASSUME IInv, NEW s \in Sessions, Thread(s) PROVE Local(s)' /\ World'
<1>1. OnlyThread(s)
  BY ThreadFrame DEF IInv
<1>2. pc[s] \notin {"idle", "begin", "return"} => tok[s] \in TokensOf(s) /\ tok[s] \in Token
  BY DEF IInv, TokenHeld, HoldsToken, TokensOf
<1>3. /\ HasIntent(s) /\ HasBuilt(s) /\ PrunesOld(s)
      /\ BlankAttempts /\ LedgerCovers /\ NoDuplicateArtifact
      /\ StoreTypeOK /\ BiTypeOK /\ MemTypeOK
  BY DEF IInv, IntentDurable, BuiltSoFar, PruneRows, TypeOK
<1> USE DEF Local, World, OnlyThread, Copies
<1>4. CASE Moves(s)
  <2>1. World'
    BY <1>3, <1>4, MoveStep DEF biVars, BlankAttempts, LedgerCovers,
       NoDuplicateArtifact, IInv
  <2>2. Local(s)'
    BY ZenonT(40), <1>3, <1>4, MoveStep
    DEF biVars, IInv, HasIntent, HasBuilt, PrunesOld,
       IntentPc, StagePc, WritePc, MadeAt
  <2>3. QED
    BY <2>1, <2>2
<1>5. CASE \E t \in TokensOf(s) : BeginBuild(s, t)
  BY <1>3, <1>5 DEF BeginBuild, set_session_status, biVars, BlankAttempts,
     LedgerCovers, NoDuplicateArtifact, MemTypeOK, HasIntent, HasBuilt,
     PrunesOld, IntentPc, StagePc, WritePc
<1>6. CASE Prepare(s)
  <2>1. World'
    BY <1>2, <1>3, <1>6 DEF Prepare, prepare_build_attempt, CanPrepare,
       StoreTypeOK, AttemptStatus, Nonterminal, Delivered, biVars,
       BlankAttempts, LedgerCovers, NoDuplicateArtifact
  <2>2. Local(s)'
    BY <1>2, <1>3, <1>6 DEF Prepare, Go, prepare_build_attempt, CanPrepare,
       biVars, MemTypeOK, HasIntent, HasBuilt, PrunesOld, IntentPc, StagePc,
       WritePc
  <2>3. QED
    BY <2>1, <2>2
<1>7. CASE Start(s)
  <2>1. World'
    BY <1>2, <1>3, <1>7 DEF Start, start_build_attempt, StoreTypeOK, biVars,
       BlankAttempts, LedgerCovers, NoDuplicateArtifact
  <2>2. Local(s)'
    BY <1>2, <1>3, <1>7 DEF Start, Go, start_build_attempt, biVars,
       StoreTypeOK, MemTypeOK, HasIntent, HasBuilt, PrunesOld, IntentPc,
       StagePc, WritePc, MadeAt, BlankAttempts
  <2>3. QED
    BY <2>1, <2>2
<1>8. CASE Build(s)
  <2> DEFINE Writes(k) ==
        remote' = [remote EXCEPT ![tok[s]][k] = remote'[tok[s]][k]]
  <2>1. UNCHANGED storeVars /\ UNCHANGED <<tok, orph, gone>>
    BY <1>8 DEF Build, ensure_database, ensure_dataset, create_chart,
       assemble_dashboard, WriteDone, WriteFails, Go
  <2>2. attempt[tok[s]] = "building" /\ tok[s] \in Token /\ pc[s] \in WritePc
    BY <1>2, <1>3, <1>8 DEF Build, ensure_database, ensure_dataset,
       create_chart,
       assemble_dashboard, WriteDone, WriteFails, WritePc, HasIntent, IntentPc
  <2>3. CASE ensure_database(s) \/ \E label \in WritePc : WriteFails(s, label)
    <3>1. remote' = remote /\ pc'[s] \in {"dataset", "fail_started"}
               /\ (pc'[s] = "dataset" => pc[s] = "database")
      BY <2>3, <1>3 DEF ensure_database, WriteFails, WriteDone, Go, biVars,
         MemTypeOK
    <3>2. QED
      BY <1>3, <2>1, <2>2, <3>1 DEF storeVars, BlankAttempts, LedgerCovers,
         NoDuplicateArtifact, HasIntent, HasBuilt, PrunesOld, IntentPc,
            StagePc, WritePc, MadeAt
  <2>4. CASE ensure_dataset(s) \/ create_chart(s) \/ assemble_dashboard(s)
    <3>1. PICK k \in PrivateKinds :
            /\ remote[tok[s]][k] = 0
            /\ remote' = [remote EXCEPT ![tok[s]][k] = 1]
            /\ pc'[s] = "fail_started" \/ (pc'[s] \in StagePc \ {"database"} /\
               MadeAt(pc'[s]) = MadeAt(pc[s]) \cup {k})
      BY <1>3, <2>2, <2>4 DEF ensure_dataset, create_chart, assemble_dashboard,
         WriteDone, Go, HasBuilt, StagePc, WritePc, MadeAt, PrivateKinds,
            MemTypeOK, BiTypeOK
    <3>2. World'
      BY <1>3, <2>1, <2>2, <3>1 DEF BiTypeOK, storeVars, BlankAttempts,
         LedgerCovers, NoDuplicateArtifact
    <3>3. Local(s)'
      BY <1>3, <2>1, <2>2, <3>1 DEF BiTypeOK, storeVars, HasIntent, HasBuilt,
         PrunesOld, IntentPc, StagePc, WritePc
    <3>4. QED
      BY <3>2, <3>3
  <2>5. QED
    BY <1>8, <2>3, <2>4 DEF Build
<1>9. CASE Fail(s)
  <2>1. World'
    BY <1>2, <1>3, <1>9 DEF Fail, commit_build_failure, StoreTypeOK, biVars,
       BlankAttempts, LedgerCovers, NoDuplicateArtifact, HasIntent, IntentPc
  <2>2. Local(s)'
    BY <1>2, <1>3, <1>9 DEF Fail, Raise, End, MemTypeOK, HasIntent, HasBuilt,
       PrunesOld, IntentPc, StagePc, WritePc
  <2>3. QED
    BY <2>1, <2>2
<1>10. CASE Commit(s) \/ CommitPending(s)
  <2>1. World'
    BY <1>2, <1>3, <1>10 DEF Commit, CommitPending, commit_build_success,
       commit_build_delivered_pending, StoreTypeOK, biVars, Kinds,
       BlankAttempts, LedgerCovers, NoDuplicateArtifact, HasIntent, IntentPc
  <2>2. Local(s)'
    BY <1>2, <1>3, <1>10 DEF Commit, CommitPending, commit_build_success,
       commit_build_delivered_pending, StoreTypeOK, Go, AfterCommit, biVars,
       MemTypeOK, HasIntent, HasBuilt, PrunesOld, IntentPc, StagePc, WritePc,
       MadeAt
  <2>3. QED
    BY <2>1, <2>2
<1>11. CASE SelectOrphans(s) \/ PruneDeleteFails(s)
  <2>1. World'
    BY <1>3, <1>11 DEF SelectOrphans, PruneDeleteFails, biVars, storeVars,
       BlankAttempts, LedgerCovers, NoDuplicateArtifact
  <2>2. Local(s)'
    BY <1>2, <1>3, <1>11 DEF SelectOrphans, PruneDeleteFails, NextToPrune,
       orphan_bi_artifacts, TokensOf, biVars, storeVars, MemTypeOK, HasIntent,
       HasBuilt, PrunesOld, IntentPc, StagePc, WritePc, MadeAt, LedgerCovers
  <2>3. QED
    BY <2>1, <2>2
<1>12. CASE PruneDelete(s)
  <2>1. PICK a \in orph[s] :
          /\ DeleteOne(a[1], a[2])
          /\ orph' = [orph EXCEPT ![s] = @ \ {a}]
          /\ gone' = [gone EXCEPT ![s] = @ \cup {a}]
          /\ pc' = [pc EXCEPT ![s] = IF orph'[s] = {} THEN "mark" ELSE "prune"]
          /\ UNCHANGED <<tok, storeVars>> /\ pc[s] = "prune"
    BY <1>12 DEF PruneDelete, NextToPrune
  <2>2. /\ a[1] \in Token /\ a[2] \in PrivateKinds /\ a[1] # tok[s]
        /\ attempt[a[1]] = "committed"
    BY <1>3, <2>1 DEF MemTypeOK, PrunesOld, TokensOf
  <2>3. remote' = [remote EXCEPT ![a[1]][a[2]] = 0]
    <3>1. remote[a[1]][a[2]] \in Nat /\ remote[a[1]][a[2]] <= 1
      BY <1>3, <2>2 DEF NoDuplicateArtifact, BiTypeOK
    <3>2. (IF remote[a[1]][a[2]] > 0 THEN remote[a[1]][a[2]] - 1 ELSE 0) = 0
      BY <3>1
    <3>3. QED
      BY <2>1, <3>2 DEF DeleteOne
  <2>4. World'
    BY <1>3, <2>1, <2>2, <2>3 DEF storeVars, BiTypeOK, BlankAttempts,
       LedgerCovers, NoDuplicateArtifact
  <2>5. Local(s)'
    BY <1>2, <1>3, <2>1, <2>2, <2>3 DEF storeVars, BiTypeOK, MemTypeOK,
       HasIntent, HasBuilt, PrunesOld, IntentPc, StagePc, WritePc, MadeAt
  <2>6. QED
    BY <2>4, <2>5
<1>13. CASE MarkPruned(s)
  <2>0. \A t \in Token, k \in PrivateKinds : <<t, k>> \in gone[s] => remote[t][k] = 0
    BY <1>3 DEF PrunesOld
  <2>1. World'
    <3>1. UNCHANGED <<attempt, remote>>
      BY <1>13 DEF MarkPruned, mark_bi_artifacts_superseded, biVars
    <3>2. \A t \in Token : ledger'[t] = {k \in ledger[t] : <<t, k>> \notin
       gone[s]}
      BY <1>13 DEF MarkPruned, mark_bi_artifacts_superseded
    <3>3. LedgerCovers'
      <4>1. ASSUME NEW t \in Token PROVE ledger'[t] # {} => attempt'[t] =
         "committed"
        BY <1>3, <3>1, <3>2 DEF LedgerCovers
      <4>2. ASSUME NEW t \in Token, NEW k \in PrivateKinds,
                   attempt'[t] = "committed", remote'[t][k] > 0
            PROVE  k \in ledger'[t]
        <5>1. k \in ledger[t]
          BY <1>3, <3>1, <4>2 DEF LedgerCovers
        <5>2. <<t, k>> \notin gone[s]
          BY <2>0, <3>1, <4>2
        <5>3. QED
          BY <3>2, <5>1, <5>2
      <4>3. QED
        BY <4>1, <4>2 DEF LedgerCovers
    <3>4. QED
      BY <1>3, <3>1, <3>3 DEF BlankAttempts, NoDuplicateArtifact
  <2>2. Local(s)'
    BY <1>2, <1>3, <1>13 DEF MarkPruned, Go, mark_bi_artifacts_superseded,
       biVars, MemTypeOK, HasIntent, HasBuilt, PrunesOld, IntentPc, StagePc,
       WritePc, MadeAt
  <2>3. QED
    BY <2>1, <2>2
<1>14. QED
  BY <1>4, <1>5, <1>6, <1>7, <1>8, <1>9, <1>10, <1>11, <1>12, <1>13,
     ThreadCases

\* A crash and the startup keep what is known of the BI system.
LEMMA StartupBi ==
    ASSUME IInv, Crash \/ Boot \/ Recovery PROVE BiInv'
<1>1. CASE Crash
  BY <1>1, NoTokenAssumption DEF Crash, BiInv, Local, World, IInv, TypeOK,
     StoreTypeOK, biVars, storeVars, HasIntent, IntentPc, HasBuilt, StagePc,
        WritePc, PrunesOld,
     BlankAttempts, LedgerCovers, NoDuplicateArtifact, Copies, RecoveryStage
<1>2. ASSUME srv # "serving", UNCHANGED memVars PROVE \A s \in Sessions : Local(s)'
  BY <1>2 DEF IInv, ThreadLives, memVars, threadVars, Local, HasIntent,
     IntentPc, HasBuilt, StagePc, WritePc,
     PrunesOld, PruneRows
<1>3. CASE Boot
  BY <1>2, <1>3 DEF Boot, interrupted_build_attempts, BiInv, World, IInv,
     biVars, storeVars,
     BlankAttempts, LedgerCovers, NoDuplicateArtifact, Copies, RecoveryStage
<1>4. CASE Recovery
  <2>1. srv # "serving" /\ UNCHANGED memVars
    BY <1>4 DEF Recovery, AbortPrepared, Discover, CleanupFails,
       FinishReconcile,
       DeleteOwned, Cleaned, Reconciled, Reap, Audit, IInv, RecoveryStage
  <2>2. \A s \in Sessions : Local(s)'
    BY <1>2, <2>1
  <2> USE DEF IInv, TypeOK, StoreTypeOK, BiTypeOK, BootTypeOK, biVars,
     storeVars,
       BlankAttempts, LedgerCovers, NoDuplicateArtifact, Copies, RecoveryStage,
          World
  <2>3. ASSUME NEW t \in Token, AbortPrepared(t) PROVE World' /\ RecoveryStage'
    BY <2>3, NoTokenAssumption DEF AbortPrepared,
       finish_build_attempt_reconciliation
  <2>4. ASSUME NEW t \in Token, Discover(t) PROVE World' /\ RecoveryStage'
    BY <2>4, NoTokenAssumption DEF Discover, Nonterminal
  <2>5. ASSUME NEW k \in PrivateKinds, DeleteOwned(k) PROVE World' /\ RecoveryStage'
    BY <2>5, NoTokenAssumption DEF DeleteOwned
  <2>6. ASSUME Cleaned PROVE World' /\ RecoveryStage'
    BY <2>6, NoTokenAssumption DEF Cleaned, FinishReconcile,
       finish_build_attempt_reconciliation
  <2>7. ASSUME NEW t \in Token, CleanupFails(t) PROVE World' /\ RecoveryStage'
    BY <2>7, NoTokenAssumption DEF CleanupFails, FinishReconcile,
       finish_build_attempt_reconciliation, Nonterminal
  <2>8. ASSUME Reconciled \/ Reap \/ Audit PROVE World' /\ RecoveryStage'
    BY <2>8 DEF Reconciled, Reap, Audit, reap_stuck_builds
  <2>9. QED
    BY <1>4, <2>2, <2>3, <2>4, <2>5, <2>6, <2>7, <2>8 DEF Recovery, BiInv
<1>5. QED
  BY <1>1, <1>3, <1>4

\* The invariant holds initially.
LEMMA InvInit == Init => IInv
<1> SUFFICES ASSUME Init PROVE IInv
  OBVIOUS
<1>1. TypeOK
  BY TypeInit
<1>2. QED
  BY <1>1, NoTokenAssumption DEF Init, StoreInit, IInv, ThreadLives, TokenHeld,
     HoldsToken, OneAttempt,
     IntentDurable, HasIntent, IntentPc, BlankAttempts, BuiltSoFar, HasBuilt,
        StagePc, WritePc,
     LedgerCovers, PruneRows, PrunesOld, RecoveryStage, NoDuplicateArtifact,
        Copies, Nonterminal

\* Every step preserves the invariant.
LEMMA InvNext == IInv /\ [Next]_vars => IInv'
<1> SUFFICES ASSUME IInv, [Next]_vars PROVE IInv'
  OBVIOUS
<1>1. TypeOK' /\ ThreadLives' /\ TokenHeld' /\ OneAttempt'
  BY TypeNext, LivesNext, HeldNext, AttemptNext DEF IInv
<1>2. BiInv'
  <2>1. ASSUME NEW s \in Sessions, Thread(s) PROVE BiInv'
    <3>1. \A u \in Sessions : Local(u)'
      BY <2>1, ThreadBi, OtherThread
    <3>2. World'
      BY <2>1, ThreadBi
    <3>3. RecoveryStage'
      BY <2>1, ThreadFrame, NoTokenAssumption DEF OnlyThread, IInv,
         ThreadLives, RecoveryStage, TypeOK, MemTypeOK, bootVars
    <3>4. QED
      BY <3>1, <3>2, <3>3 DEF BiInv
  <2>2. CASE UNCHANGED vars
    BY <2>2 DEF vars, storeVars, biVars, memVars, threadVars, bootVars, BiInv,
       Local, World, IInv,
       IntentDurable, HasIntent, IntentPc, BuiltSoFar, HasBuilt, StagePc,
          WritePc, PruneRows, PrunesOld,
       BlankAttempts, LedgerCovers, NoDuplicateArtifact, Copies, RecoveryStage
  <2>3. QED
    BY <2>1, <2>2, RequestBi, StartupBi DEF Next
<1>3. QED
  BY <1>1, <1>2 DEF IInv, BiInv, Local, World, IntentDurable, BuiltSoFar,
     PruneRows

\* The inductive invariant holds in every reachable state: what each position
\* of a build thread and each status of an attempt means for the BI system.
THEOREM Invariance == Spec => []IInv
BY InvInit, InvNext, PTL DEF Spec

\* Every variable of the pipeline keeps its type.
THEOREM TypeCorrect == Spec => []TypeOK
BY Invariance, PTL DEF IInv

\* Whatever fails in compile_and_build or at startup, every artifact in the BI
\* system is accounted for by an attempt or by the ledger.
THEOREM ArtifactsAccounted == Spec => []OrphanFree
<1>1. IInv => OrphanFree
  BY DEF IInv, TypeOK, StoreTypeOK, BiTypeOK, AttemptStatus, Nonterminal,
     Delivered, BlankAttempts, LedgerCovers, OrphanFree, Copies
<1>2. QED
  BY <1>1, Invariance, PTL

\* No crash, lost answer or retry of compile_and_build makes a second chart or
\* dashboard of a revision.
THEOREM CreatedOnce == Spec => []NoDuplicateArtifact
BY Invariance, PTL DEF IInv

\* The only steps that add something to the BI system are a thread's remote
\* calls, and those are made under a durable BUILDING attempt.
THEOREM WritesAreIntended == Spec => WriteNeedsIntent
<1> DEFINE Intended ==
      \A t \in Token, k \in PrivateKinds :
          remote'[t][k] > remote[t][k] => attempt[t] = "building"
<1>1. IInv /\ [Next]_vars => Intended
  <2> SUFFICES ASSUME IInv, [Next]_vars PROVE Intended
    OBVIOUS
  <2> USE DEF IInv, TypeOK, BiTypeOK
  <2>1. ASSUME NEW s \in Sessions, Build(s) PROVE Intended
    <3>1. attempt[tok[s]] = "building"
      BY <2>1 DEF Build, ensure_database, ensure_dataset, create_chart,
         assemble_dashboard,
         WriteDone, WriteFails, IntentDurable, HasIntent, IntentPc, WritePc
    <3>2. \A t \in Token \ {tok[s]} : remote'[t] = remote[t]
      BY <2>1 DEF Build, ensure_database, ensure_dataset, create_chart,
         assemble_dashboard,
         WriteFails, biVars
    <3>3. QED
      BY <3>1, <3>2
  <2>2. ASSUME NEW s \in Sessions, PruneDelete(s) PROVE Intended
    <3>1. PICK a \in orph[s] : DeleteOne(a[1], a[2])
      BY <2>2 DEF PruneDelete, NextToPrune
    <3>2. \A t \in Token, k \in PrivateKinds : ~(remote'[t][k] > remote[t][k])
      BY <3>1 DEF DeleteOne
    <3>3. QED
      BY <3>2
  <2>3. ASSUME NEW k \in PrivateKinds, DeleteOwned(k) PROVE Intended
    <3>1. \A t \in Token, j \in PrivateKinds : ~(remote'[t][j] > remote[t][j])
      BY <2>3 DEF DeleteOwned
    <3>2. QED
      BY <3>1
  <2>4. CASE remote' = remote
    BY <2>4
  <2>5. QED
    <3>1. ASSUME NEW s \in Sessions, Request(s) PROVE remote' = remote
      BY <3>1 DEF Request, Hydrate, Evict, Reply, Approve, Delete, biVars
    <3>2. ASSUME NEW s \in Sessions, Thread(s), ~Build(s), ~PruneDelete(s)
          PROVE  remote' = remote
      BY <3>2, ThreadCases, MoveStep DEF BeginBuild, Prepare, Start, Fail,
         Commit, CommitPending,
         SelectOrphans, PruneDeleteFails, MarkPruned, biVars
    <3>3. CASE Crash \/ Boot \/ UNCHANGED vars
      BY <2>4, <3>3 DEF Crash, Boot, vars, biVars
    <3>4. ASSUME Recovery, \A k \in PrivateKinds : ~DeleteOwned(k) PROVE
       remote' = remote
      BY <3>4 DEF Recovery, AbortPrepared, Discover, CleanupFails,
         FinishReconcile,
         Cleaned, Reconciled, Reap, Audit, biVars
    <3>5. QED
      BY <2>1, <2>2, <2>3, <2>4, <3>1, <3>2, <3>3, <3>4 DEF Next
<1>2. QED
  BY <1>1, Invariance, PTL DEF Spec, WriteNeedsIntent

-----------------------------------------------------------------------------
(* What the startup has settled.  An attempt it has handled shows as failed, *)
(* so the reaper, which passes over sessions with an open attempt, meets no  *)
(* such session that still shows building.                                   *)
Handled(t) == attempt[t] \in Nonterminal => sess[t[1]] # "building"
Settled ==
    /\ srv = "reconcile" => \A t \in Token \ todo : Handled(t)
    /\ srv = "reap" => \A t \in Token : Handled(t)
    /\ NoStuckSession

LEMMA FinishSettles ==
    ASSUME TypeOK, Settled, srv = "reconcile", NEW t \in Token, NEW status \in AttemptStatus,
           finish_build_attempt_reconciliation(t, status),
           todo' = todo \ {t}, srv' = srv
    PROVE  Settled'
<1>1. /\ attempt' = [attempt EXCEPT ![t] = status]
      /\ sess' = [sess EXCEPT ![t[1]] = "failed"]
  BY DEF finish_build_attempt_reconciliation
<1>2. t[1] \in Sessions /\ \A u \in Token : u[1] \in Sessions
  BY DEF Token
<1>3. ASSUME NEW u \in Token \ todo' PROVE Handled(u)'
  <2>1. CASE u[1] = t[1]
    BY <1>1, <1>2, <2>1 DEF Handled, TypeOK, StoreTypeOK
  <2>2. CASE u[1] # t[1]
    BY <1>1, <1>2, <2>2 DEF Settled, Handled, TypeOK, StoreTypeOK
  <2>3. QED
    BY <2>1, <2>2
<1>4. QED
  BY <1>3 DEF Settled, NoStuckSession

LEMMA SettledNext == IInv /\ Settled /\ [Next]_vars => Settled'
<1> SUFFICES ASSUME IInv, Settled, [Next]_vars PROVE Settled'
  OBVIOUS
<1>1. ASSUME NEW s \in Sessions, Request(s) \/ Thread(s) PROVE Settled'
  <2>1. CASE srv # "serving"
    <3>1. mem[s] = "absent" /\ pc[s] = "idle"
      BY <2>1 DEF IInv, ThreadLives
    <3>2. ~Thread(s)
      BY <3>1, ThreadFrame DEF IInv, OnlyThread
    <3>3. ~Request(s)
      BY <2>1, <3>1 DEF Request, Hydrate, Evict, Reply, Approve, CanApprove, MayApprove, Delete
    <3>4. QED
      BY <1>1, <3>2, <3>3
  <2>2. CASE srv = "serving"
    <3>1. srv' = srv
      BY <1>1, ThreadFrame DEF Request, Hydrate, Evict, Reply, Approve, Delete, OnlyThread, bootVars, IInv
    <3>2. QED
      BY <2>2, <3>1 DEF Settled, NoStuckSession
  <2>3. QED
    BY <2>1, <2>2
<1>2. CASE Crash
  BY <1>2 DEF Crash, Settled, NoStuckSession
<1>3. CASE Boot
  BY <1>3 DEF Boot, Settled, NoStuckSession, Handled, interrupted_build_attempts, storeVars
<1>4. ASSUME NEW t \in Token, AbortPrepared(t) PROVE Settled'
  BY <1>4, FinishSettles DEF AbortPrepared, IInv, AttemptStatus, Nonterminal
<1>5. ASSUME NEW t \in Token, CleanupFails(t) PROVE Settled'
  BY <1>5, FinishSettles DEF CleanupFails, FinishReconcile, IInv, AttemptStatus, Nonterminal
<1>6. CASE Cleaned
  <2>1. rtok \in Token /\ srv = "reconcile"
    BY <1>6 DEF Cleaned, IInv, RecoveryStage, TypeOK, BootTypeOK
  <2>2. QED
    BY <1>6, <2>1, FinishSettles DEF Cleaned, FinishReconcile, IInv, AttemptStatus, Nonterminal
<1>7. ASSUME \/ \E t \in Token : Discover(t)
             \/ \E k \in PrivateKinds : DeleteOwned(k)
             \/ UNCHANGED vars
      PROVE  Settled'
  <2>1. UNCHANGED <<srv, todo, attempt, sess>>
    BY <1>7 DEF Discover, DeleteOwned, vars, storeVars, bootVars
  <2>2. QED
    BY <2>1 DEF Settled, Handled, NoStuckSession
<1>8. CASE Reconciled \/ Audit
  BY <1>8 DEF Reconciled, Audit, Settled, Handled, NoStuckSession, storeVars
<1>9. CASE Reap
  <2> SUFFICES ASSUME NEW s \in Sessions, sess'[s] = "building" PROVE FALSE
    BY <1>9 DEF Reap, Settled, NoStuckSession
  <2>1. s \notin StuckSessions /\ sess[s] = "building"
    BY <1>9 DEF Reap, reap_stuck_builds
  <2>2. PICK t \in TokensOf(s) : attempt[t] \in Nonterminal
    BY <2>1 DEF StuckSessions, HasActiveAttempt
  <2>3. t \in Token /\ t[1] = s
    BY <2>2 DEF TokensOf, Token
  <2>4. QED
    BY <1>9, <2>1, <2>2, <2>3 DEF Reap, Settled, Handled
<1>10. QED
  BY <1>1, <1>2, <1>3, <1>4, <1>5, <1>6, <1>7, <1>8, <1>9 DEF Next, Recovery

\* Once the startup steps of _serve are done no session shows 'building': what
\* reconcile_interrupted_builds handled shows failed, the reaper does the rest.
THEOREM NobodyStuck == Spec => []NoStuckSession
<1>1. Init => Settled
  BY DEF Init, Settled, NoStuckSession
<1>2. Settled => NoStuckSession
  BY DEF Settled
<1>3. QED
  BY <1>1, <1>2, SettledNext, Invariance, PTL DEF Spec

-----------------------------------------------------------------------------
(* The pipeline implements ArtifactOwnership: each of its steps is a step   *)
(* of the ownership protocol, or one it does not see.                       *)

Claims == [t \in Token |-> ClaimOf(t)]
Objs   == [t \in Token |-> ObjectsOf(t)]

\* An ownership step, or one that ownership does not see.
OwnStep == Ownership!Next \/ UNCHANGED <<Claims, Objs>>

\* Ownership sees the BI system through remote only.
LEMMA ObjsSame == UNCHANGED remote => UNCHANGED Objs
BY DEF Objs, ObjectsOf

\* Ownership sees the Store through attempt only.
LEMMA ClaimsSame == UNCHANGED attempt => UNCHANGED Claims
BY DEF Claims, ClaimOf

\* An attempt that takes another status changes the claim of its revision.
LEMMA ClaimsOf ==
    ASSUME TypeOK, NEW t \in Token, NEW status \in AttemptStatus,
           attempt' = [attempt EXCEPT ![t] = status]
    PROVE  Claims' = [Claims EXCEPT ![t] = ClaimFor(status)]
BY DEF TypeOK, StoreTypeOK, Claims, ClaimOf

\* A write or a delete of one artifact changes the objects of its revision.
LEMMA ObjsOf ==
    ASSUME TypeOK, NEW t \in Token, NEW k \in PrivateKinds, NEW n \in Nat,
           remote' = [remote EXCEPT ![t][k] = n]
    PROVE  Objs' = [Objs EXCEPT ![t] = IF n > 0 THEN @ \cup {k} ELSE @ \ {k}]
<1>1. \A u \in Token \ {t} : ObjectsOf(u)' = ObjectsOf(u)
  BY DEF TypeOK, BiTypeOK, ObjectsOf
<1>2. ObjectsOf(t)' = IF n > 0 THEN ObjectsOf(t) \cup {k} ELSE ObjectsOf(t) \ {k}
  <2>1. \A j \in PrivateKinds : remote'[t][j] = IF j = k THEN n ELSE remote[t][j]
    BY DEF TypeOK, BiTypeOK
  <2>2. QED
    BY <2>1 DEF ObjectsOf
<1>3. QED
  BY <1>1, <1>2 DEF Objs

\* Nothing is claimed or built initially.
LEMMA OwnInit == Init => Ownership!Init
<1> SUFFICES ASSUME Init PROVE Ownership!Init
  OBVIOUS
<1>1. \A t \in Token : ClaimOf(t) = "free"
  BY DEF Init, StoreInit, ClaimOf, ClaimFor, Delivered
<1>2. \A t \in Token : ObjectsOf(t) = {}
  BY DEF Init, ObjectsOf
<1>3. Ownership!Revisions = Token
  BY DEF Ownership!Revisions, Token, Revs
<1>4. QED
  BY <1>1, <1>2, <1>3 DEF Ownership!Init

\* What ownership sees of a step that sets one attempt's status.
LEMMA OwnStatus ==
    ASSUME IInv, NEW t \in Token, NEW status \in AttemptStatus,
           attempt' = [attempt EXCEPT ![t] = status], UNCHANGED remote,
           \/ ClaimFor(attempt[t]) = ClaimFor(status)
           \/ attempt[t] = "prepared" /\ status = "building"
           \/ ClaimOf(t) = "claimed" /\ status = "cleaned" /\ ObjectsOf(t) = {}
           \/ ClaimOf(t) = "claimed" /\ status \in Delivered /\ ObjectsOf(t) =
              PrivateKinds
    PROVE  OwnStep
<1>1. UNCHANGED Objs
  BY ObjsSame
<1>2. Claims' = [Claims EXCEPT ![t] = ClaimFor(status)]
  BY ClaimsOf DEF IInv
<1>3. Objs[t] = ObjectsOf(t) /\ Claims[t] = ClaimFor(attempt[t]) /\ t \in Ownership!Revisions
  BY DEF Objs, Claims, ClaimOf, Ownership!Revisions, Token, Revs
<1>4. CASE ClaimFor(attempt[t]) = ClaimFor(status)
  BY <1>1, <1>2, <1>3, <1>4 DEF OwnStep, Claims
<1>5. CASE attempt[t] = "prepared" /\ status = "building"
  <2>1. ClaimFor(attempt[t]) = "free" /\ ClaimFor(status) = "claimed"
    BY <1>5 DEF ClaimFor, Delivered
  <2>2. Objs[t] = {}
    BY <1>3, <1>5 DEF IInv, BlankAttempts, ObjectsOf
  <2>3. \A u \in Ownership!Revisions : u[1] = t[1] => Claims[u] # "claimed"
    BY <1>5 DEF IInv, OneAttempt, Nonterminal, Claims, ClaimOf, ClaimFor,
       Ownership!Revisions, Token, Revs
  <2>4. Ownership!Claim(t)
    BY <1>1, <1>2, <1>3, <2>1, <2>2, <2>3 DEF Ownership!Claim, Claims, Objs
  <2>5. QED
    BY <1>3, <2>4 DEF OwnStep, Ownership!Next
<1>6. CASE ClaimOf(t) = "claimed" /\ status = "cleaned" /\ ObjectsOf(t) = {}
  <2>1. ClaimFor(status) = "free"
    BY <1>6 DEF ClaimFor, Delivered
  <2>2. Ownership!Release(t)
    BY <1>1, <1>2, <1>3, <1>6, <2>1 DEF Ownership!Release, Claims, Objs,
       ClaimOf
  <2>3. QED
    BY <1>3, <2>2 DEF OwnStep, Ownership!Next
<1>7. CASE ClaimOf(t) = "claimed" /\ status \in Delivered /\ ObjectsOf(t) = PrivateKinds
  <2>1. ClaimFor(status) = "held"
    BY <1>7 DEF ClaimFor, Delivered
  <2>2. Ownership!Hold(t)
    BY <1>1, <1>2, <1>3, <1>7, <2>1 DEF Ownership!Hold, Claims, Objs, ClaimOf
  <2>3. QED
    BY <1>3, <2>2 DEF OwnStep, Ownership!Next
<1>8. QED
  BY <1>4, <1>5, <1>6, <1>7

\* What ownership sees of a step that writes or deletes one artifact.
LEMMA OwnArtifact ==
    ASSUME IInv, NEW t \in Token, NEW k \in PrivateKinds, NEW n \in Nat,
           remote' = [remote EXCEPT ![t][k] = n], UNCHANGED attempt,
           \/ ClaimOf(t) = "claimed"
           \/ /\ ClaimOf(t) = "held" /\ n = 0
              /\ \E u \in Token : u[1] = t[1] /\ u[2] > t[2] /\ ObjectsOf(u) =
                 PrivateKinds
    PROVE  OwnStep
<1>1. UNCHANGED Claims
  BY ClaimsSame
<1>2. Objs' = [Objs EXCEPT ![t] = IF n > 0 THEN @ \cup {k} ELSE @ \ {k}]
  BY ObjsOf DEF IInv
<1>3. Claims[t] = ClaimOf(t) /\ t \in Ownership!Revisions
  BY DEF Claims, Ownership!Revisions, Token, Revs
<1>4. CASE ClaimOf(t) = "claimed"
  <2>1. Ownership!Write(t, k) \/ Ownership!Erase(t, k)
    BY <1>1, <1>2, <1>3, <1>4 DEF Ownership!Write, Ownership!Erase, Claims,
       Objs
  <2>2. QED
    BY <1>3, <2>1 DEF OwnStep, Ownership!Next
<1>5. CASE /\ ClaimOf(t) = "held" /\ n = 0
           /\ \E u \in Token : u[1] = t[1] /\ u[2] > t[2] /\ ObjectsOf(u) =
              PrivateKinds
  <2>1. Ownership!Retire(t, k)
    BY <1>1, <1>2, <1>3, <1>5 DEF Ownership!Retire, Claims, Objs,
       Ownership!Revisions, Token, Revs
  <2>2. QED
    BY <1>3, <2>1 DEF OwnStep, Ownership!Next
<1>6. QED
  BY <1>4, <1>5

\* A thread's step is an ownership step or invisible.
LEMMA OwnThread ==
    ASSUME IInv, NEW s \in Sessions, Thread(s) PROVE OwnStep
<1>1. pc[s] \notin {"idle", "begin", "return"} =>
        tok[s] \in TokensOf(s) /\ tok[s] \in Token /\ IsLatestApproved(tok[s])
  BY DEF IInv, TokenHeld, HoldsToken, TokensOf
<1>2. HasIntent(s) /\ HasBuilt(s) /\ PrunesOld(s) /\ StoreTypeOK /\ BiTypeOK /\ MemTypeOK
  BY DEF IInv, IntentDurable, BuiltSoFar, PruneRows, TypeOK
<1>3. ASSUME UNCHANGED <<attempt, remote>> PROVE OwnStep
  BY <1>3, ClaimsSame, ObjsSame DEF OwnStep
<1>4. CASE Moves(s)
  BY <1>3, <1>4, MoveStep DEF IInv, biVars
<1>5. CASE \/ \E t \in TokensOf(s) : BeginBuild(s, t)
           \/ SelectOrphans(s) \/ PruneDeleteFails(s) \/ MarkPruned(s)
  BY <1>3, <1>5 DEF BeginBuild, SelectOrphans, PruneDeleteFails, MarkPruned,
     set_session_status, mark_bi_artifacts_superseded, storeVars, biVars
<1>6. CASE Prepare(s)
  <2>1. ClaimFor(attempt[tok[s]]) = ClaimFor("prepared")
    BY <1>1, <1>2, <1>6 DEF Prepare, prepare_build_attempt, CanPrepare,
       ClaimFor,
       StoreTypeOK, Nonterminal, Delivered
  <2>2. QED
    BY <1>1, <1>6, <2>1, OwnStatus DEF Prepare, prepare_build_attempt, biVars,
       AttemptStatus, Nonterminal
<1>7. CASE Start(s)
  BY <1>1, <1>7, OwnStatus DEF Start, start_build_attempt, biVars,
     AttemptStatus, Nonterminal
<1>8. CASE Fail(s)
  <2>1. CASE pc[s] = "fail_early"
    BY <1>3, <1>8, <2>1 DEF Fail, commit_build_failure, biVars
  <2>2. CASE pc[s] = "fail_started"
    <3>1. ClaimFor(attempt[tok[s]]) = ClaimFor("cleanup_required")
      BY <1>2, <2>2 DEF HasIntent, IntentPc, ClaimFor
    <3>2. QED
      BY <1>1, <1>8, <2>2, <3>1, OwnStatus DEF Fail, commit_build_failure,
         biVars, AttemptStatus, Nonterminal
  <2>3. QED
    BY <1>8, <2>1, <2>2 DEF Fail
<1>9. CASE Commit(s) \/ CommitPending(s)
  <2>1. ClaimOf(tok[s]) = "claimed"
    BY <1>2, <1>9 DEF Commit, CommitPending, HasIntent, IntentPc, ClaimOf,
       ClaimFor
  <2>2. ObjectsOf(tok[s]) = PrivateKinds
    BY <1>2, <1>9 DEF Commit, CommitPending, HasBuilt, StagePc, WritePc,
       MadeAt, ObjectsOf
  <2>3. QED
    BY <1>1, <1>9, <2>1, <2>2, OwnStatus DEF Commit, CommitPending,
       commit_build_success,
       commit_build_delivered_pending, biVars, AttemptStatus, Delivered
<1>10. CASE Build(s)
  <2>1. ClaimOf(tok[s]) = "claimed" /\ tok[s] \in Token
    BY <1>1, <1>2, <1>10 DEF Build, ensure_database, ensure_dataset,
       create_chart,
       assemble_dashboard, WriteDone, WriteFails, HasIntent, IntentPc, WritePc,
          ClaimOf, ClaimFor
  <2>2. attempt' = attempt
    BY <1>10 DEF Build, ensure_database, ensure_dataset, create_chart,
       assemble_dashboard, WriteDone, WriteFails, storeVars
  <2>3. \/ remote' = remote
        \/ \E k \in PrivateKinds : remote' = [remote EXCEPT ![tok[s]][k] = 1]
    <3>1. CASE create_chart(s)
      <4>1. remote[tok[s]]["chart"] = 0
        BY <1>2, <3>1 DEF create_chart, WriteDone, HasBuilt, StagePc, WritePc,
           MadeAt, PrivateKinds
      <4>2. remote[tok[s]]["chart"] + 1 = 1
        BY <4>1
      <4>3. remote' = [remote EXCEPT ![tok[s]]["chart"] = 1]
        BY <3>1, <4>2 DEF create_chart
      <4>4. QED
        BY <4>3 DEF PrivateKinds
    <3>2. CASE assemble_dashboard(s)
      <4>1. remote[tok[s]]["dashboard"] = 0
        BY <1>2, <3>2 DEF assemble_dashboard, WriteDone, HasBuilt, StagePc,
           WritePc, MadeAt, PrivateKinds
      <4>2. remote[tok[s]]["dashboard"] + 1 = 1
        BY <4>1
      <4>3. remote' = [remote EXCEPT ![tok[s]]["dashboard"] = 1]
        BY <3>2, <4>2 DEF assemble_dashboard
      <4>4. QED
        BY <4>3 DEF PrivateKinds
    <3>3. QED
      BY <1>10, <3>1, <3>2 DEF Build, ensure_database, ensure_dataset,
         WriteFails, PrivateKinds, biVars
  <2>4. QED
    BY <1>3, <2>1, <2>2, <2>3, OwnArtifact
<1>11. CASE PruneDelete(s)
  <2>1. PICK a \in orph[s] : DeleteOne(a[1], a[2])
    BY <1>11 DEF PruneDelete, NextToPrune
  <2>2. pc[s] = "prune" /\ attempt' = attempt
    BY <1>11 DEF PruneDelete, storeVars
  <2>3. /\ a[1] \in Token /\ a[2] \in PrivateKinds /\ a[1] # tok[s]
        /\ a[1] \in TokensOf(s) /\ attempt[a[1]] = "committed"
    BY <1>2, <2>1 DEF MemTypeOK, PrunesOld, TokensOf
  <2>4. remote' = [remote EXCEPT ![a[1]][a[2]] = 0]
    <3>1. remote[a[1]][a[2]] \in Nat /\ remote[a[1]][a[2]] <= 1
      BY <1>2, <2>3 DEF IInv, NoDuplicateArtifact, Copies, BiTypeOK
    <3>2. (IF remote[a[1]][a[2]] > 0 THEN remote[a[1]][a[2]] - 1 ELSE 0) = 0
      BY <3>1
    <3>3. QED
      BY <2>1, <3>2 DEF DeleteOne
  <2>5. tok[s][1] = a[1][1] /\ tok[s][2] > a[1][2]
    <3>1. a[1] \in approved
      BY <2>3 DEF IInv, OneAttempt
    <3>2. a[1][2] <= tok[s][2] /\ a[1][1] = tok[s][1]
      BY <1>1, <2>2, <2>3, <3>1 DEF IsLatestApproved, TokensOf
    <3>3. a[1][2] # tok[s][2]
      BY <1>1, <2>2, <2>3, <3>2 DEF Token
    <3>4. QED
      BY <1>1, <2>2, <2>3, <3>2, <3>3, MaxRevAssumption DEF Token, Revs
  <2>6. ObjectsOf(tok[s]) = PrivateKinds
    BY <1>2, <2>2 DEF HasBuilt, StagePc, MadeAt, ObjectsOf
  <2>7. ClaimOf(a[1]) = "held"
    BY <2>3 DEF ClaimOf, ClaimFor, Delivered
  <2>8. QED
    BY <1>1, <2>2, <2>3, <2>4, <2>5, <2>6, <2>7, OwnArtifact
<1>12. QED
  BY <1>4, <1>5, <1>6, <1>7, <1>8, <1>9, <1>10, <1>11, ThreadCases

\* A step of the startup is an ownership step or invisible.
LEMMA OwnStartup ==
    ASSUME IInv, Recovery PROVE OwnStep
<1>1. ASSUME UNCHANGED <<attempt, remote>> PROVE OwnStep
  BY <1>1, ClaimsSame, ObjsSame DEF OwnStep
<1>2. ASSUME NEW t \in Token, AbortPrepared(t) PROVE OwnStep
  <2>1. ClaimFor(attempt[t]) = ClaimFor("aborted")
    BY <1>2 DEF AbortPrepared, ClaimFor, Delivered
  <2>2. QED
    BY <1>2, <2>1, OwnStatus DEF AbortPrepared,
       finish_build_attempt_reconciliation, biVars, AttemptStatus
<1>3. ASSUME NEW t \in Token, CleanupFails(t) PROVE OwnStep
  <2>1. ClaimFor(attempt[t]) = ClaimFor("cleanup_required")
    BY <1>3 DEF CleanupFails, IInv, RecoveryStage, Nonterminal, ClaimFor
  <2>2. QED
    BY <1>3, <2>1, OwnStatus DEF CleanupFails, FinishReconcile,
       finish_build_attempt_reconciliation, biVars, AttemptStatus, Nonterminal
<1>4. CASE Cleaned
  <2>1. rtok \in Token /\ attempt[rtok] \in {"building", "cleanup_required"}
    BY <1>4 DEF Cleaned, IInv, RecoveryStage, TypeOK, BootTypeOK
  <2>2. ObjectsOf(rtok) = {}
    BY <1>4 DEF Cleaned, IInv, RecoveryStage, ObjectsOf
  <2>3. QED
    BY <1>4, <2>1, <2>2, OwnStatus DEF Cleaned, FinishReconcile,
       finish_build_attempt_reconciliation,
       biVars, AttemptStatus, ClaimOf, ClaimFor
<1>5. ASSUME NEW k \in PrivateKinds, DeleteOwned(k) PROVE OwnStep
  <2>1. rtok \in Token /\ ClaimOf(rtok) = "claimed"
    BY <1>5 DEF DeleteOwned, IInv, RecoveryStage, TypeOK, BootTypeOK, ClaimOf,
       ClaimFor
  <2>2. QED
    BY <1>5, <2>1, OwnArtifact DEF DeleteOwned, storeVars
<1>6. CASE \/ \E t \in Token : Discover(t)
           \/ Reconciled \/ Reap \/ Audit
  BY <1>1, <1>6 DEF Discover, Reconciled, Reap, Audit, reap_stuck_builds,
     storeVars, biVars
<1>7. QED
  BY <1>2, <1>3, <1>4, <1>5, <1>6 DEF Recovery

\* Every behaviour of the pipeline, its crashes and its recoveries is one the
\* ownership protocol allows.
THEOREM Refinement == Spec => ImplementsOwnership
<1>1. IInv /\ [Next]_vars => [Ownership!Next]_<<Claims, Objs>>
  <2> SUFFICES ASSUME IInv, [Next]_vars PROVE OwnStep
    BY DEF OwnStep
  <2>1. ASSUME UNCHANGED <<attempt, remote>> PROVE OwnStep
    BY <2>1, ClaimsSame, ObjsSame DEF OwnStep
  <2>2. ASSUME NEW s \in Sessions, Request(s) PROVE OwnStep
    BY <2>1, <2>2 DEF Request, Hydrate, Evict, Reply, Approve, Delete,
       save_spec,
       approve_spec, set_session_status, storeVars, biVars
  <2>3. CASE Crash \/ Boot \/ UNCHANGED vars
    BY <2>1, <2>3 DEF Crash, Boot, vars, storeVars, biVars
  <2>4. QED
    BY <2>2, <2>3, OwnThread, OwnStartup DEF Next
<1>2. QED
  BY <1>1, OwnInit, Invariance, PTL DEF Spec, ImplementsOwnership,
     Ownership!Spec, Claims, Objs

-----------------------------------------------------------------------------
(* Rows and attempts: one lemma for each way they change together. *)

\* Steps that write no row: attempts, rows and approvals stay, a session may
\* leave 'building' or have its spec edited, a thread may let its token go.
LEMMA RowsKept ==
    ASSUME RowsSettled, OpenIsNewest, LastIsNewest, StoreTypeOK,
           UNCHANGED <<attempt, buildVars, approved>>,
           \A s \in Sessions :
              /\ nspec'[s] \in Nat /\ nspec'[s] >= nspec[s]
              /\ tok'[s] \in {tok[s], NoToken}
              /\ sess'[s] = "building" => sess[s] = "building"
    PROVE  RowsSettled' /\ OpenIsNewest' /\ LastIsNewest'
<1> USE DEF buildVars
<1>1. \A t \in Token : t[1] \in Sessions /\ t[2] \in Nat /\ nspec[t[1]] \in Nat
  BY DEF Token, Revs, StoreTypeOK
<1>2. RowsSettled'
  BY <1>1 DEF RowsSettled
<1>3. OpenIsNewest'
  BY <1>1 DEF OpenIsNewest, Newer
<1>4. LastIsNewest'
  BY <1>1 DEF LastIsNewest, Newer, IsLatestApproved
<1>5. QED
  BY <1>2, <1>3, <1>4

\* The thread of session s opens the attempt of its token, or advances it.
LEMMA AttemptOpens ==
    ASSUME RowsSettled, OpenIsNewest, LastIsNewest, StoreTypeOK,
           NEW s \in Sessions, NEW t \in TokensOf(s), NEW status \in Nonterminal,
           tok[s] = t, IsLatestApproved(t), row[t] \notin DeliveredRows,
           attempt' = [attempt EXCEPT ![t] = status],
           UNCHANGED <<buildVars, specVars, tok>>,
           \A u \in Sessions \ {s} : sess'[u] = sess[u]
    PROVE  RowsSettled' /\ OpenIsNewest' /\ LastIsNewest'
<1> USE DEF buildVars, specVars
<1>1. /\ t \in Token /\ t[1] = s /\ t \in approved
      /\ status \notin Delivered /\ attempt[t] \notin Delivered
  BY DEF TokensOf, IsLatestApproved, Nonterminal, Delivered, RowsSettled, DeliveredRows
<1>2. \A u \in Token : u[1] \in Sessions /\ u[2] \in Nat /\ (u # t => attempt'[u] = attempt[u])
  BY <1>1 DEF Token, Revs, StoreTypeOK
<1>3. \A u \in Newer(t) : row[u] = "none"
  BY <1>1, <1>2 DEF RowsSettled, IsLatestApproved, Newer, TokensOf
<1>4. RowsSettled'
  BY <1>1, <1>2 DEF RowsSettled, StoreTypeOK, DeliveredRows, Delivered
<1>5. OpenIsNewest'
  BY <1>1, <1>2, <1>3 DEF OpenIsNewest, Newer
<1>6. LastIsNewest'
  <2>1. \A u \in Token : u[1] = s /\ IsLatestApproved(u) => u = t
    BY <1>1, <1>2 DEF IsLatestApproved, Token
  <2>2. ASSUME NEW u \in Token, sess'[u[1]] = "building", IsLatestApproved(u)'
        PROVE  row'[u] \notin DeliveredRows
    BY <1>1, <1>2, <2>1, <2>2 DEF LastIsNewest, IsLatestApproved
  <2>3. QED
    BY <2>2 DEF LastIsNewest, Newer, IsLatestApproved
<1>7. QED
  BY <1>4, <1>5, <1>6

\* A builds row is written for a token of session s, with the end or failure
\* of its attempt; its session has no other open attempt, and no later build.
LEMMA RowWritten ==
    ASSUME RowsSettled, OpenIsNewest, LastIsNewest, StoreTypeOK,
           NEW s \in Sessions, NEW t \in TokensOf(s), t \in approved,
           NEW status \in BuildStatus \ {"none"}, AddBuildRow(t, status),
           attempt' = [attempt EXCEPT ![t] = attempt'[t]],
           attempt'[t] = "committed" <=> status = "ok",
           attempt'[t] = "delivered_pending" <=> status = "delivered_pending",
           \A u \in TokensOf(s) : attempt[u] \in Nonterminal => u = t,
           \A u \in Newer(t) : row[u] = "none",
           UNCHANGED specVars,
           tok[s] \in {t, NoToken}, \A u \in Sessions : tok'[u] \in {tok[u], NoToken},
           sess'[s] # "building", \A u \in Sessions \ {s} : sess'[u] = sess[u]
    PROVE  RowsSettled' /\ OpenIsNewest' /\ LastIsNewest'
<1> USE DEF specVars
<1>1. t \in Token /\ t[1] = s
  BY DEF TokensOf
<1>2. /\ row' = [row EXCEPT ![t] = status] /\ lastRow' = [lastRow EXCEPT ![s] = status]
      /\ failedRow' \subseteq failedRow \cup {t}
  BY <1>1 DEF AddBuildRow
<1>3. /\ row'[t] = status /\ lastRow'[s] = status
      /\ \A u \in Token : /\ u[1] \in Sessions /\ u[2] \in Nat
                          /\ u # t => attempt'[u] = attempt[u] /\ row'[u] = row[u]
      /\ \A u \in Sessions \ {s} : lastRow'[u] = lastRow[u]
  BY <1>1, <1>2 DEF Token, Revs, StoreTypeOK
<1>4. RowsSettled'
  BY <1>1, <1>2, <1>3 DEF RowsSettled
<1>5. OpenIsNewest'
  <2> SUFFICES ASSUME NEW u \in Token, attempt'[u] \in Nonterminal
               PROVE  tok'[u[1]] \in {u, NoToken} /\ \A v \in Newer(u) : row'[v] = "none"
    BY DEF OpenIsNewest, Newer
  <2>1. CASE u = t
    BY <1>1, <1>3, <2>1 DEF Newer, TokensOf
  <2>2. CASE u # t
    <3>1. attempt[u] \in Nonterminal /\ u[1] # s
      BY <1>1, <1>3, <2>2 DEF TokensOf
    <3>2. t \notin Newer(u)
      BY <1>1, <3>1 DEF Newer, TokensOf
    <3>3. \A v \in Newer(u) : row'[v] = row[v]
      BY <1>3, <3>2 DEF Newer, TokensOf
    <3>4. QED
      BY <1>3, <3>1, <3>3 DEF OpenIsNewest
  <2>3. QED
    BY <2>1, <2>2
<1>6. LastIsNewest'
  <2> SUFFICES ASSUME NEW u \in Token
      PROVE /\ row'[u] # "none" /\ (\A v \in Newer(u) : row'[v] = "none")
               => lastRow'[u[1]] \in {row'[u], "failed"}
            /\ row'[u] # "none" /\ IsLatestApproved(u) => lastRow'[u[1]] = row'[u]
            /\ sess'[u[1]] = "building" /\ IsLatestApproved(u)
               => row'[u] \notin DeliveredRows
    BY DEF LastIsNewest, Newer, IsLatestApproved
  <2>1. CASE u = t
    BY <1>1, <1>3, <2>1
  <2>2. CASE u # t /\ u[1] = s
    <3>1. u[2] # t[2]
      BY <1>1, <2>2 DEF Token
    <3>2. CASE u[2] > t[2]
      <4>1. row'[u] = "none"
        BY <1>1, <1>3, <2>2, <3>2 DEF Newer, TokensOf
      <4>2. QED
        BY <4>1, <2>2 DEF DeliveredRows
    <3>3. CASE u[2] < t[2]
      <4>1. t \in Newer(u) /\ ~IsLatestApproved(u)
        BY <1>1, <1>3, <2>2, <3>3 DEF Newer, TokensOf, IsLatestApproved
      <4>2. QED
        BY <1>3, <2>2, <4>1
    <3>4. QED
      BY <1>1, <1>3, <3>1, <3>2, <3>3
  <2>3. CASE u[1] # s
    <3>1. \A v \in Newer(u) : row'[v] = row[v]
      BY <1>1, <1>3, <2>3 DEF Newer, TokensOf
    <3>2. QED
      BY <1>1, <1>3, <2>3, <3>1 DEF LastIsNewest
  <2>4. QED
    BY <2>1, <2>2, <2>3
<1>7. QED
  BY <1>4, <1>5, <1>6

\* An attempt that failed before is settled: no row is written.
LEMMA AttemptSettled ==
    ASSUME RowsSettled, OpenIsNewest, LastIsNewest, StoreTypeOK,
           NEW t \in Token, attempt[t] \in Nonterminal,
           attempt' = [attempt EXCEPT ![t] = attempt'[t]],
           attempt'[t] \notin Delivered,
           UNCHANGED <<buildVars, specVars, tok>>,
           \A u \in Sessions : sess'[u] = "building" => sess[u] = "building"
    PROVE  RowsSettled' /\ OpenIsNewest' /\ LastIsNewest'
<1> USE DEF buildVars, specVars
<1>1. attempt[t] \notin Delivered
  BY DEF Nonterminal, Delivered
<1>2. \A u \in Token : u[1] \in Sessions /\ (u # t => attempt'[u] = attempt[u])
  BY DEF Token, StoreTypeOK
<1>3. RowsSettled'
  BY <1>1, <1>2 DEF RowsSettled, Delivered
<1>4. OpenIsNewest'
  BY <1>2 DEF OpenIsNewest, Newer
<1>5. LastIsNewest'
  BY <1>2 DEF LastIsNewest, Newer, IsLatestApproved
<1>6. QED
  BY <1>3, <1>4, <1>5

-----------------------------------------------------------------------------
(* What the steps of a thread do to rows. *)

\* Steps of a thread that write no builds row and open no attempt.
Quiet(s) ==
    \/ Moves(s) \/ Build(s) \/ SelectOrphans(s) \/ PruneDelete(s)
    \/ PruneDeleteFails(s) \/ MarkPruned(s)

\* They change no row, and past the commit they stay there or end the thread.
LEMMA QuietRows ==
    ASSUME TypeOK, NEW s \in Sessions, Thread(s), Quiet(s)
    PROVE  /\ UNCHANGED <<attempt, buildVars, specVars>>
           /\ \A u \in Sessions : tok'[u] \in {tok[u], NoToken}
           /\ \A u \in Sessions \ {s} : sess'[u] = sess[u] /\ tok'[u] = tok[u]
           /\ sess'[s] \in {sess[s], "built", "built_with_cleanup_degraded"}
           /\ tok'[s] = tok[s] \/ (pc'[s] = "idle" /\ tok'[s] = NoToken)
           /\ pc[s] \in DonePc => pc'[s] \in DonePc \cup {"idle"}
<1> USE DEF Moves, BeginFault, Gate, PrepareRefused, StartRefused, FailFault,
   CommitOwnerFault, CommitFault, CommitPendingFault, PruneFault, Degrade,
   DegradeFault, Return, BeginReuse, BeginBlocked, Build, ensure_database,
   ensure_dataset, create_chart, assemble_dashboard, WriteDone, WriteFails,
   SelectOrphans, PruneDelete, PruneDeleteFails, MarkPruned
<1>1. UNCHANGED <<attempt, buildVars, specVars>>
  BY DEF Quiet, storeVars, specVars, buildVars, set_session_status,
     mark_bi_artifacts_superseded
<1>2. \/ sess' = sess
      \/ \E status \in {"built", "built_with_cleanup_degraded"} :
            sess' = [sess EXCEPT ![s] = status]
  BY DEF Quiet, storeVars, set_session_status, mark_bi_artifacts_superseded
<1>3. \/ tok' = tok
      \/ tok' = [tok EXCEPT ![s] = NoToken] /\ pc' = [pc EXCEPT ![s] = "idle"]
  BY DEF Quiet, Go, Raise, End
<1>4. pc[s] \in DonePc => pc'[s] \in DonePc \cup {"idle"}
  <2>1. CASE Moves(s)
    BY <2>1, MoveStep DEF DonePc
  <2>2. CASE Build(s)
    BY <2>2 DEF WritePc, DonePc
  <2>3. CASE SelectOrphans(s) \/ PruneDelete(s) \/ PruneDeleteFails(s) \/ MarkPruned(s)
    BY <2>3 DEF Go, DonePc, TypeOK, MemTypeOK
  <2>4. QED
    BY <2>1, <2>2, <2>3 DEF Quiet
<1>5. /\ sess \in [Sessions -> SessionStatus]
      /\ tok \in [Sessions -> Token \cup {NoToken}] /\ pc \in [Sessions -> ThreadPc]
  BY DEF TypeOK, StoreTypeOK, MemTypeOK
<1> HIDE DEF Moves, Build, SelectOrphans, PruneDelete, PruneDeleteFails, MarkPruned
<1>6. /\ \A u \in Sessions \ {s} : sess'[u] = sess[u]
      /\ sess'[s] \in {sess[s], "built", "built_with_cleanup_degraded"}
  BY <1>2, <1>5
<1>7. /\ \A u \in Sessions \ {s} : tok'[u] = tok[u]
      /\ tok'[s] = tok[s] \/ (pc'[s] = "idle" /\ tok'[s] = NoToken)
  BY <1>3, <1>5
<1>8. QED
  BY <1>1, <1>4, <1>6, <1>7

\* Where a thread that writes a row or opens an attempt is, and with what.
LEMMA Holding ==
    ASSUME IInv, NEW s \in Sessions, pc[s] \notin {"idle", "begin", "return"}
    PROVE  /\ tok[s] \in TokensOf(s) /\ tok[s] \in Token /\ tok[s] # NoToken
           /\ tok[s][1] = s /\ tok[s] \in approved /\ IsLatestApproved(tok[s])
BY DEF IInv, TokenHeld, HoldsToken, TokensOf, IsLatestApproved

\* Nothing after the latest approved revision has been built.
LEMMA NothingNewer ==
    ASSUME IInv, RowInv, NEW t \in Token, IsLatestApproved(t)
    PROVE  \A u \in Newer(t) : row[u] = "none"
BY DEF RowInv, RowsSettled, IsLatestApproved, Newer, TokensOf, Token, Revs

\* The open attempt of a session is that of the token its thread holds.
LEMMA OpenIsOwn ==
    ASSUME IInv, RowInv, NEW s \in Sessions, tok[s] # NoToken, NEW u \in TokensOf(s),
           attempt[u] \in Nonterminal
    PROVE  u = tok[s]
BY DEF RowInv, OpenIsNewest, TokensOf

\* A thread's step keeps what is known of rows and attempts.
LEMMA RowThread ==
    ASSUME IInv, RowInv, NEW s \in Sessions, Thread(s)
    PROVE  RowInv'
<1>1. OnlyThread(s)
  BY ThreadFrame DEF IInv
<1>2. /\ RowsSettled /\ OpenIsNewest /\ LastIsNewest /\ StoreTypeOK /\ MemTypeOK
      /\ \A u \in Sessions : Undelivered(u)
  BY DEF RowInv, IInv, TypeOK
<1>3. \A u \in Sessions \ {s} : pc'[u] = pc[u] /\ tok'[u] = tok[u]
  BY <1>1 DEF OnlyThread
<1>4. specVars' = specVars
  BY <1>1 DEF OnlyThread
<1>5. ASSUME NEW u \in Sessions \ {s}, \A t \in Token \ {tok[s]} : row'[t] = row[t]
      PROVE  Undelivered(u)'
  <2>1. tok[u] # NoToken => tok[u] \in Token /\ tok[u] # tok[s]
    BY DEF IInv, TokenHeld, HoldsToken, TokensOf
  <2>2. QED
    BY <1>2, <1>3, <1>5, <2>1 DEF Undelivered
<1>6. CASE Quiet(s)
  <2>1. TypeOK /\ \A u \in Sessions : nspec[u] \in Nat
    BY DEF IInv, TypeOK, StoreTypeOK, Revs
  <2>2. RowsSettled' /\ OpenIsNewest' /\ LastIsNewest'
    BY <1>2, <1>4, <1>6, <2>1, QuietRows, RowsKept DEF specVars
  <2>3. Undelivered(s)'
    <3>1. pc'[s] = "idle" => tok'[s] = NoToken
      BY HeldNext DEF Next, TokenHeld, HoldsToken
    <3>2. /\ pc[s] \in DonePc => pc'[s] \in DonePc \cup {"idle"}
          /\ tok'[s] \in {tok[s], NoToken} /\ row' = row
      BY <1>6, <2>1, QuietRows DEF buildVars
    <3>3. QED
      BY <1>2, <3>1, <3>2 DEF Undelivered
  <2>4. QED
    BY <1>5, <1>6, <2>1, <2>2, <2>3, QuietRows DEF RowInv, buildVars
<1>7. CASE Prepare(s) \/ Start(s)
  <2>1. PICK status \in Nonterminal :
          /\ attempt' = [attempt EXCEPT ![tok[s]] = status]
          /\ UNCHANGED <<buildVars, specVars, tok>>
          /\ \A u \in Sessions \ {s} : sess'[u] = sess[u]
          /\ pc[s] \in {"prepare", "start"} /\ pc'[s] \notin DonePc
    <3>1. tok[s][1] = s /\ tok[s] \in Token
      BY <1>7, Holding DEF Prepare, Start
    <3>2. CASE Prepare(s)
      BY <1>2, <3>2, Zenon DEF Prepare, prepare_build_attempt, Go, Nonterminal, DonePc, MemTypeOK
    <3>3. CASE Start(s)
      BY <1>2, <3>1, <3>3 DEF Start, start_build_attempt, Go, Nonterminal, DonePc, StoreTypeOK, MemTypeOK
    <3>4. QED
      BY <1>7, <3>2, <3>3
  <2>2. /\ tok[s] \in TokensOf(s) /\ IsLatestApproved(tok[s])
        /\ row[tok[s]] \notin DeliveredRows
    BY <1>2, <2>1, Holding DEF Undelivered, DonePc
  <2>3. RowsSettled' /\ OpenIsNewest' /\ LastIsNewest'
    BY <1>2, <2>1, <2>2, AttemptOpens
  <2>4. Undelivered(s)'
    BY <2>1, <2>2 DEF Undelivered, buildVars
  <2>5. QED
    BY <1>5, <2>1, <2>3, <2>4 DEF RowInv, buildVars
<1>8. CASE Fail(s) \/ Commit(s) \/ CommitPending(s)
  <2> DEFINE t == tok[s]
  <2>1. /\ t \in TokensOf(s) /\ t \in Token /\ t # NoToken /\ t[1] = s /\ t \in approved
        /\ IsLatestApproved(t) /\ row[t] \notin DeliveredRows
    BY <1>2, <1>8, Holding DEF Undelivered, Fail, Commit, CommitPending, DonePc
  <2>2. PICK status \in BuildStatus \ {"none"} :
          /\ AddBuildRow(t, status)
          /\ attempt' = [attempt EXCEPT ![t] = attempt'[t]]
          /\ attempt'[t] = "committed" <=> status = "ok"
          /\ attempt'[t] = "delivered_pending" <=> status = "delivered_pending"
          /\ sess'[s] # "building" /\ \A u \in Sessions \ {s} : sess'[u] = sess[u]
          /\ tok'[s] \in {tok[s], NoToken}
          /\ pc'[s] \in DonePc \/ tok'[s] = NoToken
    <3>1. attempt[t] \notin Delivered
      BY <1>2, <2>1 DEF RowsSettled, Delivered, DeliveredRows
    <3> HIDE DEF t
    <3>2. CASE Fail(s)
      <4>1. AddBuildRow(t, "failed") /\ "failed" \in BuildStatus \ {"none"}
        BY <3>2 DEF Fail, commit_build_failure, BuildStatus, t
      <4>2. attempt' = [attempt EXCEPT ![t] = attempt'[t]] /\ attempt'[t] \notin Delivered
        BY <1>2, <2>1, <3>1, <3>2 DEF Fail, commit_build_failure, t, StoreTypeOK, Delivered
      <4>3. sess'[s] = "failed" /\ \A u \in Sessions \ {s} : sess'[u] = sess[u]
        BY <1>2, <2>1, <3>2 DEF Fail, commit_build_failure, t, StoreTypeOK
      <4>4. tok'[s] = NoToken
        BY <1>2, <3>2 DEF Fail, Raise, End, MemTypeOK
      <4>5. QED
        BY <4>1, <4>2, <4>3, <4>4 DEF Delivered
    <3>3. CASE Commit(s)
      <4>1. AddBuildRow(t, "ok") /\ "ok" \in BuildStatus \ {"none"}
        BY <3>3 DEF Commit, commit_build_success, BuildStatus, t
      <4>2. attempt' = [attempt EXCEPT ![t] = "committed"] /\ attempt'[t] = "committed"
        BY <1>2, <2>1, <3>3 DEF Commit, commit_build_success, t, StoreTypeOK
      <4>3. sess'[s] = "built" /\ \A u \in Sessions \ {s} : sess'[u] = sess[u]
        BY <1>2, <2>1, <3>3 DEF Commit, commit_build_success, t, StoreTypeOK
      <4>4. tok'[s] = tok[s] /\ pc'[s] \in DonePc
        BY <1>2, <3>3 DEF Commit, Go, AfterCommit, MemTypeOK, DonePc
      <4>5. QED
        BY <4>1, <4>2, <4>3, <4>4
    <3>4. CASE CommitPending(s)
      <4>1. AddBuildRow(t, "delivered_pending") /\ "delivered_pending" \in BuildStatus \ {"none"}
        BY <3>4 DEF CommitPending, commit_build_delivered_pending, BuildStatus, t
      <4>2. /\ attempt' = [attempt EXCEPT ![t] = "delivered_pending"]
            /\ attempt'[t] = "delivered_pending"
        BY <1>2, <2>1, <3>4 DEF CommitPending, commit_build_delivered_pending, t, StoreTypeOK
      <4>3. sess'[s] = "built_with_cleanup_degraded" /\ \A u \in Sessions \ {s} : sess'[u] = sess[u]
        BY <1>2, <2>1, <3>4 DEF CommitPending, commit_build_delivered_pending, t, StoreTypeOK
      <4>4. tok'[s] = tok[s] /\ pc'[s] \in DonePc
        BY <1>2, <3>4 DEF CommitPending, Go, AfterCommit, MemTypeOK, DonePc
      <4>5. QED
        BY <4>1, <4>2, <4>3, <4>4
    <3>5. QED
      BY <1>8, <3>2, <3>3, <3>4
  <2>3. \A u \in TokensOf(s) : attempt[u] \in Nonterminal => u = t
    BY <2>1, OpenIsOwn
  <2>4. \A u \in Newer(t) : row[u] = "none"
    BY <2>1, NothingNewer
  <2>5. \A u \in Sessions : tok'[u] \in {tok[u], NoToken}
    BY <1>3, <2>2
  <2>6. RowsSettled' /\ OpenIsNewest' /\ LastIsNewest'
    <3> HIDE DEF t
    <3>1. tok[s] \in {t, NoToken}
      BY DEF t
    <3>2. QED
      BY <1>2, <1>4, <2>1, <2>2, <2>3, <2>4, <2>5, <3>1, RowWritten
  <2>7. Undelivered(s)'
    BY <2>2 DEF Undelivered
  <2>8. \A u \in Token \ {tok[s]} : row'[u] = row[u]
    BY <1>2, <2>1, <2>2 DEF AddBuildRow, StoreTypeOK
  <2>9. QED
    BY <1>5, <2>6, <2>7, <2>8 DEF RowInv
<1>9. ASSUME NEW t \in TokensOf(s), BeginBuild(s, t) PROVE RowInv'
  <2>1. /\ UNCHANGED <<attempt, buildVars, specVars>> /\ row' = row
        /\ sess' = [sess EXCEPT ![s] = "building"] /\ tok' = [tok EXCEPT ![s] = t]
        /\ row[t] \notin DeliveredRows /\ IsLatestApproved(t)
        /\ \A u \in TokensOf(s) : attempt[u] \notin Nonterminal
    BY <1>9 DEF BeginBuild, set_session_status, Reusable, HasActiveAttempt, buildVars
  <2>2. t \in Token /\ t[1] = s /\ t \in approved /\ t # NoToken /\ tok'[s] = t
    BY <1>2, <2>1, NoTokenAssumption DEF TokensOf, IsLatestApproved, MemTypeOK
  <2>3. RowsSettled'
    BY <1>2, <2>1 DEF RowsSettled, buildVars, specVars
  <2>4. OpenIsNewest'
    <3>1. \A u \in Token : attempt[u] \in Nonterminal => u[1] # s /\ u[1] \in Sessions
      BY <2>1 DEF TokensOf, Token
    <3>2. \A u \in Sessions \ {s} : tok'[u] = tok[u]
      BY <1>3
    <3>3. QED
      BY <1>2, <2>1, <3>1, <3>2 DEF OpenIsNewest, Newer
  <2>5. LastIsNewest'
    <3>1. \A u \in Token : u[1] = s /\ IsLatestApproved(u) => u = t
      BY <2>1, <2>2 DEF IsLatestApproved, Token, Revs
    <3>2. \A u \in Token : u[1] \in Sessions /\ (u[1] # s => sess'[u[1]] = sess[u[1]])
      BY <1>2, <2>1 DEF Token, StoreTypeOK
    <3>3. ASSUME NEW u \in Token, sess'[u[1]] = "building", IsLatestApproved(u)
          PROVE  row[u] \notin DeliveredRows
      BY <1>2, <2>1, <3>1, <3>2, <3>3 DEF LastIsNewest
    <3>4. QED
      BY <1>2, <2>1, <3>3 DEF LastIsNewest, Newer, IsLatestApproved, buildVars, specVars
  <2>6. Undelivered(s)'
    BY <2>1, <2>2 DEF Undelivered
  <2>7. QED
    BY <1>5, <2>1, <2>3, <2>4, <2>5, <2>6 DEF RowInv
<1>10. QED
  BY <1>6, <1>7, <1>8, <1>9, ThreadCases DEF Quiet
\* A request keeps what is known of rows and attempts.
LEMMA RowRequest ==
    ASSUME IInv, RowInv, NEW s \in Sessions, Request(s)
    PROVE  RowInv'
<1>1. /\ RowsSettled /\ OpenIsNewest /\ LastIsNewest /\ StoreTypeOK /\ MemTypeOK
      /\ \A u \in Sessions : Undelivered(u)
      /\ \A u \in Sessions : nspec[u] \in Nat
  BY DEF RowInv, IInv, TypeOK, StoreTypeOK, Revs
<1>2. CASE Hydrate(s) \/ Evict(s) \/ Reply(s) \/ Delete(s)
  <2>1. UNCHANGED <<attempt, buildVars, approved, tok, pc>>
    BY <1>2 DEF Hydrate, Evict, Reply, Delete, storeVars, memVars, threadVars,
       buildVars, specVars, save_spec, set_session_status
  <2>2. \A u \in Sessions : nspec'[u] \in Nat /\ nspec'[u] >= nspec[u]
    BY <1>1, <1>2 DEF Hydrate, Evict, Reply, Delete, storeVars, specVars, save_spec,
       set_session_status, StoreTypeOK
  <2>3. \A u \in Sessions : sess'[u] = "building" => sess[u] = "building"
    BY <1>1, <1>2 DEF Hydrate, Evict, Reply, Delete, storeVars, save_spec,
       set_session_status, StoreTypeOK
  <2>4. RowsSettled' /\ OpenIsNewest' /\ LastIsNewest'
    BY <1>1, <2>1, <2>2, <2>3, RowsKept
  <2>5. QED
    BY <1>1, <2>1, <2>4 DEF RowInv, Undelivered, buildVars
<1>3. CASE Approve(s)
  <2>1. /\ UNCHANGED <<attempt, buildVars, nspec, sess, tok>>
        /\ approved' = approved \cup {LatestSpec(s)}
        /\ pc' = [pc EXCEPT ![s] = "begin"]
    BY <1>3 DEF Approve, approve_spec
  <2>2. tok[s] = NoToken
    BY <1>3 DEF Approve, CanApprove, MayApprove, IInv, ThreadLives, TokenHeld, HoldsToken
  <2>3. \A t \in Token : /\ t[1] \in Sessions /\ t[2] \in Nat
                         /\ t[1] = s /\ t[2] = nspec[s] => t = LatestSpec(s)
    BY DEF Token, Revs, LatestSpec
  <2>4. /\ LatestSpec(s) \in Token /\ LatestSpec(s)[1] = s
        /\ LatestSpec(s)[2] = nspec[s]
    BY <1>1 DEF LatestSpec, Token, StoreTypeOK
  <2>5. RowsSettled'
    BY <1>1, <2>1, <2>4 DEF RowsSettled, buildVars
  <2>6. OpenIsNewest'
    BY <1>1, <2>1 DEF OpenIsNewest, Newer, buildVars
  <2>7. ASSUME NEW t \in Token, IsLatestApproved(t)', row[t] # "none"
        PROVE  IsLatestApproved(t)
    BY <1>1, <2>1, <2>7 DEF IsLatestApproved, RowsSettled
  <2>8. LastIsNewest'
    BY <1>1, <2>1, <2>7 DEF LastIsNewest, Newer, buildVars, DeliveredRows
  <2>9. \A u \in Sessions : Undelivered(u)'
    BY <1>1, <2>1, <2>2 DEF Undelivered, buildVars, MemTypeOK
  <2>10. QED
    BY <2>5, <2>6, <2>8, <2>9 DEF RowInv
<1>4. QED
  BY <1>2, <1>3 DEF Request

\* The startup settles attempts of sessions nobody works on.
LEMMA FinishRows ==
    ASSUME IInv, RowInv, NEW t \in Token, attempt[t] \in Nonterminal,
           NEW status \in {"aborted", "cleaned", "cleanup_required"},
           finish_build_attempt_reconciliation(t, status), UNCHANGED <<tok, pc>>,
           tok[t[1]] = NoToken
    PROVE  RowInv'
<1>1. /\ RowsSettled /\ OpenIsNewest /\ LastIsNewest /\ StoreTypeOK
      /\ t[1] \in Sessions /\ t \in TokensOf(t[1]) /\ t \in approved
  BY DEF RowInv, IInv, TypeOK, OneAttempt, TokensOf, Token, Nonterminal
<1>2. /\ attempt' = [attempt EXCEPT ![t] = status] /\ UNCHANGED specVars
      /\ sess' = [sess EXCEPT ![t[1]] = "failed"]
      /\ (IF t \in failedRow THEN UNCHANGED buildVars ELSE AddBuildRow(t, "failed"))
  BY DEF finish_build_attempt_reconciliation
<1>3. /\ attempt' = [attempt EXCEPT ![t] = attempt'[t]]
      /\ attempt'[t] \notin Delivered
      /\ sess'[t[1]] = "failed" /\ \A u \in Sessions \ {t[1]} : sess'[u] = sess[u]
  BY <1>1, <1>2 DEF StoreTypeOK, Delivered
<1>4. \A u \in TokensOf(t[1]) : attempt[u] \in Nonterminal => u = t
  BY DEF IInv, OneAttempt, TokensOf
<1>5. \A u \in Newer(t) : row[u] = "none"
  BY <1>1 DEF OpenIsNewest
<1>6. row[t] \notin DeliveredRows
  BY <1>1 DEF RowsSettled, DeliveredRows, Nonterminal
<1>7. RowsSettled' /\ OpenIsNewest' /\ LastIsNewest'
  <2>1. CASE t \in failedRow
    <3>1. \A u \in Sessions : sess'[u] = "building" => sess[u] = "building"
      BY <1>3
    <3>2. UNCHANGED <<buildVars, specVars, tok>>
      BY <1>2, <2>1
    <3>3. QED
      BY <1>1, <1>3, <3>1, <3>2, AttemptSettled
  <2>2. CASE t \notin failedRow
    <3>1. "failed" \in BuildStatus \ {"none"} /\ AddBuildRow(t, "failed")
      BY <1>2, <2>2 DEF BuildStatus
    <3>2. /\ attempt'[t] = "committed" <=> "failed" = "ok"
          /\ attempt'[t] = "delivered_pending" <=> "failed" = "delivered_pending"
      BY <1>3 DEF Delivered
    <3>3. \A u \in Sessions : tok'[u] \in {tok[u], NoToken}
      OBVIOUS
    <3>4. QED
      BY ZenonT(40), <1>1, <1>2, <1>3, <1>4, <1>5, <3>1, <3>2, <3>3, RowWritten
  <2>3. QED
    BY <2>1, <2>2
<1>8. \A u \in Token : row'[u] = row[u] \/ row'[u] = "failed"
  BY <1>1, <1>2 DEF buildVars, AddBuildRow, StoreTypeOK
<1>9. ASSUME NEW u \in Sessions PROVE Undelivered(u)'
  <2>1. tok[u] # NoToken => tok[u] \in Token
    BY DEF IInv, TypeOK, MemTypeOK
  <2>2. QED
    BY <1>8, <2>1 DEF RowInv, Undelivered, DeliveredRows
<1>10. QED
  BY <1>7, <1>9 DEF RowInv

\* A crash and the startup keep what is known of rows and attempts.
LEMMA RowStartup ==
    ASSUME IInv, RowInv, Crash \/ Boot \/ Recovery
    PROVE  RowInv'
<1>1. /\ RowsSettled /\ OpenIsNewest /\ LastIsNewest /\ StoreTypeOK /\ MemTypeOK
      /\ \A u \in Sessions : Undelivered(u)
      /\ \A u \in Sessions : nspec[u] \in Nat /\ nspec[u] >= nspec[u]
  BY DEF RowInv, IInv, TypeOK, StoreTypeOK, Revs
<1>2. CASE \/ Crash \/ Boot \/ Reconciled \/ Audit
           \/ (\E t \in Token : Discover(t)) \/ (\E k \in PrivateKinds : DeleteOwned(k))
  <2>1. /\ UNCHANGED storeVars
        /\ UNCHANGED <<tok, pc>> \/ tok' = [s \in Sessions |-> NoToken]
    BY <1>2 DEF Crash, Boot, Reconciled, Audit, Discover, DeleteOwned, memVars, threadVars
  <2>2. UNCHANGED <<attempt, buildVars, approved, row>> /\ nspec' = nspec /\ sess' = sess
    BY <2>1 DEF storeVars, buildVars
  <2>3. \A u \in Sessions : tok'[u] \in {tok[u], NoToken}
    BY <2>1
  <2>4. RowsSettled' /\ OpenIsNewest' /\ LastIsNewest'
    BY <1>1, <2>2, <2>3, RowsKept
  <2>5. \A u \in Sessions : Undelivered(u)'
    BY <1>1, <2>1, <2>2 DEF Undelivered
  <2>6. QED
    BY <2>4, <2>5 DEF RowInv
<1>3. ASSUME NEW t \in Token, AbortPrepared(t) \/ CleanupFails(t) \/ (Cleaned /\ t = rtok)
      PROVE  RowInv'
  <2>1. /\ srv = "reconcile" /\ t \in todo /\ attempt[t] \in Nonterminal
        /\ \E status \in {"aborted", "cleaned", "cleanup_required"} :
              finish_build_attempt_reconciliation(t, status)
        /\ UNCHANGED <<tok, pc>>
    BY <1>3, NoTokenAssumption DEF AbortPrepared, CleanupFails, Cleaned, FinishReconcile,
       memVars, threadVars, IInv, RecoveryStage
  <2>2. tok[t[1]] = NoToken
    BY <2>1 DEF IInv, ThreadLives, TokenHeld, HoldsToken, Token
  <2>3. QED
    BY <2>1, <2>2, FinishRows
<1>4. CASE Reap
  <2>1. /\ UNCHANGED <<attempt, row, failedRow, approved, nspec, tok, pc>>
        /\ \A s \in Sessions :
              IF s \in StuckSessions THEN sess'[s] = "failed" /\ lastRow'[s] = "failed"
              ELSE sess'[s] = sess[s] /\ lastRow'[s] = lastRow[s]
    BY <1>4 DEF Reap, reap_stuck_builds, memVars, threadVars, specVars
  <2>2. RowsSettled'
    BY <1>1, <2>1 DEF RowsSettled
  <2>3. OpenIsNewest'
    BY <1>1, <2>1 DEF OpenIsNewest, Newer
  <2>4. ASSUME NEW t \in Token PROVE t[1] \in Sessions
    BY DEF Token
  <2>5. LastIsNewest'
    <3> SUFFICES ASSUME NEW t \in Token
        PROVE /\ row[t] # "none" /\ (\A u \in Newer(t) : row[u] = "none")
                 => lastRow'[t[1]] \in {row[t], "failed"}
              /\ row[t] # "none" /\ IsLatestApproved(t) => lastRow'[t[1]] = row[t]
              /\ sess'[t[1]] = "building" /\ IsLatestApproved(t)
                 => row[t] \notin DeliveredRows
      BY <2>1 DEF LastIsNewest, Newer, IsLatestApproved
    <3>1. CASE t[1] \notin StuckSessions
      BY <1>1, <2>1, <2>4, <3>1 DEF LastIsNewest
    <3>2. CASE t[1] \in StuckSessions
      <4>1. sess[t[1]] = "building"
        BY <3>2 DEF StuckSessions
      <4>2. IsLatestApproved(t) /\ row[t] # "none" => row[t] = "failed"
        BY <1>1, <4>1 DEF LastIsNewest, DeliveredRows, StoreTypeOK, BuildStatus
      <4>3. QED
        BY <2>1, <2>4, <3>2, <4>2 DEF DeliveredRows
    <3>3. QED
      BY <3>1, <3>2
  <2>6. QED
    BY <1>1, <2>1, <2>2, <2>3, <2>5 DEF RowInv, Undelivered
<1>5. QED
  <2>1. Cleaned => rtok \in Token
    BY DEF Cleaned, IInv, TypeOK, BootTypeOK
  <2>2. QED
    BY <1>2, <1>3, <1>4, <2>1 DEF Recovery

\* What rows and attempts say of each other is kept by every step.
LEMMA RowNext == IInv /\ RowInv /\ [Next]_vars => RowInv'
<1>1. ASSUME IInv, RowInv, UNCHANGED vars PROVE RowInv'
  BY <1>1 DEF vars, storeVars, memVars, threadVars, RowInv, RowsSettled, OpenIsNewest,
     Newer, LastIsNewest, IsLatestApproved, Undelivered
<1>2. QED
  BY <1>1, RowRequest, RowThread, RowStartup DEF Next

\* At first there are no rows and no attempts.
LEMMA RowInit == Init => RowInv
<1> SUFFICES ASSUME Init PROVE RowInv
  OBVIOUS
<1>1. /\ \A t \in Token : t[1] \in Sessions /\ row[t] = "none" /\ attempt[t] = "none"
      /\ approved = {} /\ failedRow = {}
      /\ \A s \in Sessions : tok[s] = NoToken
  BY DEF Init, StoreInit, Token
<1>2. RowsSettled /\ OpenIsNewest
  BY <1>1 DEF RowsSettled, OpenIsNewest, Nonterminal
<1>3. LastIsNewest
  BY <1>1 DEF LastIsNewest, IsLatestApproved
<1>4. QED
  BY <1>1, <1>2, <1>3 DEF RowInv, Undelivered

\* An attempt and the builds rows of its token never contradict each other.
THEOREM RowsAgree == Spec => []RowInv
BY RowInit, RowNext, Invariance, PTL DEF Spec
-----------------------------------------------------------------------------
(* What becomes of a delivery, when one of the two commits always works. *)

\* A thread writes rows of its own token and session only.
LEMMA OthersRows ==
    ASSUME IInv, NEW s \in Sessions, Thread(s)
    PROVE  /\ \A u \in Sessions \ {s} : lastRow'[u] = lastRow[u] /\ sess'[u] = sess[u]
           /\ \A t \in Token \ {tok[s]} : row'[t] = row[t]
<1>0. TypeOK /\ sess \in [Sessions -> SessionStatus]
  BY DEF IInv, TypeOK, StoreTypeOK
<1>1. CASE Quiet(s)
  BY <1>0, <1>1, QuietRows DEF buildVars
<1>2. CASE Prepare(s) \/ (\E t \in TokensOf(s) : BeginBuild(s, t))
  BY <1>0, <1>2 DEF Prepare, prepare_build_attempt, BeginBuild, set_session_status, buildVars
<1>3. CASE Start(s)
  BY <1>0, <1>3, Holding DEF Start, start_build_attempt, buildVars
<1>4. CASE Fail(s) \/ Commit(s) \/ CommitPending(s)
  <2>1. tok[s][1] = s /\ tok[s] \in Token
    BY <1>4, Holding DEF Fail, Commit, CommitPending
  <2>2. /\ \E status \in SessionStatus : sess' = [sess EXCEPT ![s] = status]
        /\ \E status \in BuildStatus : AddBuildRow(tok[s], status)
    BY <1>4, <2>1 DEF Fail, Commit, CommitPending, commit_build_failure, commit_build_success,
       commit_build_delivered_pending, SessionStatus, BuildStatus
  <2>3. /\ \E status \in BuildStatus : row' = [row EXCEPT ![tok[s]] = status]
        /\ \E status \in BuildStatus : lastRow' = [lastRow EXCEPT ![s] = status]
    BY <2>1, <2>2 DEF AddBuildRow
  <2>4. lastRow \in [Sessions -> BuildStatus] /\ row \in [Token -> BuildStatus]
    BY <1>0 DEF TypeOK, StoreTypeOK
  <2>5. \A u \in Sessions \ {s} : sess'[u] = sess[u]
    BY <1>0, <2>2
  <2>6. \A u \in Sessions \ {s} : lastRow'[u] = lastRow[u]
    BY <2>3, <2>4
  <2>7. \A t \in Token \ {tok[s]} : row'[t] = row[t]
    BY <2>3, <2>4
  <2>8. QED
    BY <2>5, <2>6, <2>7
<1>5. QED
  BY <1>1, <1>2, <1>3, <1>4, ThreadCases DEF Quiet

\* A thread that is past its commit got there by finding, making or keeping
\* a recorded delivery.
LEMMA DoneBy ==
    ASSUME TypeOK, NEW s \in Sessions, Thread(s), pc'[s] \in DonePc
    PROVE  \/ \E t \in TokensOf(s) : BeginReuse(s, t)
           \/ Commit(s) \/ CommitPending(s) \/ CommitPendingFault(s)
           \/ /\ pc[s] \in DonePc
              /\ UNCHANGED <<tok, row, lastRow>>
              /\ sess'[s] \in {sess[s], "built_with_cleanup_degraded"}
<1> USE DEF Go, TypeOK, MemTypeOK, StoreTypeOK, DonePc
<1>1. CASE Moves(s)
  <2>1. CASE PruneFault(s) \/ Degrade(s)
    BY <2>1 DEF PruneFault, Degrade, set_session_status, storeVars, buildVars
  <2>2. CASE BeginFault(s) \/ FailFault(s) \/ CommitOwnerFault(s) \/ DegradeFault(s)
             \/ Return(s) \/ (\E t \in TokensOf(s) : BeginBlocked(s, t))
    BY <2>2 DEF BeginFault, FailFault, CommitOwnerFault, DegradeFault, Return, BeginBlocked,
       Raise, End
  <2>3. CASE Gate(s) \/ PrepareRefused(s) \/ StartRefused(s) \/ CommitFault(s)
    BY <2>3 DEF Gate, PrepareRefused, StartRefused, CommitFault
  <2>4. QED
    BY <1>1, <2>1, <2>2, <2>3 DEF Moves
<1>2. CASE Build(s)
  BY <1>2 DEF Build, ensure_database, ensure_dataset, create_chart,
     assemble_dashboard, WriteDone, WriteFails, WritePc
<1>3. CASE Prepare(s) \/ Start(s) \/ (\E t \in TokensOf(s) : BeginBuild(s, t))
  BY <1>3 DEF Prepare, Start, BeginBuild
<1>4. CASE SelectOrphans(s) \/ PruneDelete(s) \/ PruneDeleteFails(s) \/ MarkPruned(s)
  BY <1>4 DEF SelectOrphans, PruneDelete, PruneDeleteFails, MarkPruned,
     mark_bi_artifacts_superseded, storeVars, buildVars
<1>5. CASE Fail(s)
  BY <1>5 DEF Fail, Raise, End
<1>6. QED
  BY <1>1, <1>2, <1>3, <1>4, <1>5, ThreadCases

\* A thread that ends tells its session that it failed, or what Return reads.
LEMMA EndsBy ==
    ASSUME TypeOK, NEW s \in Sessions, Thread(s), mem[s] = "building"
    PROVE  mem'[s] \in {"building", "failed"} \/ Return(s)
<1> USE DEF Go, Raise, End, TypeOK, MemTypeOK
<1>1. CASE Moves(s)
  BY <1>1 DEF Moves, BeginFault, Gate, PrepareRefused, StartRefused, FailFault,
     CommitOwnerFault, CommitFault, CommitPendingFault, PruneFault, Degrade, DegradeFault,
     BeginReuse, BeginBlocked
<1>2. CASE Build(s)
  BY <1>2 DEF Build, ensure_database, ensure_dataset, create_chart,
     assemble_dashboard, WriteDone, WriteFails
<1>3. CASE \/ Prepare(s) \/ Start(s) \/ (\E t \in TokensOf(s) : BeginBuild(s, t))
           \/ Fail(s) \/ Commit(s) \/ CommitPending(s)
           \/ SelectOrphans(s) \/ PruneDelete(s) \/ PruneDeleteFails(s) \/ MarkPruned(s)
  BY <1>3 DEF Prepare, Start, BeginBuild, Fail, Commit, CommitPending, SelectOrphans,
     PruneDelete, PruneDeleteFails, MarkPruned
<1>4. QED
  BY <1>1, <1>2, <1>3, ThreadCases

\* A thread past its commit has a delivery on record.
LEMMA RecordedThread ==
    ASSUME IInv, RowInv, DeliveryInv, "pending" \notin Faults,
           NEW s \in Sessions, Thread(s), NEW u \in Sessions
    PROVE  Recorded(u)'
<1>1. OnlyThread(s) /\ TypeOK
  BY ThreadFrame DEF IInv
<1>2. CASE u # s
  <2>1. tok[u] # NoToken => tok[u] \in Token \ {tok[s]}
    BY <1>2 DEF IInv, TokenHeld, HoldsToken, TokensOf
  <2>2. /\ lastRow'[u] = lastRow[u] /\ sess'[u] = sess[u]
        /\ tok[u] # NoToken => row'[tok[u]] = row[tok[u]]
    BY <1>2, <2>1, OthersRows
  <2>3. pc'[u] = pc[u] /\ tok'[u] = tok[u]
    BY <1>1, <1>2 DEF OnlyThread
  <2>4. QED
    BY <2>2, <2>3 DEF DeliveryInv, Recorded
<1>3. CASE u = s /\ pc'[s] \in DonePc
  <2>1. ASSUME NEW t \in TokensOf(s), BeginReuse(s, t)
        PROVE  Recorded(s)'
    <3>1. t \in Token /\ t[1] = s /\ tok[s] = NoToken
      BY <2>1 DEF TokensOf, BeginReuse, IInv, TokenHeld, HoldsToken
    <3>2. row[t] \in DeliveredRows /\ lastRow[s] = row[t]
      BY <2>1, <3>1 DEF BeginReuse, Reusable, RowInv, LastIsNewest, DeliveredRows
    <3>3. UNCHANGED <<tok, lastRow>>
      BY <2>1 DEF BeginReuse, Go, set_session_status, buildVars
    <3>4. row[t] = "delivered_pending" => sess'[s] = "built_with_cleanup_degraded"
      BY <2>1 DEF BeginReuse, set_session_status, IInv, TypeOK, StoreTypeOK
    <3>5. QED
      BY <3>1, <3>2, <3>3, <3>4 DEF Recorded
  <2>2. CASE Commit(s)
    <3>1. tok[s][1] = s /\ tok[s] \in Token /\ tok' = tok
      BY <2>2, Holding DEF Commit, Go
    <3>2. lastRow'[s] = "ok" /\ row'[tok[s]] = "ok"
      BY <2>2, <3>1 DEF Commit, commit_build_success, AddBuildRow, IInv, TypeOK, StoreTypeOK
    <3>3. QED
      BY <1>3, <3>1, <3>2 DEF Recorded, DeliveredRows
  <2>3. CASE CommitPending(s)
    <3>1. tok[s][1] = s /\ tok[s] \in Token /\ tok' = tok
      BY <2>3, Holding DEF CommitPending, Go
    <3>2. lastRow'[s] = "delivered_pending" /\ row'[tok[s]] = "delivered_pending"
      BY <2>3, <3>1 DEF CommitPending, commit_build_delivered_pending, AddBuildRow, IInv,
         TypeOK, StoreTypeOK
    <3>3. sess'[s] = "built_with_cleanup_degraded"
      BY <2>3, <3>1 DEF CommitPending, commit_build_delivered_pending, IInv, TypeOK, StoreTypeOK
    <3>4. QED
      BY <1>3, <3>1, <3>2, <3>3 DEF Recorded, DeliveredRows
  <2>4. ~CommitPendingFault(s)
    BY DEF CommitPendingFault, IInv, IntentDurable, HasIntent, IntentPc
  <2>5. CASE /\ pc[s] \in DonePc
             /\ UNCHANGED <<tok, row, lastRow>>
             /\ sess'[s] \in {sess[s], "built_with_cleanup_degraded"}
    BY <1>3, <2>5 DEF DeliveryInv, Recorded
  <2>6. QED
    BY <1>1, <1>3, <2>1, <2>2, <2>3, <2>4, <2>5, DoneBy
<1>4. QED
  BY <1>2, <1>3 DEF Recorded

\* A session that comes to rest without a delivery shows a failure.
LEMMA FailureThread ==
    ASSUME IInv, RowInv, DeliveryInv, "pending" \notin Faults,
           NEW s \in Sessions, Thread(s), NEW u \in Sessions
    PROVE  ShowsFailure(u)'
<1>1. OnlyThread(s) /\ TypeOK
  BY ThreadFrame DEF IInv
<1>2. LatestIsApproved(u)' = LatestIsApproved(u)
  BY <1>1 DEF OnlyThread, specVars, LatestIsApproved, LatestSpec
<1>3. CASE u # s
  <2>1. lastRow'[u] = lastRow[u] /\ mem'[u] = mem[u]
    BY <1>1, <1>3, OthersRows DEF OnlyThread
  <2>2. QED
    BY <1>2, <2>1 DEF DeliveryInv, ShowsFailure, AtRest
<1>4. CASE u = s
  <2>1. mem[s] = "building"
    BY <1>1 DEF OnlyThread, IInv, ThreadLives
  <2>2. CASE mem'[s] \in {"building", "failed"}
    BY <1>4, <2>2 DEF ShowsFailure, AtRest
  <2>3. CASE Return(s)
    <3>1. lastRow'[s] \in DeliveredRows
      BY <2>3 DEF Return, storeVars, DeliveryInv, Recorded, DonePc
    <3>2. QED
      BY <1>4, <3>1 DEF ShowsFailure
  <2>4. QED
    BY <1>1, <2>1, <2>2, <2>3, EndsBy
<1>5. QED
  BY <1>3, <1>4
\* A thread deletes only what a later delivery of its session has replaced.
LEMMA DeliveredThread ==
    ASSUME IInv, RowInv, DeliveryInv, "pending" \notin Faults,
           NEW s \in Sessions, Thread(s)
    PROVE  DeliveredStaysUp'
<1>1. /\ DeliveredStaysUp /\ TypeOK /\ TypeOK'
      /\ remote \in [Token -> [PrivateKinds -> Nat]]
      /\ remote' \in [Token -> [PrivateKinds -> Nat]]
      /\ row \in [Token -> BuildStatus] /\ attempt \in [Token -> AttemptStatus]
  BY TypeThread DEF DeliveryInv, IInv, TypeOK, BiTypeOK, StoreTypeOK
<1>2. CASE PruneDelete(s)
  <2>1. PICK a \in orph[s] : DeleteOne(a[1], a[2])
    BY <1>2 DEF PruneDelete, NextToPrune
  <2>2. /\ a[1] \in TokensOf(s) \ {tok[s]} /\ attempt[a[1]] = "committed"
        /\ a[1] \in approved /\ a[1] \in Token
    BY <2>1 DEF IInv, PruneRows, PrunesOld, OneAttempt, TokensOf
  <2>3. /\ pc[s] = "prune" /\ row' = row
        /\ tok[s] \in TokensOf(s) /\ tok[s] # NoToken /\ IsLatestApproved(tok[s])
    BY <1>2, Holding DEF PruneDelete, storeVars
  <2>4. row[tok[s]] \in DeliveredRows
    BY <2>3 DEF DeliveryInv, Recorded, DonePc
  <2>5. tok[s][2] > a[1][2]
    BY <2>2, <2>3 DEF IsLatestApproved, TokensOf, Token, Revs
  <2>6. ~NewestDelivered(a[1])'
    BY <2>2, <2>3, <2>4, <2>5 DEF NewestDelivered, TokensOf
  <2>7. \A t \in Token \ {a[1]} : remote'[t] = remote[t]
    BY <1>1, <2>1 DEF DeleteOne
  <2> SUFFICES ASSUME NEW t \in Token, NEW k \in PrivateKinds, NewestDelivered(t)'
               PROVE  remote'[t][k] > 0
    BY DEF DeliveredStaysUp, Copies, NewestDelivered
  <2>8. t # a[1]
    BY <2>6
  <2>9. NewestDelivered(t)
    BY <2>3 DEF NewestDelivered
  <2>10. QED
    BY <1>1, <2>7, <2>8, <2>9 DEF DeliveredStaysUp, Copies
<1>3. CASE Fail(s) \/ Commit(s) \/ CommitPending(s)
  <2>1. tok[s] \in Token /\ row[tok[s]] \notin DeliveredRows
    BY <1>3, Holding DEF RowInv, Undelivered, Fail, Commit, CommitPending, DonePc
  <2>2. remote' = remote
    BY <1>3 DEF Fail, Commit, CommitPending, biVars
  <2>3. row'[tok[s]] = "ok" => \A k \in PrivateKinds : remote[tok[s]][k] = 1
    <3>1. CASE Commit(s)
      BY <3>1 DEF Commit, IInv, BuiltSoFar, HasBuilt, StagePc, MadeAt
    <3>2. CASE Fail(s) \/ CommitPending(s)
      BY <1>1, <2>1, <3>2 DEF Fail, CommitPending, commit_build_failure,
         commit_build_delivered_pending, AddBuildRow
    <3>3. QED
      BY <1>3, <3>1, <3>2
  <2>4. \A t \in Token \ {tok[s]} : row'[t] = row[t]
    BY OthersRows
  <2> SUFFICES ASSUME NEW t \in Token, NEW k \in PrivateKinds, NewestDelivered(t)'
               PROVE  remote'[t][k] > 0
    BY DEF DeliveredStaysUp, Copies, NewestDelivered
  <2>5. CASE t = tok[s]
    BY <2>2, <2>3, <2>5 DEF NewestDelivered
  <2>6. CASE t # tok[s]
    <3>1. NewestDelivered(t)
      BY <2>1, <2>4, <2>6 DEF NewestDelivered, TokensOf
    <3>2. QED
      BY <1>1, <2>2, <3>1 DEF DeliveredStaysUp, Copies
  <2>7. QED
    BY <2>5, <2>6
<1>4. CASE \/ Moves(s) \/ (\E t \in TokensOf(s) : BeginBuild(s, t))
           \/ Prepare(s) \/ Start(s) \/ SelectOrphans(s) \/ PruneDeleteFails(s) \/ MarkPruned(s)
  <2>1. remote' = remote
    BY <1>1, <1>4, MoveStep DEF BeginBuild, Prepare, Start, SelectOrphans, PruneDeleteFails,
       MarkPruned, biVars
  <2>2. row' = row
    <3>1. CASE Quiet(s)
      BY <1>1, <3>1, QuietRows DEF buildVars
    <3>2. CASE Prepare(s) \/ Start(s) \/ (\E t \in TokensOf(s) : BeginBuild(s, t))
      BY <3>2 DEF Prepare, Start, BeginBuild, prepare_build_attempt, start_build_attempt,
         set_session_status, buildVars
    <3>3. QED
      BY <1>4, <3>1, <3>2 DEF Quiet
  <2>3. QED
    BY <1>1, <2>1, <2>2 DEF DeliveredStaysUp, Copies, NewestDelivered
<1>5. CASE Build(s)
  <2>1. row' = row
    BY <1>1, <1>5, QuietRows DEF Quiet, buildVars
  <2>2. row[tok[s]] # "ok"
    BY <1>5, Holding DEF Build, ensure_database, ensure_dataset, create_chart,
       assemble_dashboard, WriteDone, WriteFails, WritePc, RowInv, Undelivered, DonePc,
       DeliveredRows
  <2>3. \A t \in Token \ {tok[s]} : remote'[t] = remote[t]
    BY <1>1, <1>5 DEF Build, ensure_database, ensure_dataset, create_chart,
       assemble_dashboard, WriteFails, biVars
  <2> SUFFICES ASSUME NEW t \in Token, NEW k \in PrivateKinds, NewestDelivered(t)'
               PROVE  remote'[t][k] > 0
    BY DEF DeliveredStaysUp, Copies, NewestDelivered
  <2>4. t # tok[s] /\ NewestDelivered(t)
    BY <2>1, <2>2 DEF NewestDelivered
  <2>5. QED
    BY <1>1, <2>3, <2>4 DEF DeliveredStaysUp, Copies
<1>6. QED
  BY <1>2, <1>3, <1>4, <1>5, ThreadCases

\* A request changes no row; an approval concerns a session that builds next.
LEMMA DeliveryRequest ==
    ASSUME IInv, RowInv, DeliveryInv, NEW s \in Sessions, Request(s)
    PROVE  DeliveryInv'
<1>1. UNCHANGED <<remote, row, lastRow, tok>>
  BY DEF Request, Hydrate, Evict, Reply, Approve, Delete, save_spec, approve_spec,
     set_session_status, storeVars, biVars, memVars, threadVars, buildVars
<1>2. DeliveredStaysUp'
  BY <1>1 DEF DeliveryInv, DeliveredStaysUp, Copies, NewestDelivered
<1>3. ASSUME NEW u \in Sessions PROVE Recorded(u)'
  <2>1. CASE Approve(s)
    BY <1>1, <2>1 DEF Approve, approve_spec, IInv, TypeOK, MemTypeOK, DeliveryInv, Recorded, DonePc
  <2>2. CASE Delete(s)
    <3>1. pc[s] = "idle"
      BY <2>2 DEF Delete, IInv, ThreadLives
    <3>2. pc' = pc /\ (u # s => sess'[u] = sess[u])
      BY <2>2 DEF Delete, threadVars, set_session_status, IInv, TypeOK, StoreTypeOK
    <3>3. QED
      BY <1>1, <3>1, <3>2 DEF DeliveryInv, Recorded, DonePc
  <2>3. CASE Hydrate(s) \/ Evict(s) \/ Reply(s)
    BY <1>1, <2>3 DEF Hydrate, Evict, Reply, save_spec, storeVars, memVars, threadVars,
       DeliveryInv, Recorded
  <2>4. QED
    BY <2>1, <2>2, <2>3 DEF Request
<1>4. ASSUME NEW u \in Sessions PROVE ShowsFailure(u)'
  <2> USE DEF DeliveryInv, ShowsFailure, AtRest, LatestIsApproved, LatestSpec
  <2>0. mem \in [Sessions -> BuildState] /\ nspec \in [Sessions -> Revs]
    BY DEF IInv, TypeOK, MemTypeOK, StoreTypeOK
  <2>1. CASE Approve(s)
    <3>1. mem' = [mem EXCEPT ![s] = "building"] /\ approved' = approved \cup {LatestSpec(s)}
          /\ nspec' = nspec
      BY <2>1 DEF Approve, approve_spec
    <3>2. u # s => (LatestIsApproved(u)' <=> LatestIsApproved(u))
      BY <3>1
    <3>3. QED
      BY <1>1, <2>0, <3>1, <3>2
  <2>2. CASE Delete(s) \/ Evict(s)
    BY <1>1, <2>0, <2>2 DEF Delete, Evict, set_session_status, storeVars, specVars
  <2>3. CASE Hydrate(s)
    BY <1>1, <2>0, <2>3 DEF Hydrate, HydratedStatus, storeVars
  <2>4. CASE Reply(s)
    <3>1. nspec' = [nspec EXCEPT ![s] = @ + 1] /\ approved' = approved /\ mem' = mem
      BY <2>4 DEF Reply, save_spec, memVars
    <3>2. <<s, nspec[s] + 1>> \notin approved
      BY <2>0, <2>4 DEF RowInv, RowsSettled, IInv, TypeOK, StoreTypeOK, Token, Revs
    <3>3. QED
      BY <1>1, <2>0, <3>1, <3>2
  <2>5. QED
    BY <2>1, <2>2, <2>3, <2>4 DEF Request
<1>5. QED
  BY <1>2, <1>3, <1>4 DEF DeliveryInv

\* The startup deletes what an open attempt left, and that is no delivery.
LEMMA DeliveryStartup ==
    ASSUME IInv, RowInv, DeliveryInv, Crash \/ Boot \/ Recovery
    PROVE  DeliveryInv'
<1>1. ASSUME NEW u \in Sessions PROVE pc'[u] = "idle" /\ mem'[u] = "absent"
  <2>1. CASE Crash
    BY <2>1 DEF Crash
  <2>2. CASE Boot \/ Recovery
    <3>1. srv # "serving" /\ UNCHANGED memVars
      BY <2>2, NoTokenAssumption DEF Boot, Recovery, AbortPrepared, Discover, CleanupFails,
         FinishReconcile, DeleteOwned, Cleaned, Reconciled, Reap, Audit, IInv, RecoveryStage
    <3>2. QED
      BY <3>1 DEF memVars, threadVars, IInv, ThreadLives
  <2>3. QED
    BY <2>1, <2>2
<1>2. \A u \in Sessions : Recorded(u)' /\ ShowsFailure(u)'
  BY <1>1 DEF Recorded, ShowsFailure, AtRest, DonePc
<1>3. DeliveredStaysUp
  BY DEF DeliveryInv
<1>4. DeliveredStaysUp'
  <2>1. CASE \/ Crash \/ Boot \/ Reconciled \/ Audit \/ Reap \/ (\E t \in Token : Discover(t))
    <3>1. UNCHANGED <<row, remote>>
      BY <2>1 DEF Crash, Boot, Reconciled, Audit, Reap, Discover, reap_stuck_builds, storeVars,
         biVars
    <3>2. QED
      BY <1>3, <3>1 DEF DeliveredStaysUp, Copies, NewestDelivered
  <2>2. ASSUME NEW k \in PrivateKinds, DeleteOwned(k) PROVE DeliveredStaysUp'
    <3>1. row' = row /\ \A t \in Token \ {rtok} : remote'[t] = remote[t]
      BY <2>2 DEF DeleteOwned, storeVars, IInv, TypeOK, BiTypeOK
    <3>2. rtok \in Token /\ row[rtok] # "ok"
      BY <2>2 DEF DeleteOwned, IInv, TypeOK, BootTypeOK, RecoveryStage, RowInv, RowsSettled
    <3>3. \A t \in Token : NewestDelivered(t)' => NewestDelivered(t) /\ t # rtok
      BY <3>1, <3>2 DEF NewestDelivered
    <3>4. QED
      BY <1>3, <3>1, <3>3 DEF DeliveredStaysUp, Copies
  <2>3. ASSUME NEW t \in Token, AbortPrepared(t) \/ CleanupFails(t) \/ (Cleaned /\ t = rtok)
        PROVE  DeliveredStaysUp'
    <3>1. /\ t \in todo /\ attempt[t] \in Nonterminal /\ remote' = remote
          /\ UNCHANGED row \/ AddBuildRow(t, "failed")
      BY <2>3 DEF AbortPrepared, CleanupFails, Cleaned, FinishReconcile,
         finish_build_attempt_reconciliation, biVars, buildVars, IInv, RecoveryStage
    <3>2. row[t] \notin DeliveredRows
      BY <3>1 DEF RowInv, RowsSettled, DeliveredRows, Nonterminal
    <3>3. \A u \in Token : row'[u] = row[u] \/ (u = t /\ row'[u] = "failed")
      BY <3>1 DEF AddBuildRow, IInv, TypeOK, StoreTypeOK
    <3>4. \A u \in Token : NewestDelivered(u)' => NewestDelivered(u)
      BY <3>2, <3>3 DEF NewestDelivered, TokensOf, DeliveredRows
    <3>5. QED
      BY <1>3, <3>1, <3>4 DEF DeliveredStaysUp, Copies
  <2>4. Cleaned => rtok \in Token
    BY DEF Cleaned, IInv, TypeOK, BootTypeOK
  <2>5. QED
    BY <2>1, <2>2, <2>3, <2>4 DEF Recovery
<1>5. QED
  BY <1>2, <1>4 DEF DeliveryInv

\* Every step keeps deliveries up and failures shown.
LEMMA DeliveryNext ==
    IInv /\ RowInv /\ DeliveryInv /\ "pending" \notin Faults /\ [Next]_vars => DeliveryInv'
<1>1. ASSUME DeliveryInv, UNCHANGED vars PROVE DeliveryInv'
  <2>1. UNCHANGED <<remote, row, lastRow, tok, pc, mem, sess, approved, nspec>>
    BY <1>1 DEF vars, storeVars, biVars, memVars, threadVars
  <2>2. DeliveredStaysUp'
    BY <1>1, <2>1 DEF DeliveryInv, DeliveredStaysUp, Copies, NewestDelivered
  <2>3. QED
    BY <1>1, <2>1, <2>2 DEF DeliveryInv, Recorded, ShowsFailure, AtRest, LatestIsApproved, LatestSpec
<1>2. ASSUME IInv, RowInv, DeliveryInv, "pending" \notin Faults,
             NEW s \in Sessions, Thread(s)
      PROVE  DeliveryInv'
  BY <1>2, DeliveredThread, RecordedThread, FailureThread DEF DeliveryInv
<1>3. QED
  BY <1>1, <1>2, DeliveryRequest, DeliveryStartup DEF Next

\* At first nothing is delivered and no session is in memory.
LEMMA DeliveryInit == Init => DeliveryInv
BY DEF Init, StoreInit, DeliveryInv, DeliveredStaysUp, NewestDelivered, Recorded, DonePc,
   ShowsFailure, AtRest
\* As long as one of the commits works, no later build, crash or prune takes
\* anything of the newest recorded delivery of a session out of the BI system.
THEOREM DeliverySurvives ==
    "pending" \notin Faults => (Spec => []DeliveredStaysUp)
<1> SUFFICES ASSUME "pending" \notin Faults PROVE Spec => []DeliveredStaysUp
  OBVIOUS
<1>1. Spec => []DeliveryInv
  BY DeliveryInit, DeliveryNext, Invariance, RowsAgree, PTL DEF Spec
<1>2. DeliveryInv => DeliveredStaysUp
  BY DEF DeliveryInv
<1>3. QED
  BY <1>1, <1>2, PTL

\* Under the same condition an approved revision of a session that has no
\* delivery to show can be approved again.
THEOREM ApprovalRetries ==
    "pending" \notin Faults => (Spec => []ApprovedIsRetryable)
<1> SUFFICES ASSUME "pending" \notin Faults PROVE Spec => []ApprovedIsRetryable
  OBVIOUS
<1>1. Spec => []DeliveryInv
  BY DeliveryInit, DeliveryNext, Invariance, RowsAgree, PTL DEF Spec
<1>2. DeliveryInv => ApprovedIsRetryable
  BY DEF DeliveryInv, ShowsFailure, AtRest, ApprovedIsRetryable, CanApprove, MayApprove
<1>3. QED
  BY <1>1, <1>2, PTL

-----------------------------------------------------------------------------
(* What a session shows, when every build that ends has left a row. *)

\* A thread that fails has written a failed row, or was refused because of an
\* attempt whose failure is on record.
LEMMA FailedBy ==
    ASSUME IInv, RowInv, DeliveryInv, OpenHasFailed, Faults \cap UnrecordedFaults = {},
           NEW s \in Sessions, Thread(s), pc'[s] = "idle", ~Return(s)
    PROVE  lastRow'[s] = "failed"
<1> USE DEF Go, TypeOK, MemTypeOK, IInv
<1>1. CASE Fail(s)
  <2>1. tok[s][1] = s /\ tok[s] \in Token
    BY <1>1, Holding DEF Fail
  <2>2. QED
    BY <1>1, <2>1 DEF Fail, commit_build_failure, AddBuildRow, StoreTypeOK
<1>2. ASSUME NEW t \in TokensOf(s), BeginBlocked(s, t) PROVE lastRow'[s] = "failed"
  <2>1. PICK u \in TokensOf(s) : attempt[u] \in Nonterminal
    BY <1>2 DEF BeginBlocked, HasActiveAttempt
  <2>2. u \in Token /\ u[1] = s /\ tok[s] = NoToken /\ srv = "serving" /\ todo = {}
    BY <1>2, <2>1 DEF BeginBlocked, TokensOf, TokenHeld, HoldsToken, ThreadLives, RecoveryStage
  <2>3. lastRow[s] = "failed"
    BY <2>1, <2>2, NoTokenAssumption DEF OpenHasFailed
  <2>4. QED
    BY <1>2, <2>3 DEF BeginBlocked, storeVars
<1>3. ~BeginFault(s) /\ ~FailFault(s) /\ ~CommitOwnerFault(s) /\ ~DegradeFault(s)
  BY DEF UnrecordedFaults, BeginFault, FailFault, CommitOwnerFault, DegradeFault,
     IntentDurable, HasIntent, IntentPc
<1>4. CASE Moves(s)
  <2>1. ASSUME \/ Gate(s) \/ PrepareRefused(s) \/ StartRefused(s) \/ CommitFault(s)
               \/ CommitPendingFault(s) \/ PruneFault(s) \/ Degrade(s)
               \/ \E t \in TokensOf(s) : BeginReuse(s, t)
        PROVE  FALSE
    BY <2>1 DEF Gate, PrepareRefused, StartRefused, CommitFault, CommitPendingFault,
       PruneFault, Degrade, BeginReuse, AfterCommit
  <2>2. QED
    BY <1>2, <1>3, <1>4, <2>1 DEF Moves
<1>5. ~Build(s)
  BY DEF Build, ensure_database, ensure_dataset, create_chart,
     assemble_dashboard, WriteDone, WriteFails
<1>6. /\ ~Prepare(s) /\ ~Start(s) /\ \A t \in TokensOf(s) : ~BeginBuild(s, t)
      /\ ~Commit(s) /\ ~CommitPending(s)
      /\ ~SelectOrphans(s) /\ ~PruneDelete(s) /\ ~PruneDeleteFails(s) /\ ~MarkPruned(s)
  BY DEF Prepare, Start, BeginBuild, Commit, CommitPending, AfterCommit,
     SelectOrphans, PruneDelete, PruneDeleteFails, MarkPruned
<1>7. QED
  BY <1>1, <1>4, <1>5, <1>6, ThreadCases

\* A thread that lets an open attempt go leaves its session failed.
LEMMA OpenThread ==
    ASSUME IInv, RowInv, DeliveryInv, OpenHasFailed, Faults \cap UnrecordedFaults = {},
           NEW s \in Sessions, Thread(s)
    PROVE  OpenHasFailed'
<1>1. OnlyThread(s) /\ IInv' /\ RowInv'
  BY ThreadFrame, InvNext, RowThread DEF IInv, Next
<1> SUFFICES ASSUME NEW t \in Token, attempt'[t] \in Nonterminal,
                    srv' # "down", t \notin todo'
             PROVE  lastRow'[t[1]] = "failed" \/ tok'[t[1]] = t
  BY DEF OpenHasFailed
<1>2. UNCHANGED <<srv, todo>> /\ t[1] \in Sessions
  BY <1>1 DEF OnlyThread, bootVars, Token
<1>3. CASE t[1] # s
  <2>1. attempt'[t] = attempt[t]
    BY <1>3, ThreadOwn, NoTokenAssumption DEF IInv, TokenHeld, HoldsToken, TokensOf
  <2>2. lastRow'[t[1]] = lastRow[t[1]] /\ tok'[t[1]] = tok[t[1]]
    BY <1>1, <1>2, <1>3, OthersRows DEF OnlyThread
  <2>3. QED
    BY <1>2, <2>1, <2>2 DEF OpenHasFailed
<1>4. CASE t[1] = s
  <2>1. tok'[s] \in {t, NoToken}
    BY <1>1, <1>4 DEF RowInv, OpenIsNewest
  <2> SUFFICES ASSUME tok'[s] = NoToken PROVE lastRow'[s] = "failed"
    BY <1>4, <2>1
  <2>2. CASE tok[s] = NoToken
    <3>1. attempt'[t] = attempt[t] /\ t # tok[s]
      BY <2>2, ThreadOwn, NoTokenAssumption
    <3>2. ~Prepare(s) /\ ~Start(s) /\ ~Fail(s) /\ ~Commit(s) /\ ~CommitPending(s)
      BY <2>2, Holding DEF Prepare, Start, Fail, Commit, CommitPending
    <3>3. lastRow' = lastRow
      <4>1. CASE Quiet(s)
        BY <4>1, QuietRows DEF IInv, buildVars
      <4>2. ASSUME NEW u \in TokensOf(s), BeginBuild(s, u) PROVE lastRow' = lastRow
        BY <4>2 DEF BeginBuild, set_session_status, buildVars
      <4>3. QED
        BY <3>2, <4>1, <4>2, ThreadCases DEF Quiet
    <3>4. QED
      BY <1>2, <1>4, <3>1, <3>3 DEF OpenHasFailed
  <2>3. CASE tok[s] # NoToken
    <3>1. CASE Return(s)
      <4>1. attempt[t] \in Nonterminal /\ lastRow'[s] = lastRow[s]
        BY <3>1 DEF Return, storeVars
      <4>2. tok[s] # t
        BY <2>3, <3>1, <4>1 DEF Return, DeliveryInv, Recorded, DonePc, RowInv, RowsSettled,
           DeliveredRows, Nonterminal
      <4>3. QED
        BY <1>2, <1>4, <4>1, <4>2 DEF OpenHasFailed
    <3>2. pc'[s] = "idle"
      <4>1. CASE Quiet(s)
        BY <2>3, <4>1, QuietRows DEF IInv
      <4>2. CASE Prepare(s) \/ Start(s) \/ Commit(s) \/ CommitPending(s)
        BY <2>3, <4>2 DEF Prepare, Start, Commit, CommitPending, Go
      <4>3. CASE Fail(s)
        BY <4>3 DEF Fail, Raise, End, IInv, TypeOK, MemTypeOK
      <4>4. ASSUME NEW u \in TokensOf(s), BeginBuild(s, u) PROVE FALSE
        BY <2>3, <4>4 DEF BeginBuild, IInv, TokenHeld, HoldsToken
      <4>5. QED
        BY <4>1, <4>2, <4>3, <4>4, ThreadCases DEF Quiet
    <3>3. QED
      BY <3>1, <3>2, FailedBy
  <2>4. QED
    BY <2>2, <2>3
<1>5. QED
  BY <1>3, <1>4
\* A session that comes to rest after a delivery shows what its rows say.
LEMMA ShownThread ==
    ASSUME IInv, RowInv, DeliveryInv, StatusInv, Faults \cap UnrecordedFaults = {},
           NEW s \in Sessions, Thread(s), NEW u \in Sessions
    PROVE  ShowsDelivery(u)'
<1>1. OnlyThread(s) /\ TypeOK
  BY ThreadFrame DEF IInv
<1>2. CASE u # s
  <2>1. lastRow'[u] = lastRow[u] /\ mem'[u] = mem[u] /\ sess'[u] = sess[u]
    BY <1>1, <1>2, OthersRows DEF OnlyThread
  <2>2. QED
    BY <2>1 DEF StatusInv, ShowsDelivery, AtRest, HydratedStatus
<1>3. CASE u = s
  <2>1. mem[s] = "building"
    BY <1>1 DEF OnlyThread, IInv, ThreadLives
  <2>2. CASE Return(s)
    <3>1. Recorded(s) /\ pc[s] \in DonePc /\ UNCHANGED storeVars
      BY <2>2 DEF Return, DeliveryInv, DonePc
    <3>2. mem'[s] = IF sess[s] = "built_with_cleanup_degraded"
                    THEN "built_with_cleanup_degraded" ELSE "built"
      BY <2>2 DEF Return, End, IInv, TypeOK, MemTypeOK
    <3>3. QED
      BY <1>3, <3>1, <3>2 DEF ShowsDelivery, HydratedStatus, Recorded, storeVars
  <2>3. CASE pc'[s] = "idle" /\ ~Return(s)
    <3>1. lastRow'[s] = "failed"
      BY <2>3, FailedBy DEF StatusInv
    <3>2. QED
      BY <1>3, <3>1 DEF ShowsDelivery, DeliveredRows
  <2>4. CASE pc'[s] # "idle"
    BY <1>1, <1>3, <2>1, <2>4 DEF OnlyThread, ShowsDelivery, AtRest
  <2>5. QED
    BY <2>2, <2>3, <2>4
<1>4. QED
  BY <1>2, <1>3

\* A hydration shows what the rows say; no other request lets a session rest.
LEMMA StatusRequest ==
    ASSUME IInv, StatusInv, NEW s \in Sessions, Request(s)
    PROVE  StatusInv'
<1>1. UNCHANGED <<attempt, lastRow, tok, srv, todo>>
  BY DEF Request, Hydrate, Evict, Reply, Approve, Delete, save_spec, approve_spec,
     set_session_status, storeVars, bootVars, memVars, threadVars, buildVars
<1>2. OpenHasFailed'
  BY <1>1 DEF StatusInv, OpenHasFailed
<1>3. ASSUME NEW u \in Sessions PROVE ShowsDelivery(u)'
  <2> USE DEF StatusInv, ShowsDelivery, AtRest
  <2>0. mem \in [Sessions -> BuildState] /\ sess \in [Sessions -> SessionStatus]
    BY DEF IInv, TypeOK, MemTypeOK, StoreTypeOK
  <2>1. CASE Hydrate(s)
    BY <1>1, <2>0, <2>1 DEF Hydrate, HydratedStatus, storeVars
  <2>2. CASE Delete(s)
    BY <1>1, <2>0, <2>2 DEF Delete, set_session_status, HydratedStatus
  <2>3. CASE Evict(s)
    BY <1>1, <2>0, <2>3 DEF Evict, HydratedStatus, storeVars
  <2>4. CASE Approve(s)
    BY <1>1, <2>0, <2>4 DEF Approve, approve_spec, HydratedStatus
  <2>5. CASE Reply(s)
    BY <1>1, <2>0, <2>5 DEF Reply, save_spec, HydratedStatus, memVars
  <2>6. QED
    BY <2>1, <2>2, <2>3, <2>4, <2>5 DEF Request
<1>4. QED
  BY <1>2, <1>3 DEF StatusInv

\* The startup leaves no open attempt it has handled without a failed row.
LEMMA StatusStartup ==
    ASSUME IInv, RowInv, StatusInv, Crash \/ Boot \/ Recovery
    PROVE  StatusInv'
<1>1. CASE Crash
  BY <1>1 DEF Crash, StatusInv, OpenHasFailed, ShowsDelivery, AtRest
<1>2. CASE Boot \/ Recovery
  <2>1. srv # "serving" /\ UNCHANGED memVars
    BY <1>2, NoTokenAssumption DEF Boot, Recovery, AbortPrepared, Discover, CleanupFails,
       FinishReconcile, DeleteOwned, Cleaned, Reconciled, Reap, Audit, IInv, RecoveryStage
  <2>2. \A u \in Sessions : ShowsDelivery(u)'
    BY <2>1 DEF memVars, IInv, ThreadLives, ShowsDelivery, AtRest
  <2>3. CASE Boot
    BY <2>2, <2>3 DEF Boot, interrupted_build_attempts, StatusInv, OpenHasFailed, storeVars
  <2>4. CASE \/ Reconciled \/ Audit \/ (\E t \in Token : Discover(t))
             \/ (\E k \in PrivateKinds : DeleteOwned(k))
    BY <2>1, <2>2, <2>4 DEF Reconciled, Audit, Discover, DeleteOwned, storeVars, memVars, threadVars,
       StatusInv, OpenHasFailed
  <2>5. CASE Reap
    <3>1. \A t \in Token : t[1] \in Sessions
      BY DEF Token
    <3>2. /\ UNCHANGED <<attempt, tok, todo>> /\ srv = "reap"
          /\ \A s \in Sessions : lastRow'[s] \in {lastRow[s], "failed"}
      BY <2>5 DEF Reap, reap_stuck_builds, memVars, threadVars
    <3>3. QED
      BY <2>2, <3>1, <3>2 DEF StatusInv, OpenHasFailed
  <2>6. ASSUME NEW t \in Token, AbortPrepared(t) \/ CleanupFails(t) \/ (Cleaned /\ t = rtok)
        PROVE  OpenHasFailed'
    <3>1. /\ t \in todo /\ attempt[t] \in Nonterminal /\ todo' = todo \ {t}
          /\ UNCHANGED <<srv, tok>> /\ srv = "reconcile"
          /\ \E status \in AttemptStatus : attempt' = [attempt EXCEPT ![t] = status]
          /\ (t \in failedRow /\ UNCHANGED buildVars) \/ AddBuildRow(t, "failed")
      BY <2>6 DEF AbortPrepared, CleanupFails, Cleaned, FinishReconcile, AttemptStatus,
         Nonterminal, finish_build_attempt_reconciliation, memVars, threadVars, IInv,
         RecoveryStage
    <3>2. t[1] \in Sessions /\ lastRow \in [Sessions -> BuildStatus]
      BY DEF Token, IInv, TypeOK, StoreTypeOK
    <3>3. lastRow'[t[1]] = "failed"
      <4>1. CASE t \in failedRow /\ UNCHANGED buildVars
        <5>1. row[t] # "none" /\ row[t] \notin DeliveredRows
              /\ \A u \in Newer(t) : row[u] = "none"
          BY <3>1, <4>1 DEF RowInv, RowsSettled, OpenIsNewest, DeliveredRows, Nonterminal
        <5>2. row[t] = "failed"
          BY <5>1 DEF IInv, TypeOK, StoreTypeOK, BuildStatus, DeliveredRows
        <5>3. QED
          BY <4>1, <5>1, <5>2 DEF RowInv, LastIsNewest, buildVars
      <4>2. CASE AddBuildRow(t, "failed")
        BY <3>2, <4>2 DEF AddBuildRow
      <4>3. QED
        BY <3>1, <4>1, <4>2
    <3>4. \A u \in Sessions \ {t[1]} : lastRow'[u] = lastRow[u]
      BY <3>1, <3>2 DEF AddBuildRow, buildVars
    <3>5. \A u \in Token \ {t} : attempt'[u] = attempt[u] /\ u[1] \in Sessions
      BY <3>1 DEF Token, IInv, TypeOK, StoreTypeOK
    <3>6. QED
      BY <3>1, <3>3, <3>4, <3>5 DEF StatusInv, OpenHasFailed
  <2>7. Cleaned => rtok \in Token
    BY DEF Cleaned, IInv, TypeOK, BootTypeOK
  <2>8. QED
    BY <1>2, <2>2, <2>3, <2>4, <2>5, <2>6, <2>7 DEF Recovery, StatusInv
<1>3. QED
  BY <1>1, <1>2

\* Every step keeps memory and rows in agreement.
LEMMA StatusNext ==
    /\ IInv /\ RowInv /\ DeliveryInv /\ StatusInv
    /\ Faults \cap UnrecordedFaults = {} /\ [Next]_vars
    => StatusInv'
<1>1. ASSUME StatusInv, UNCHANGED vars PROVE StatusInv'
  BY <1>1 DEF vars, storeVars, memVars, threadVars, bootVars, StatusInv, OpenHasFailed,
     ShowsDelivery, AtRest, HydratedStatus
<1>2. ASSUME IInv, RowInv, DeliveryInv, StatusInv, Faults \cap UnrecordedFaults = {},
             NEW s \in Sessions, Thread(s)
      PROVE  StatusInv'
  BY <1>2, OpenThread, ShownThread DEF StatusInv
<1>3. QED
  BY <1>1, <1>2, StatusRequest, StatusStartup DEF Next

\* At first there is nothing to disagree about.
LEMMA StatusInit == Init => StatusInv
BY DEF Init, StoreInit, StatusInv, OpenHasFailed, Nonterminal, ShowsDelivery, AtRest

\* What memory and rows say agrees: a session that is evicted and rebuilt by
\* _hydrate shows the same dashboard and offers the same approvals.
LEMMA ShownIsStored == DeliveryInv /\ StatusInv => EvictionInvisible
<1> SUFFICES ASSUME DeliveryInv, StatusInv, NEW s \in Sessions, AtRest(s)
    PROVE  /\ MayApprove(s, HydratedStatus(s)) = CanApprove(s)
           /\ {mem[s], HydratedStatus(s)} \cap DashboardShown # {} => HydratedStatus(s) = mem[s]
  BY DEF EvictionInvisible, AtRest
<1>1. CASE lastRow[s] \in DeliveredRows
  BY <1>1 DEF StatusInv, ShowsDelivery, CanApprove
<1>2. CASE lastRow[s] \notin DeliveredRows
  <2>1. /\ mem[s] \in {"idle", "failed"} /\ HydratedStatus(s) \in {"idle", "failed"}
        /\ LatestIsApproved(s) => mem[s] = "failed" /\ HydratedStatus(s) = "failed"
    BY <1>2 DEF DeliveryInv, ShowsFailure, HydratedStatus
  <2>2. MayApprove(s, HydratedStatus(s)) /\ CanApprove(s)
    BY <2>1 DEF CanApprove, MayApprove
  <2>3. QED
    BY <2>1, <2>2 DEF DashboardShown, MayApprove, CanApprove
<1>3. QED
  BY <1>1, <1>2

\* When every build that ends has left a row, dropping an idle session from the
\* registry and rebuilding it from its rows goes unnoticed.
THEOREM EvictionUnnoticed ==
    Faults \cap UnrecordedFaults = {} => (Spec => []EvictionInvisible)
<1> SUFFICES ASSUME Faults \cap UnrecordedFaults = {} PROVE Spec => []EvictionInvisible
  OBVIOUS
<1>1. "pending" \notin Faults
  BY DEF UnrecordedFaults
<1>2. Spec => []DeliveryInv
  BY <1>1, DeliveryInit, DeliveryNext, Invariance, RowsAgree, PTL DEF Spec
<1>3. Spec => []StatusInv
  BY <1>2, StatusInit, StatusNext, Invariance, RowsAgree, PTL DEF Spec
<1>4. QED
  BY <1>2, <1>3, ShownIsStored, PTL

===============================================================================
