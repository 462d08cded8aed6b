----------------------------- MODULE BuildStore -----------------------------
(***************************************************************************)
(* The durable half of a dashboard build: the SQLite rows auto_bi/store/   *)
(* db.py keeps about sessions, specs, build attempts, builds and the       *)
(* ledger of BI artifacts, and the transactions over them.  Every          *)
(* operator below that primes variables is ONE transaction of the Store    *)
(* ("with self._lock, self._db"): it happens as a whole or not at all.     *)
(*                                                                         *)
(* A build is named by its build token, which stable_build_token derives   *)
(* from a session and one of its spec rows: here the pair <<s, r>>, the    *)
(* revision r numbering the session's spec rows in insertion order.        *)
(***************************************************************************)
EXTENDS Naturals, FiniteSets

CONSTANTS
    Sessions,   \* dialogue sessions
    MaxRev      \* bound: spec rows (revisions) a session may accumulate

ASSUME MaxRevAssumption == MaxRev \in Nat \ {0}

Revs  == 1..MaxRev
Token == Sessions \X Revs

\* One artifact per kind stands for all of that kind a build makes.
PrivateKinds == {"dataset", "chart", "dashboard"}
SharedKinds  == {"database"}
Kinds        == PrivateKinds \cup SharedKinds

SessionStatus == {"open", "building", "built", "failed", "deleted",
                  "built_with_cleanup_degraded"}

Nonterminal == {"prepared", "building", "cleanup_required"}
Delivered   == {"committed", "delivered_pending"}
AttemptStatus == Nonterminal \cup Delivered \cup {"none", "cleaned", "aborted"}

BuildStatus == {"none", "ok", "failed", "delivered_pending"}
DeliveredRows == {"ok", "delivered_pending"}

VARIABLES
    sess,       \* sessions.status
    nspec,      \* number of specs rows of a session
    approved,   \* the specs rows with status 'approved'
    attempt,    \* build_attempts.status by token ("none": no row)
    row,        \* status of the newest builds row of a token
    failedRow,  \* tokens with at least one 'failed' builds row
    lastRow,    \* status of the newest builds row of a session
    pending,    \* tokens with a 'delivered_pending' builds row
    ledger      \* bi_artifacts rows with status 'live', by token

storeVars == <<sess, nspec, approved, attempt, row, failedRow, lastRow,
               pending, ledger>>

StoreTypeOK ==
    /\ sess \in [Sessions -> SessionStatus]
    /\ nspec \in [Sessions -> Revs]
    /\ approved \in SUBSET Token
    /\ attempt \in [Token -> AttemptStatus]
    /\ row \in [Token -> BuildStatus]
    /\ failedRow \in SUBSET Token
    /\ lastRow \in [Sessions -> BuildStatus]
    /\ pending \in SUBSET Token
    /\ ledger \in [Token -> SUBSET Kinds]

\* Sessions that have just proposed their first spec and built nothing yet.
StoreInit ==
    /\ sess = [s \in Sessions |-> "open"]
    /\ nspec = [s \in Sessions |-> 1]
    /\ approved = {}
    /\ attempt = [t \in Token |-> "none"]
    /\ row = [t \in Token |-> "none"]
    /\ failedRow = {}
    /\ lastRow = [s \in Sessions |-> "none"]
    /\ pending = {}
    /\ ledger = [t \in Token |-> {}]

-----------------------------------------------------------------------------
(* Reads. *)

TokensOf(s) == {t \in Token : t[1] = s}

LatestSpec(s) == <<s, nspec[s]>>

LatestIsApproved(s) == LatestSpec(s) \in approved

\* specs(session_id) filtered on status = 'approved', last element.
IsLatestApproved(t) ==
    /\ t \in approved
    /\ \A u \in approved : u[1] = t[1] => u[2] <= t[2]

\* Slip: an attempt already marked for cleanup is not picked up again.
interrupted_build_attempts_Once ==
    {t \in Token : attempt[t] \in {"prepared", "building"}}

interrupted_build_attempts == {t \in Token : attempt[t] \in Nonterminal}

HasActiveAttempt(s) == \E t \in TokensOf(s) : attempt[t] \in Nonterminal

pending_ledger_builds == pending

\* Slip: the rows of the revision just built are selected too.
orphan_bi_artifacts_AnyToken(s, cur) ==
    {a \in Token \X PrivateKinds : a[1][1] = s /\ a[2] \in ledger[a[1]]}

\* Live rows of the session recorded under another token, never a shared kind.
orphan_bi_artifacts(s, cur) ==
    {a \in Token \X (Kinds \ SharedKinds) :
        /\ a[1][1] = s
        /\ a[1] # cur
        /\ a[2] \in ledger[a[1]]}

-----------------------------------------------------------------------------
(* Transactions. *)

AddBuildRow(t, status) ==
    /\ row' = [row EXCEPT ![t] = status]
    /\ lastRow' = [lastRow EXCEPT ![t[1]] = status]
    /\ failedRow' = IF status = "failed" THEN failedRow \cup {t} ELSE failedRow
    /\ pending' = IF status = "delivered_pending" THEN pending \cup {t}
                                                  ELSE pending

buildVars == <<row, lastRow, failedRow, pending>>
specVars  == <<nspec, approved>>

set_session_status(s, status) ==
    /\ sess' = [sess EXCEPT ![s] = status]
    /\ UNCHANGED <<specVars, attempt, buildVars, ledger>>

save_spec(s) ==
    /\ nspec' = [nspec EXCEPT ![s] = @ + 1]
    /\ UNCHANGED <<sess, approved, attempt, buildVars, ledger>>

approve_spec(s) ==
    /\ approved' = approved \cup {LatestSpec(s)}
    /\ UNCHANGED <<sess, nspec, attempt, buildVars, ledger>>

\* The transaction raises unless the token has no attempt or one that was
\* aborted or cleaned, and no other attempt of its session is nonterminal.
CanPrepare(t) ==
    /\ \A u \in TokensOf(t[1]) : attempt[u] \in Nonterminal => u = t
    /\ attempt[t] \notin Nonterminal \cup Delivered

prepare_build_attempt(t) ==
    /\ CanPrepare(t)
    /\ attempt' = [attempt EXCEPT ![t] = "prepared"]
    /\ UNCHANGED <<sess, specVars, buildVars, ledger>>

start_build_attempt(t) ==
    /\ attempt[t] = "prepared"
    /\ attempt' = [attempt EXCEPT ![t] = "building"]
    /\ sess' = [sess EXCEPT ![t[1]] = "building"]
    /\ UNCHANGED <<specVars, buildVars, ledger>>

commit_build_success(t) ==
    /\ attempt[t] = "building"
    /\ attempt' = [attempt EXCEPT ![t] = "committed"]
    /\ AddBuildRow(t, "ok")
    /\ ledger' = [ledger EXCEPT ![t] = @ \cup Kinds]
    /\ sess' = [sess EXCEPT ![t[1]] = "built"]
    /\ UNCHANGED specVars

commit_build_delivered_pending(t) ==
    /\ attempt[t] = "building"
    /\ attempt' = [attempt EXCEPT ![t] = "delivered_pending"]
    /\ AddBuildRow(t, "delivered_pending")
    /\ sess' = [sess EXCEPT ![t[1]] = "built_with_cleanup_degraded"]
    /\ UNCHANGED <<specVars, ledger>>

\* Slip: a failed build closes its attempt.
commit_build_failure_Closed(t, withAttempt) ==
    /\ attempt' = IF withAttempt THEN [attempt EXCEPT ![t] = "aborted"]
                                 ELSE attempt
    /\ AddBuildRow(t, "failed")
    /\ sess' = [sess EXCEPT ![t[1]] = "failed"]
    /\ UNCHANGED <<specVars, ledger>>

\* attempt_id given: the attempt stays nonterminal and blocks a retry.
commit_build_failure(t, withAttempt) ==
    /\ withAttempt => attempt[t] \in {"prepared", "building"}
    /\ attempt' = IF withAttempt
                  THEN [attempt EXCEPT ![t] = "cleanup_required"]
                  ELSE attempt
    /\ AddBuildRow(t, "failed")
    /\ sess' = [sess EXCEPT ![t[1]] = "failed"]
    /\ UNCHANGED <<specVars, ledger>>

\* Slip: the attempt's status is written to the session as well.
finish_build_attempt_reconciliation_Mixed(t, status) ==
    /\ attempt' = [attempt EXCEPT ![t] = status]
    /\ AddBuildRow(t, "failed")
    /\ sess' = [sess EXCEPT ![t[1]] = status]
    /\ UNCHANGED <<specVars, ledger>>

\* A failed row is added only if the token has none yet.
finish_build_attempt_reconciliation(t, status) ==
    /\ attempt' = [attempt EXCEPT ![t] = status]
    /\ IF t \in failedRow THEN UNCHANGED buildVars
                          ELSE AddBuildRow(t, "failed")
    /\ sess' = [sess EXCEPT ![t[1]] = "failed"]
    /\ UNCHANGED <<specVars, ledger>>

\* Slip: any attempt row, settled or not, shields a session from the reaper.
StuckSessions_Shielded ==
    {s \in Sessions : sess[s] = "building"
                      /\ \A t \in TokensOf(s) : attempt[t] = "none"}

\* Sessions 'building' that no nonterminal attempt covers; the failed row
\* the reaper adds carries no token.
StuckSessions == {s \in Sessions : sess[s] = "building" /\ ~HasActiveAttempt(s)}

reap_stuck_builds ==
    /\ sess' = [s \in Sessions |->
                   IF s \in StuckSessions THEN "failed" ELSE sess[s]]
    /\ lastRow' = [s \in Sessions |->
                   IF s \in StuckSessions THEN "failed" ELSE lastRow[s]]
    /\ UNCHANGED <<specVars, attempt, row, failedRow, pending, ledger>>

mark_bi_artifacts_superseded(gone) ==
    /\ ledger' = [t \in Token |-> {k \in ledger[t] : <<t, k>> \notin gone}]
    /\ UNCHANGED <<sess, specVars, attempt, buildVars>>
=============================================================================
