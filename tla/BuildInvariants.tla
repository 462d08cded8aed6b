--------------------------- MODULE BuildInvariants ---------------------------
(***************************************************************************)
(* The inductive invariant behind the safety properties of the build       *)
(* pipeline.  Its conjuncts say what each position of a build thread, each *)
(* status of an attempt and each stage of the startup means for the BI     *)
(* system, so that every step can be judged from the state it is taken in. *)
(***************************************************************************)
EXTENDS BuildRefinement

\* A build thread runs exactly while its session shows building, and only in
\* a serving process.
ThreadLives ==
    /\ \A s \in Sessions : mem[s] = "building" <=> pc[s] # "idle"
    /\ srv # "serving" => \A s \in Sessions : mem[s] = "absent"

\* What a thread builds is its session's latest approved revision.
HoldsToken(s) ==
    /\ pc[s] \in {"idle", "begin"} => tok[s] = NoToken
    /\ pc[s] \notin {"idle", "begin", "return"} => tok[s] # NoToken
    /\ tok[s] # NoToken => tok[s] \in TokensOf(s) /\ IsLatestApproved(tok[s])
TokenHeld == \A s \in Sessions : HoldsToken(s)

\* Attempts belong to approved revisions; one of a session is nonterminal.
OneAttempt ==
    /\ \A t \in Token : attempt[t] # "none" => t \in approved
    /\ \A t, u \in Token :
        /\ t[1] = u[1]
        /\ {attempt[t], attempt[u]} \subseteq Nonterminal
        => t = u

\* While remote calls are made or their failure is handled, BUILDING is durable.
IntentPc == WritePc \cup {"commit", "pending", "fail_started"}
HasIntent(s) == pc[s] \in IntentPc => attempt[tok[s]] = "building"
IntentDurable == \A s \in Sessions : HasIntent(s)

\* An attempt that wrote nothing, or was cleaned, has nothing in the BI system.
BlankAttempts ==
    \A t \in Token :
        attempt[t] \in {"none", "prepared", "cleaned", "aborted"} =>
            \A k \in PrivateKinds : remote[t][k] = 0

\* What the thread at a position has made of its revision so far.
MadeAt(label) ==
    IF label \in {"database", "dataset"} THEN {}
    ELSE IF label = "chart" THEN {"dataset"}
    ELSE IF label = "dashboard" THEN {"dataset", "chart"}
    ELSE PrivateKinds
StagePc == WritePc \cup {"commit", "pending", "select", "prune", "mark"}
HasBuilt(s) ==
    pc[s] \in StagePc => \A k \in PrivateKinds :
        remote[tok[s]][k] = IF k \in MadeAt(pc[s]) THEN 1 ELSE 0
BuiltSoFar == \A s \in Sessions : HasBuilt(s)

\* The ledger belongs to committed attempts and covers what they still have.
LedgerCovers ==
    \A t \in Token :
        /\ ledger[t] # {} => attempt[t] = "committed"
        /\ attempt[t] = "committed" =>
            \A k \in PrivateKinds : remote[t][k] > 0 => k \in ledger[t]

\* A prune handles live rows of other revisions; what it deleted is gone.
PrunesOld(s) ==
    /\ pc[s] \notin {"prune", "mark", "degrade", "return"} =>
        orph[s] = {} /\ gone[s] = {}
    /\ \A a \in orph[s] \cup gone[s] :
        /\ a[1] \in TokensOf(s) \ {tok[s]}
        /\ attempt[a[1]] = "committed"
    /\ \A a \in gone[s] : remote[a[1]][a[2]] = 0
PruneRows == \A s \in Sessions : PrunesOld(s)

\* The startup works on nonterminal attempts, one at a time, and what it has
\* not discovered of the current one does not exist.
RecoveryStage ==
    /\ todo # {} => srv = "reconcile"
    /\ \A t \in todo : attempt[t] \in Nonterminal
    /\ rtok # NoToken =>
        /\ rtok \in todo
        /\ attempt[rtok] \in {"building", "cleanup_required"}
        /\ \A k \in PrivateKinds \ owned : remote[rtok][k] = 0

IInv ==
    /\ TypeOK /\ ThreadLives /\ TokenHeld /\ OneAttempt /\ IntentDurable
    /\ BlankAttempts /\ BuiltSoFar /\ LedgerCovers /\ PruneRows
    /\ RecoveryStage /\ NoDuplicateArtifact

-----------------------------------------------------------------------------
(* What rows and memory say of a delivery. *)

\* A builds row tells how the attempt of its token ended.
RowsSettled ==
    \A t \in Token :
        /\ row[t] = "ok" <=> attempt[t] = "committed"
        /\ row[t] = "delivered_pending" <=> attempt[t] = "delivered_pending"
        /\ row[t] # "none" => t \in approved
        /\ t \in failedRow => row[t] # "none"
        /\ t \in approved => t[2] <= nspec[t[1]]

\* A session with a thread has no open attempt but the thread's, and no
\* revision after an open attempt has been built.
Newer(t) == {u \in TokensOf(t[1]) : u[2] > t[2]}
OpenIsNewest ==
    \A t \in Token :
        attempt[t] \in Nonterminal =>
            /\ tok[t[1]] \in {t, NoToken}
            /\ \A u \in Newer(t) : row[u] = "none"

\* The last row of a session is that of its newest built revision, unless
\* the reaper has failed a later one that left no row; a session marked
\* building has not delivered its approved revision.
LastIsNewest ==
    \A t \in Token :
        /\ row[t] # "none" /\ (\A u \in Newer(t) : row[u] = "none")
           => lastRow[t[1]] \in {row[t], "failed"}
        /\ row[t] # "none" /\ IsLatestApproved(t) => lastRow[t[1]] = row[t]
        /\ sess[t[1]] = "building" /\ IsLatestApproved(t)
           => row[t] \notin DeliveredRows

\* A thread builds what is not delivered yet, and where it has gone past its
\* commit the delivery is on record.
DonePc == {"select", "prune", "mark", "degrade", "return"}
Undelivered(s) ==
    pc[s] \notin DonePc /\ tok[s] # NoToken => row[tok[s]] \notin DeliveredRows
RowInv ==
    RowsSettled /\ OpenIsNewest /\ LastIsNewest /\ \A s \in Sessions : Undelivered(s)

Recorded(s) ==
    pc[s] \in DonePc =>
        /\ lastRow[s] \in DeliveredRows
        /\ lastRow[s] = "delivered_pending" =>
            sess[s] = "built_with_cleanup_degraded"
        /\ tok[s] # NoToken => row[tok[s]] \in DeliveredRows

\* A session at rest whose last build did not deliver shows no dashboard, and
\* shows a failure if its revision is approved.
AtRest(s) == mem[s] \notin {"absent", "building"}
ShowsFailure(s) ==
    AtRest(s) /\ lastRow[s] \notin DeliveredRows =>
        /\ mem[s] \in {"idle", "failed"}
        /\ LatestIsApproved(s) => mem[s] = "failed"

DeliveryInv ==
    /\ DeliveredStaysUp
    /\ \A s \in Sessions : Recorded(s) /\ ShowsFailure(s)

\* Store calls whose failure ends a thread, or passes it on, without a row.
UnrecordedFaults == {"begin", "failure", "owner", "status", "pending"}

\* An open attempt nobody works on has failed its session.
OpenHasFailed ==
    \A t \in Token :
        attempt[t] \in Nonterminal =>
            \/ lastRow[t[1]] = "failed" \/ tok[t[1]] = t
            \/ srv = "down" \/ t \in todo

\* A session at rest whose last build delivered shows what its rows say.
ShowsDelivery(s) ==
    AtRest(s) /\ lastRow[s] \in DeliveredRows => mem[s] = HydratedStatus(s)
StatusInv == OpenHasFailed /\ \A s \in Sessions : ShowsDelivery(s)
=============================================================================
