---------------------------- MODULE DataLensBuild ----------------------------
(***************************************************************************)
(* The DataLens adapter on one build namespace of the workbook             *)
(* (adapters/datalens/adapter.py).  The workbook holds one entry per       *)
(* scope and name and refuses a second.  A build creates everything under  *)
(* temporary names, then promotes entry by entry: delete what holds the    *)
(* canonical name, rename.  A call may be refused, performed with its      *)
(* answer lost, or, for a create, performed after the client gave up.      *)
(***************************************************************************)
EXTENDS Naturals, FiniteSets

CONSTANTS
    NCharts,    \* charts of the spec
    Title,      \* entry name of each chart: charts may share one
    NoId,
    MaxBuilds   \* bound on the builds of the namespace

ASSUME ChartAssumption == NCharts \in Nat \ {0} /\ DOMAIN Title = 1 .. NCharts
ASSUME BoundAssumption == MaxBuilds \in Nat

\* What a build makes, in order: dataset and widget of each chart, dashboard.
Last == 2 * NCharts + 1
Ops  == 1 .. Last
Scope(i) == IF i = Last THEN "dash" ELSE IF i % 2 = 1 THEN "dataset" ELSE "widget"
Chart(i) == (i + 1) \div 2
Name(i)  == CASE Scope(i) = "dataset" -> <<"chart", Chart(i)>>
              [] Scope(i) = "widget"  -> <<"title", Title[Chart(i)]>>
              [] Scope(i) = "dash"    -> <<"title", NoId>>

Wip(i)       == <<Scope(i), Name(i), "wip">>
Canonical(i) == <<Scope(i), Name(i), "canonical">>
Slots        == {Wip(i) : i \in Ops} \cup {Canonical(i) : i \in Ops}

VARIABLES
    entry,    \* workbook: the entry under each scope and name
    conn,     \* workbook: the connection exists
    late,     \* creates the client gave up on, not performed yet
    landed,   \* entries such creates have made
    pc, op,   \* the adapter, and the op it is at
    n,        \* builds begun
    scaled,   \* the dataset at hand was rebuilt in scaled units
    made,     \* what this build knows it made
    upto,     \* ops recorded in wip_created
    faulted,  \* a call of this build failed, or a late create came in
    unswept,  \* so did a delete of its cleanup
    found,    \* reconcile: entries to delete
    good      \* what the last build delivered, until it is replaced
workbook == <<entry, conn, late, landed>>
builder  == <<pc, op, n, scaled, made, upto, faulted, unswept, found, good>>
vars == <<workbook, builder>>

Init ==
    /\ entry = [s \in Slots |-> NoId] /\ conn = FALSE
    /\ late = {} /\ landed = {}
    /\ pc = "idle" /\ op = 1 /\ n = 0 /\ scaled = FALSE
    /\ made = [i \in Ops |-> NoId] /\ upto = 0
    /\ faulted = FALSE /\ unswept = FALSE
    /\ found = {} /\ good = {}

Resting == pc \in {"idle", "raised", "returned", "cleaned", "uncleaned"}

Begin ==
    /\ Resting /\ n < MaxBuilds
    /\ pc' = "connect" /\ n' = n + 1 /\ op' = 1
    /\ scaled' = FALSE /\ made' = [i \in Ops |-> NoId] /\ upto' = 0
    /\ faulted' = FALSE /\ unswept' = FALSE
    /\ UNCHANGED <<workbook, found, good>>

\* Found by name or created; a failure here is outside build's try.
ensure_database ==
    /\ pc = "connect"
    /\ \/ /\ conn' = TRUE /\ pc' = "clear" /\ upto' = 1 /\ UNCHANGED faulted
       \/ /\ conn' \in {conn, TRUE} /\ pc' = "raised" /\ faulted' = TRUE /\ UNCHANGED upto
    /\ UNCHANGED <<entry, late, landed, op, n, scaled, made, unswept, found, good>>

\* An exception inside the try.
Fails == pc' = "sweep" /\ op' = 1 /\ UNCHANGED scaled

\* An op is recorded in wip_created, cleared, created.
Advance ==
    IF op = Last
    THEN pc' = "drop" /\ op' = 1 /\ scaled' = FALSE /\ UNCHANGED upto
    ELSE pc' = "clear" /\ op' = op + 1 /\ scaled' = FALSE /\ upto' = op + 1

\* _delete_if_exists of a temporary name.
Clear_Scaled ==  \* Slip: only the rebuilt dataset is deleted first
    /\ pc = "clear"
    /\ entry' = IF scaled THEN [entry EXCEPT ![Wip(op)] = NoId] ELSE entry
    /\ pc' = "create"
    /\ UNCHANGED <<conn, late, landed, op, n, scaled, made, upto, faulted, unswept, found, good>>
Clear_Canonical ==  \* Slip: the entry to be replaced goes before the new one exists
    /\ pc = "clear"
    /\ entry' = [entry EXCEPT ![Wip(op)] = NoId, ![Canonical(op)] = NoId]
    /\ pc' = "create"
    /\ UNCHANGED <<conn, late, landed, op, n, scaled, made, upto, faulted, unswept, found, good>>
Clear ==
    /\ pc = "clear"
    /\ \/ /\ entry' = [entry EXCEPT ![Wip(op)] = NoId]
          /\ pc' = "create" /\ UNCHANGED <<op, scaled, faulted>>
       \/ /\ entry' \in {entry, [entry EXCEPT ![Wip(op)] = NoId]}
          /\ Fails /\ faulted' = TRUE
    /\ UNCHANGED <<conn, late, landed, n, made, upto, unswept, found, good>>

\* A widget is bound to its dataset, the dashboard to its widgets.
New == [build |-> n, op |-> op, scaled |-> scaled,
        uses |-> CASE Scope(op) = "dataset" -> {}
                   [] Scope(op) = "widget"  -> {made[op - 1]}
                   [] Scope(op) = "dash"    -> {made[2 * c] : c \in 1 .. NCharts}]

Create ==
    /\ pc = "create" /\ entry[Wip(op)] = NoId
    /\ entry' = [entry EXCEPT ![Wip(op)] = New]
    /\ made' = [made EXCEPT ![op] = New]
    /\ IF Scope(op) = "dataset" /\ ~scaled
       THEN pc' = "measure" /\ UNCHANGED <<op, scaled, upto>>
       ELSE Advance
    /\ UNCHANGED <<conn, late, landed, n, faulted, unswept, found, good>>
ensure_dataset     == Scope(op) = "dataset" /\ Create
create_chart       == Scope(op) = "widget" /\ Create
assemble_dashboard == Scope(op) = "dash" /\ Create

CreateFails ==
    /\ pc = "create"
    /\ \/ /\ UNCHANGED <<entry, late>>  \* a taken name is refused, and no fault
          /\ faulted' = (faulted \/ entry[Wip(op)] = NoId)
       \/ /\ entry[Wip(op)] = NoId /\ entry' = [entry EXCEPT ![Wip(op)] = New]
          /\ faulted' = TRUE /\ UNCHANGED late
       \/ /\ late' = late \cup {[slot |-> Wip(op), id |-> New]}
          /\ faulted' = TRUE /\ UNCHANGED entry
    /\ Fails
    /\ UNCHANGED <<conn, landed, n, made, upto, unswept, found, good>>

\* A large magnitude: the dataset is built again in scaled units.  A probe
\* that fails keeps the first one.
Measure ==
    /\ pc = "measure"
    /\ \/ Advance
       \/ pc' = "clear" /\ scaled' = TRUE /\ UNCHANGED <<op, upto>>
    /\ UNCHANGED <<workbook, n, made, faulted, unswept, found, good>>

-----------------------------------------------------------------------------
(* _promote_to_canonical. *)

Drop ==
    /\ pc = "drop"
    /\ good' = {}
    /\ \/ /\ entry' = [entry EXCEPT ![Canonical(op)] = NoId]
          /\ pc' = "rename" /\ UNCHANGED <<op, scaled, faulted>>
       \/ /\ entry' \in {entry, [entry EXCEPT ![Canonical(op)] = NoId]}
          /\ Fails /\ faulted' = TRUE
    /\ UNCHANGED <<conn, late, landed, n, made, upto, unswept, found>>

\* By id: an entry that is gone answers 404, a name that is taken 400.
CanRename == entry[Wip(op)] = made[op] /\ entry[Canonical(op)] = NoId
Renamed   == [entry EXCEPT ![Canonical(op)] = made[op], ![Wip(op)] = NoId]

Rename ==
    /\ pc = "rename" /\ CanRename
    /\ entry' = Renamed
    /\ IF op = Last
       THEN pc' = "returned" /\ good' = {made[i] : i \in Ops} /\ UNCHANGED op
       ELSE pc' = "drop" /\ op' = op + 1 /\ UNCHANGED good
    /\ UNCHANGED <<conn, late, landed, n, scaled, made, upto, faulted, unswept, found>>

RenameFails ==
    /\ pc = "rename"
    /\ \/ ~CanRename /\ UNCHANGED <<entry, faulted>>
       \/ faulted' = TRUE /\ entry' \in {entry} \cup (IF CanRename THEN {Renamed} ELSE {})
    /\ Fails
    /\ UNCHANGED <<conn, late, landed, n, made, upto, unswept, found, good>>

\* _cleanup_wip: every recorded temporary name, errors swallowed.
Sweep_Stops ==  \* Slip: the first name that fails ends the cleanup
    /\ pc = "sweep"
    /\ entry' \in {entry, [entry EXCEPT ![Wip(op)] = NoId]}
    /\ IF op = upto \/ entry' = entry THEN pc' = "raised" /\ UNCHANGED op
       ELSE op' = op + 1 /\ UNCHANGED pc
    /\ UNCHANGED <<conn, late, landed, n, scaled, made, upto, faulted, unswept, found, good>>
Sweep ==
    /\ pc = "sweep"
    /\ \/ entry' = [entry EXCEPT ![Wip(op)] = NoId] /\ unswept' \in {unswept, TRUE}
       \/ UNCHANGED entry /\ unswept' = TRUE
    /\ IF op = upto THEN pc' = "raised" /\ UNCHANGED op ELSE op' = op + 1 /\ UNCHANGED pc
    /\ UNCHANGED <<conn, late, landed, n, scaled, made, upto, faulted, found, good>>

-----------------------------------------------------------------------------
Crash ==
    /\ ~Resting
    /\ pc' = "idle" /\ op' = 1 /\ scaled' = FALSE
    /\ made' = [i \in Ops |-> NoId] /\ upto' = 0 /\ found' = {}
    /\ UNCHANGED <<workbook, n, faulted, unswept, good>>

\* reconcile_build_attempt: all its canonical and temporary names are looked
\* up, then the entries found are deleted by id.
Expected == {Canonical(i) : i \in Ops} \cup {Wip(i) : i \in Ops}

_find_entry_id(s) == entry[s]

Reconcile ==
    /\ Resting
    /\ \/ /\ found' = {_find_entry_id(s) : s \in Expected} \ {NoId}
          /\ pc' = IF found' = {} THEN "cleaned" ELSE "cleaning"
       \/ found' = {} /\ pc' = "uncleaned"
    /\ good' = {}
    /\ UNCHANGED <<workbook, op, n, scaled, made, upto, faulted, unswept>>

Rank(id) == CASE Scope(id.op) = "widget" -> 0 [] Scope(id.op) = "dash" -> 1
              [] Scope(id.op) = "dataset" -> 2

\* An entry that is gone (404) counts as deleted.
delete_artifact(id) == [s \in Slots |-> IF entry[s] = id THEN NoId ELSE entry[s]]
DeleteFound ==
    /\ pc = "cleaning"
    /\ \E id \in found :
        /\ \A other \in found : Rank(id) <= Rank(other)
        /\ \/ /\ entry' = delete_artifact(id)
              /\ found' = found \ {id}
              /\ pc' = IF found' = {} THEN "cleaned" ELSE "cleaning"
           \/ /\ entry' \in {entry, delete_artifact(id)}
              /\ found' = {} /\ pc' = "uncleaned"
    /\ UNCHANGED <<conn, late, landed, op, n, scaled, made, upto, faulted, unswept, good>>

\* A create reaches the workbook after the client gave up on it; a taken name
\* is refused.
Land(l) ==
    /\ late' = late \ {l}
    /\ IF entry[l.slot] = NoId
       THEN entry' = [entry EXCEPT ![l.slot] = l.id] /\ landed' = landed \cup {l.id}
       ELSE UNCHANGED <<entry, landed>>
    /\ faulted' = TRUE /\ unswept' = TRUE
    /\ UNCHANGED <<conn, pc, op, n, scaled, made, upto, found, good>>

Next ==
    \/ Begin \/ ensure_database \/ Clear \/ ensure_dataset \/ create_chart
    \/ assemble_dashboard \/ CreateFails \/ Measure
    \/ Drop \/ Rename \/ RenameFails \/ Sweep
    \/ Crash \/ Reconcile \/ DeleteFound
    \/ \E l \in late : Land(l)
Spec == Init /\ [][Next]_vars

-----------------------------------------------------------------------------
\* adapter.py build: what a build has delivered stays reachable under its
\* canonical names, dashboard, widgets and datasets, whatever later builds of
\* the same names go through, until one of them starts promoting.
DeliveredWhole ==
    good # {} =>
        \A i \in Ops :
            LET e == entry[Canonical(i)] IN e \in good /\ e.uses \subseteq good /\ e.op = i

\* Neither a build nor a reconcile leaves anything temporary behind.  A build
\* clears the names it recorded, unless one of its cleanup calls failed or a
\* create came in late; a reconcile leaves only what came in late, and that
\* under a temporary name, where the next build sweeps it.
NoWipLeft ==
    /\ pc \in {"raised", "returned"} /\ ~unswept =>
          \A i \in 1 .. upto : entry[Wip(i)] = NoId
    /\ pc = "cleaned" =>
          \A s \in Slots : entry[s] # NoId => s[3] = "wip" /\ entry[s] \in landed

\* adapter.py:751-756: whatever state an earlier build or crash has left, the
\* next build succeeds unless one of its own calls fails.
SelfHeals == pc = "raised" => faulted
=============================================================================
