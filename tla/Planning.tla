------------------------------ MODULE Planning ------------------------------
(***************************************************************************)
(* A specification on its way from a proposal to the BI system: validated  *)
(* and previewed by the agent (agent/propose.py, agent/machine.py),        *)
(* planned by the advisor (advisor/core.py), normalised, validated again   *)
(* and gated statement by statement (agent/pipeline.py, agent/sql_guard.py *)
(* with the plan cache of agent/query_plan.py), and compiled by the        *)
(* adapter of its target.  A failed step ends the build.                   *)
(***************************************************************************)
EXTENDS SupersetCharts, DataLensCharts, AutoSpec

CONSTANTS
    Proposals,      \* the specifications that may be proposed
    TrialLimit      \* rows of a trial run: a result that fills it is cut

ASSUME ProposalsAssumption == \A s \in Proposals : IsSpec(s)

\* The ids auto1, auto2, ... mark among the proposals what build_auto_spec put
\* together from the semantic model, for any mart and any number of charts (it
\* makes at most ten); a proposal that comes from an edit of one has other ids.
ASSUME OverviewsAssumption ==
    \A s \in Proposals : IsOverview(s) =>
        \E t \in DOMAIN Tables, n \in 1 .. Len(AutoIds), target \in {"superset", "datalens"} :
            s = Overview(t, n, target)

VARIABLES
    spec,       \* the specification at hand
    phase,      \* where it stands
    preview,    \* what the user was shown of it, <<>> or one record
    plans,      \* PlanCache: [sql, ok], the first record of a statement wins
    trials,     \* PlanCache: [sql, complete]
    todo,       \* the gate's remaining statements
    gated,      \* the statements that passed the gate
    built       \* what the adapter made, <<>> or one record

vars == <<spec, phase, preview, plans, trials, todo, gated, built>>

Init ==
    /\ spec \in Proposals
    /\ phase = "proposed"
    /\ preview = <<>> /\ built = <<>> /\ todo = <<>>
    /\ plans = {} /\ trials = {} /\ gated = {}

Fail(p) ==
    /\ phase' = p
    /\ UNCHANGED <<spec, preview, plans, trials, todo, gated, built>>

----------------------------------------------------------------------------
(* The agent's side.                                                       *)

\* propose_spec and patch_spec accept what validates; a repair that fails
\* rejects the proposal.
Validate ==
    /\ phase = "proposed" /\ ~IsOverview(spec)
    /\ IF Valid(spec, FALSE)
       THEN phase' = "valid" /\ UNCHANGED <<spec, preview, plans, trials, todo, gated, built>>
       ELSE Fail("rejected")

\* auto_bi raw: the operator's specification goes straight to the build.
Operator ==
    /\ phase = "proposed" /\ \E c \in Range(spec.charts) : IsRaw(c.query)
    /\ phase' = "approved"
    /\ UNCHANGED <<spec, preview, plans, trials, todo, gated, built>>

\* What a session or a one-shot command goes on with: an overview is taken as
\* it was built (adopt_spec, auto_bi auto).
Accepted == phase = "valid" \/ (phase = "proposed" /\ IsOverview(spec))

\* spec_summary asks for the scope of every filter and plans the datasets.
ShowPreview ==
    /\ Accepted
    /\ IF spec.filters # <<>> /\ PlanRaises(spec) THEN Fail("failed")
       ELSE /\ phase' = "approved" /\ preview' = <<Preview(spec)>>
            /\ UNCHANGED <<spec, plans, trials, todo, gated, built>>

\* On the one-shot paths the advisor plans what a control narrows and the
\* build's cache remembers it; the warehouse may give no estimate for a
\* statement that resolves.
Narrowed(c) == [c.query EXCEPT !.filters = effective_filters(c, spec)]
Reviewed == {Narrowed(c) : c \in {x \in Range(spec.charts) : ~IsRaw(x.query)}}

OneShot ==
    /\ Accepted
    /\ IF \E q \in Reviewed : ChartSqlRaises(q) THEN Fail("failed")
       ELSE /\ phase' = "approved"
            /\ \E answers \in BOOLEAN :
                  plans' = {[sql |-> ChartSql(q, TRUE),
                             ok  |-> answers /\ Plannable(ChartSql(q, TRUE))] : q \in Reviewed}
            /\ UNCHANGED <<spec, preview, trials, todo, gated, built>>

----------------------------------------------------------------------------
(* The build: normalisation and the gate.                                  *)

\* Slip: the gate of Superset trusts the source datasets for every chart.
Statements_SourcesOnly(s) == Map(LAMBDA t : <<"source", t>>, source_tables(s))

\* On Superset one statement per mart and per OWN chart, on DataLens one per
\* chart.
Statements(s) ==
    IF s.target_bi = "superset"
    THEN Map(LAMBDA t : <<"source", t>>, source_tables(s))
           \o Map(LAMBDA c : <<"chart", c.id>>, Only(s.charts, LAMBDA c : ~IsSource(c.query)))
    ELSE Map(LAMBDA c : <<"chart", c.id>>, s.charts)

Normalise ==
    /\ phase = "approved"
    /\ LET normalized == apply_chart_defaults(apply_label_joins(spec))
       IN  IF Valid(normalized, TRUE)
           THEN /\ spec' = normalized /\ phase' = "gating" /\ todo' = Statements(normalized)
                /\ UNCHANGED <<preview, plans, trials, gated, built>>
           ELSE Fail("failed")

StatementRaises(step, s) ==
    IF step[1] = "source" THEN Collides(SourceInputs(s, step[2]))
    ELSE ChartSqlRaises(ChartOf(s, step[2]).query)

StatementOf(step, s) ==
    IF step[1] = "source" THEN SourceSql(SourceInputs(s, step[2]))
    ELSE ChartSql(ChartOf(s, step[2]).query, TRUE)

planned_ok(sql) == [sql |-> sql, ok |-> TRUE] \in plans

\* PlanCache.record_trial: the first trial of a statement is the one kept.
RecordTrial(sql, complete) ==
    IF \E t \in trials : t.sql = sql THEN trials
    ELSE trials \cup {[sql |-> sql, complete |-> complete]}

\* LiveSQLValidator.validate: EXPLAIN unless this very statement is known to
\* plan, and a trial run in any case.  A statement that does not plan, or a
\* run the warehouse refuses, fails the build.
Gate ==
    /\ phase = "gating" /\ todo # <<>>
    /\ LET step == Head(todo)
           sql == StatementOf(step, spec)
       IN  \/ Fail("failed")
           \/ /\ ~StatementRaises(step, spec)
              /\ planned_ok(sql) \/ Plannable(sql)
              /\ \E complete \in BOOLEAN :
                    /\ sql.limit \in 1 .. TrialLimit - 1 => complete
                    /\ trials' = RecordTrial(sql, complete)
              /\ gated' = gated \cup {sql}
              /\ todo' = Tail(todo)
              /\ UNCHANGED <<spec, phase, preview, plans, built>>

----------------------------------------------------------------------------
(* The adapters (build, once everything passed).                           *)

\* s is the specification, seen the trials; large: whether the magnitude
\* probe finds thousands or more.
SupersetBuild(s, seen, large) ==
    LET ids == {c.id : c \in Range(s.charts)}
    IN  [datasets |-> [id \in ids |-> DatasetOf(s, ChartOf(s, id))],
         charts   |-> [id \in ids |-> build_form_data(ChartOf(s, id), large)],
         controls |-> native_filter_configuration(s),
         trusted  |-> {c.id : c \in {x \in Range(s.charts) : MagnitudeFromTrial(x, seen)}},
         grid     |-> PackRows(s.charts)]

DataLensBuild(s, seen, large) ==
    LET ids == {c.id : c \in Range(s.charts)}
        sql(c) == ChartSql(c.query, c.id \notin selector_scope_chart_ids(s))
        dataset(c) == IF Scaled(c, large) THEN ScaleMeasures(sql(c), c.query) ELSE sql(c)
    IN  [datasets |-> [id \in ids |-> dataset(ChartOf(s, id))],
         charts   |-> [id \in ids |-> build_chart_shared(ChartOf(s, id), large)],
         controls |-> build_selectors(s),
         trusted  |-> {c.id : c \in {x \in Range(s.charts) : TrialPeak(x, seen)}},
         grid     |-> DashLayout(s)]

Compiled(s, seen, large) ==
    IF s.target_bi = "superset" THEN SupersetBuild(s, seen, large) ELSE DataLensBuild(s, seen, large)

Build ==
    /\ phase = "gating" /\ todo = <<>>
    /\ \E large \in BOOLEAN : built' = <<Compiled(spec, trials, large)>>
    /\ phase' = "built"
    /\ UNCHANGED <<spec, preview, plans, trials, todo, gated>>

Done == phase \in {"rejected", "failed", "built"} /\ UNCHANGED vars

Next ==
    \/ Validate \/ Operator \/ ShowPreview \/ OneShot
    \/ Normalise \/ Gate \/ Build \/ Done

Spec == Init /\ [][Next]_vars

=============================================================================
