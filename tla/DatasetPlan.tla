----------------------------- MODULE DatasetPlan -----------------------------
(***************************************************************************)
(* Which charts share the source dataset of their mart, what that dataset  *)
(* carries, and which charts a dashboard filter reaches                    *)
(* (agent/dataset_plan.py); the filters the advisor judges a chart by      *)
(* (advisor/effective.py).                                                 *)
(***************************************************************************)
EXTENDS SpecIR

\* inexpressible_reason is None: every measure is an aggregate or a ratio.
IsSource(q) ==
    /\ ~IsRaw(q) /\ ~q.bins
    /\ \A m \in Range(q.measures) : m.transform = "none" /\ m.compare = <<>>

SourceCharts(spec, t) == Only(spec.charts, LAMBDA c : IsSource(c.query) /\ c.query.table = t)
source_tables(spec) ==
    Distinct(Map(LAMBDA c : c.query.table, Only(spec.charts, LAMBDA c : IsSource(c.query))))

----------------------------------------------------------------------------
(* The source dataset.                                                     *)

\* dm.stores.name is stores_name beside the columns of another mart.
source_column_alias(r, mart) ==
    IF ~Qualified(r) \/ r.table = mart THEN r.col ELSE <<r.table[2]>> \o r.col

MartColumns(t) == IF Known(t) THEN Map(LAMBDA k : k.name, TheTable(t).columns) ELSE <<>>

\* source_dataset_inputs: all columns of the mart, and the label joins and
\* the joined references of its SOURCE charts.
SourceInputs(spec, t) ==
    LET charts == SourceCharts(spec, t)
        grouped == FlattenSeq(Map(LAMBDA c : group_columns(c.query), charts))
    IN  [table       |-> t,
         columns     |-> MartColumns(t),
         joins       |-> Distinct(FlattenSeq(Map(LAMBDA c : c.query.joins, charts))),
         joined_refs |-> Distinct(Only(grouped, LAMBDA r : Qualified(r) /\ r.table # t))]

SourceAliases(inputs) ==
    inputs.columns \o Map(LAMBDA r : source_column_alias(r, inputs.table), inputs.joined_refs)

\* collect_source_aliases raises SourceAliasCollisionError.
Collides(inputs) == ~IsInjective(SourceAliases(inputs))

\* The first mart whose dataset cannot be planned makes every caller raise.
PlanRaises(spec) == \E t \in Range(source_tables(spec)) : Collides(SourceInputs(spec, t))

----------------------------------------------------------------------------
(* Filter scope.                                                           *)

grain_exposes_column(c, col) ==
    \E r \in Range(group_columns(c.query)) : Qualify(r, c.query.table) = Qualify(col, c.query.table)

source_exposes_column(spec, t, col) ==
    LET inputs == SourceInputs(spec, t)
    IN  \/ col.table = t /\ Contains(inputs.columns, col.col)
        \/ Contains(inputs.joined_refs, col)
        \/ ~Qualified(col) /\ Contains(inputs.columns, col.col)

\* The one dataset column a control binds, chosen for the whole dashboard.
filter_binding_alias(spec, f) ==
    LET takers == Only(spec.charts, LAMBDA c :
                     IsSource(c.query) /\ source_exposes_column(spec, c.query.table, f.column))
    IN  IF takers = <<>> THEN column_alias(f.column)
        ELSE source_column_alias(f.column, takers[1].query.table)

\* Slip: an OWN chart takes part whatever its dataset calls the column.
chart_accepts_filter_AnyName(c, f, spec) ==
    IF IsSource(c.query) THEN source_exposes_column(spec, c.query.table, f.column)
    ELSE grain_exposes_column(c, f.column)

chart_accepts_filter(c, f, spec) ==
    IF IsSource(c.query) THEN source_exposes_column(spec, c.query.table, f.column)
    ELSE /\ grain_exposes_column(c, f.column)
         /\ column_alias(f.column) = filter_binding_alias(spec, f)

own_filter_alias_mismatch(c, f, spec) ==
    /\ ~IsSource(c.query)
    /\ grain_exposes_column(c, f.column)
    /\ column_alias(f.column) # filter_binding_alias(spec, f)

ScopeOf(f, spec) == {c.id : c \in {x \in Range(spec.charts) : chart_accepts_filter(x, f, spec)}}

\* participating_chart_ids (native_filters.py): in the scope of some filter.
participating_chart_ids(spec) == UNION {ScopeOf(f, spec) : f \in Range(spec.filters)}

\* filter_preview_notes: the charts the preview says a filter cannot move.
Unmoved(spec) ==
    IF spec.filters = <<>> THEN {}
    ELSE {c.id : c \in {x \in Range(spec.charts) :
                           ~IsSource(x.query) /\ x.id \notin participating_chart_ids(spec)}}

\* spec_summary (machine.py): what the preview says of each filter.
Preview(spec) ==
    [scopes   |-> [f \in Range(spec.filters) |-> ScopeOf(f, spec)],
     unmoved  |-> Unmoved(spec),
     mismatch |-> {<<x[1].id, x[2]>> : x \in {y \in Range(spec.charts) \X Range(spec.filters) :
                                       own_filter_alias_mismatch(y[1], y[2], spec)}}]

----------------------------------------------------------------------------
(* advisor/effective.py: the charts' filters and the controls' defaults    *)
(* that narrow them, matched on the bare alias.                            *)

ChartColumnRef(f, c) ==
    Only(group_columns(c.query), LAMBDA r : column_alias(r) = column_alias(f.column))

AddControl(acc, f, c) ==
    LET own == ChartColumnRef(f, c)
        constrained == {column_alias(x.column) : x \in Range(acc)}
    IN  IF column_alias(f.column) \in constrained \/ f.default = "none" \/ own = <<>> THEN acc
        ELSE Append(acc, [column |-> own[1],
                          op     |-> IF HasRole(f.column, NoTable, "time") THEN ">=" ELSE "in",
                          value  |-> IF HasRole(f.column, NoTable, "time") THEN f.default ELSE "list"])

effective_filters(c, spec) ==
    FoldLeft(LAMBDA acc, f : AddControl(acc, f, c), c.query.filters, spec.filters)

=============================================================================
