--------------------------- MODULE PlanInvariants ---------------------------
(***************************************************************************)
(* What the planning of a dashboard promises, from the accepted            *)
(* specification to the dashboard that was built.                          *)
(***************************************************************************)
EXTENDS Planning

IsBuilt == phase = "built"
OnSuperset == spec.target_bi = "superset"
TheBuild == built[1]
Ids == {c.id : c \in Range(spec.charts)}
Dataset(id) == TheBuild.datasets[id]
Unlimited(stmt) == [stmt EXCEPT !.limit = 0]

----------------------------------------------------------------------------
(* Where the code is known to accept what it cannot build.                 *)

\* A scalar comparison reads its table alone, whatever its references name.
LeavesTable(q) ==
    /\ \E m \in Range(q.measures) : m.compare # <<>>
    /\ \/ \E m \in Range(q.measures) : m.compare # <<>> /\ Qualified(m.compare[1].column)
       \/ \E f \in Range(q.filters) : Qualified(f.column)

\* Two keys to one dimension table become two joins of that table.
JoinsTwice(q) == ~IsInjective(Map(LAMBDA j : j.table, q.joins))

\* A list for a scalar operator validates and has no SQL.
ListForScalar(q) == \E f \in Range(q.filters) : FilterRaises(f)

\* A column may bear a name the generator gives to what it adds: the bounds of
\* a histogram, the periods of a comparison, an aggregate a window reads.
TakesGivenName(q) ==
    LET reads == {m.column : m \in Range(q.measures)} \cup {f.column.col : f \in Range(q.filters)}
    IN  \/ q.bins /\ reads \cap {<<"mn">>, <<"w">>} # {}
        \/ (\E m \in Range(q.measures) : m.compare # <<>>) /\ reads \cap {<<"p_cur">>, <<"p_prev">>} # {}
        \/ /\ \E m \in Range(q.measures) : is_derived(m)
          /\ \E i \in DOMAIN q.measures : Range(GroupAliases(q)) \cap {Src(i), Den(i)} # {}

\* A later measure may read a column of the name the first one is given.
SharesName(q) ==
    \E m \in Range(q.measures) :
        m.column = measure_alias(q.measures[1]) /\ measure_alias(m) # measure_alias(q.measures[1])

Excused(step) ==
    IF step[1] = "source"
    THEN \/ Collides(SourceInputs(spec, step[2]))
         \/ ~IsInjective(Map(LAMBDA j : j.table, SourceInputs(spec, step[2]).joins))
    ELSE LET q == ChartOf(spec, step[2]).query
         IN  LeavesTable(q) \/ JoinsTwice(q) \/ ListForScalar(q) \/ TakesGivenName(q)

----------------------------------------------------------------------------
(* Properties.                                                             *)

\* Whatever validates has SQL the warehouse can plan: each name a statement
\* reads resolves once, what is selected is grouped or aggregated, an order
\* names an output (sqlgen.py, dataset_plan.py); so does every dataset that
\* is built without the LIMIT it was gated with, or scaled.
EveryStatementPlans ==
    /\ phase = "gating" /\ gated = {} => \A step \in Range(todo) :
          Excused(step) \/ (~StatementRaises(step, spec) /\ Plannable(StatementOf(step, spec)))
    /\ IsBuilt => \A id \in Ids : Plannable(Dataset(id))

\* No statement reaches the BI system that this build did not pass through
\* the gate (pipeline.py, "invariant 3"): a dataset is a gated statement but
\* for the LIMIT a control's scope drops or the scaling around it.
BuiltWasGated ==
    IsBuilt => \A id \in Ids :
        \E sql \in gated : \/ Unlimited(sql) = Unlimited(Dataset(id))
                           \/ Dataset(id).sub # <<>> /\ Unlimited(sql) = Unlimited(Dataset(id).sub[1].stmt)

\* A categorical chart nobody ordered is cut to its largest by the first
\* measure it draws (normalize.py, _normalize_chart): the order binds to that
\* measure's output even when two measures read one column.  It does not when
\* a later measure reads a column named like that output: an order looks for
\* the column of a measure from the last one on (sqlgen.py, _order_targets).
RanksFirst(q) ==
    /\ Len(q.order_by) = 1
    /\ OrderTarget(q, q.order_by[1].by) = measure_alias(q.measures[1])
    /\ q.order_by[1].desc = (q.measures[1].transform # "running_share")

RankedByPrimary ==
    [][phase' = "gating" /\ phase # "gating" =>
          \A i \in DOMAIN spec.charts :
              NeedsTopN(spec.charts[i]) /\ ~SharesName(spec.charts[i].query)
                  => RanksFirst(spec'.charts[i].query)]_vars

\* Every dataset column the parameters of a chart name is one its dataset
\* has (form_data.py, chart_config.py); a sorted axis of Superset names a
\* metric of the chart, and a field of a DataLens dataset is an output of its
\* SQL (dataset.py).  The time column of a join is named without its table
\* on a source dataset of Superset.
FormHolds(c) ==
    LET form == TheBuild.charts[c.id]
        joinedTime == IsSource(c.query) /\ \E r \in Range(group_columns(c.query)) :
                         Qualified(r) /\ HasRole(r, c.query.table, "time")
    IN  form.raw \/ joinedTime
        \/ /\ FormColumns(form) \subseteq Range(Outputs(Dataset(c.id)))
           /\ Range(form.sort) \subseteq {m.label : m \in Range(form.metrics)}

ChartsBindDataset ==
    IsBuilt => \A c \in Range(spec.charts) :
        IF OnSuperset THEN FormHolds(c)
        ELSE /\ Bound(TheBuild.charts[c.id]) \subseteq Range(FieldAliases(c.query))
             /\ Range(FieldAliases(c.query)) \subseteq Range(Outputs(Dataset(c.id)))

\* A chart keeps its LIMIT exactly when no control moves it: a chart that is
\* filtered must rank after the filter, a chart that is not must stay cut
\* (adapter.py of both adapters).
LimitMatchesWiring ==
    IsBuilt => \A c \in Range(spec.charts) :
        LET moved == \E k \in Range(TheBuild.controls) : c.id \in k.scope
            limited == ChartSql(c.query, TRUE).limit # 0
            own == ~OnSuperset \/ ~IsSource(c.query)
            stmt == IF Dataset(c.id).items # <<>> /\ Dataset(c.id).sub # <<>>
                         /\ Dataset(c.id).sub[1].as = <<"auto_bi_scaled">>
                    THEN Dataset(c.id).sub[1].stmt ELSE Dataset(c.id)
        IN  own /\ limited => (stmt.limit = 0 <=> moved)

\* The statement that reads the tables: the inner one of derived measures.
\* The subquery "b" stands beside a table.
Grouped(stmt) == IF stmt.sub # <<>> /\ stmt.sub[1].as # <<"b">> THEN stmt.sub[1].stmt ELSE stmt

\* A select filter names, in each dataset of its scope, the very column it was
\* asked for (native_filters.py, dataset_plan.py), and the scope of a filter is
\* the one the preview showed (machine.py).  A time filter names none: a chart
\* of its scope that has a granularity (adapter.py, _temporal_alias) moves by
\* the column the filter was asked for when that is the only time column the
\* chart can reach, and one its mart has if it reads the mart itself.  On two
\* marts the one name a select filter has cannot be right for both; and the
\* build replaces columns by labels that the preview still names.
NamesColumn(name, id, column) ==
    /\ Contains(Outputs(Dataset(id)), name)
    /\ \E i \in Range(Grouped(Dataset(id)).items) :
          /\ i.alias = name
          /\ \E r \in Range(i.expr.refs) :
                Qualify(r, ChartOf(spec, id).query.table) = column

\* The time columns a chart can move by.
TimesOf(q) ==
    {Qualify(r, q.table) : r \in {x \in Range(group_columns(q)) : HasRole(x, q.table, "time")}}
        \cup (IF IsSource(q)
               THEN {Ref(q.table, n) : n \in {x \in Range(MartColumns(q.table)) : HasRole(Bare(x), q.table, "time")}}
               ELSE {})

OnlyTime(q, column) ==
    /\ TimesOf(q) \subseteq {column}
    /\ IsSource(q) => column.table = q.table

MovesColumn(k, id) ==
    IF k.kind = "select" THEN \A name \in Range(k.target) : NamesColumn(name, id, k.column)
    ELSE OnlyTime(ChartOf(spec, id).query, k.column) =>
            \A name \in Range(TheBuild.charts[id].granularity) : NamesColumn(name, id, k.column)

ShownScope(f) ==
    preview[1].scopes[f] = UNION {k.scope : k \in {x \in Range(TheBuild.controls) : x.column = f.column}}

ControlReaches ==
    IsBuilt /\ OnSuperset =>
        /\ Len(source_tables(spec)) <= 1 =>
              \A k \in Range(TheBuild.controls), id \in Ids : id \in k.scope => MovesColumn(k, id)
        /\ preview # <<>> /\ (\A c \in Range(spec.charts) : c.query.joins = <<>>) =>
              \A f \in Range(spec.filters) : ShownScope(f)

\* A number is divided by a magnitude only when everything on its axis adds
\* up and was measured: a ratio, a share or a second measure is never divided
\* by the magnitude of another (form_data.py, adapter.py).  And a magnitude
\* is read from a trial only when that trial saw every row of the chart's
\* statement (query_plan.py: the figure would be in the wrong unit).  A chart
\* asked for fewer rows than a trial shows, and moved by a control, is
\* measured on the rows of its LIMIT.
OneAdditiveNumber(c) ==
    IF OnSuperset
    THEN (\E m \in Range(TheBuild.charts[c.id].metrics) : m.scale = "magnitude")
            => Len(c.query.measures) = 1 /\ is_compact_number(c.query.measures[1])
    ELSE TheBuild.charts[c.id].axis = "unit"
            => Len(c.query.measures) = 1 /\ \E i \in Range(Dataset(c.id).items) : i.expr.f = "scaled"

MagnitudeIsMeasured ==
    IsBuilt =>
        /\ \A c \in Range(spec.charts) : OneAdditiveNumber(c)
        /\ \A id \in TheBuild.trusted :
              \E t \in trials : t.complete /\ t.sql = ChartSql(ChartOf(spec, id).query, TRUE)

\* Every chart is on the grid once and nothing overlaps: a row of Superset
\* holds at most twelve columns (_pack_rows), tiles of DataLens are disjoint
\* and inside their 24 columns (build_dashboard_data).
Overlap(a, b) == a.x < b.x + b.w /\ b.x < a.x + a.w /\ a.y < b.y + b.h /\ b.y < a.y + a.h

Widths(line) ==
    LET upto[n \in 0 .. Len(line)] == IF n = 0 THEN 0 ELSE upto[n - 1] + line[n].w IN upto

GridHolds ==
    IsBuilt => IF OnSuperset
        THEN /\ \A line \in Range(TheBuild.grid) : Widths(line)[Len(line)] <= GridWidth
             /\ Range(FlattenSeq(TheBuild.grid)) = Range(spec.charts)
             /\ Len(FlattenSeq(TheBuild.grid)) = Len(spec.charts)
        ELSE \A i, j \in DOMAIN TheBuild.grid :
                /\ TheBuild.grid[i].x + TheBuild.grid[i].w <= DashCols
                /\ i # j => ~Overlap(TheBuild.grid[i], TheBuild.grid[j])

\* An overview is a specification like any other although nobody validates it
\* before it is approved (autospec.py, "passes validate_spec and is idempotent
\* under the normalize pass"): the build takes it as it is.  What the semantic
\* model says of a mart may have it refused: without measures, a grain that
\* starts with time or with no column; a sum declared of what does not add up;
\* a key to its own table, or to a column that is not described; an axis named
\* like an aggregate.
Unbuildable(s) ==
    \E c \in Range(s.charts) :
        LET q == c.query
        IN  \/ \E m \in Range(q.measures) : \A k \in Columns(q.table, m.column) : k.role = "time"
            \/ \E m \in Range(q.measures) : m.agg = "sum" /\ \E k \in Columns(q.table, m.column) : ~k.additive
            \/ \E j \in Range(q.joins) : j.table = q.table \/ ~HasColumn(j.table, j.on_right.col)
            \/ Range(GroupAliases(q)) \cap Range(MeasureAliases(q)) # {}

\* The normalisation of the build changes nothing of it.
OverviewStays == phase = "approved" => apply_chart_defaults(apply_label_joins(spec)) = spec

\* Every chart of it shows the period: its data is limited to it, or the one
\* control of the board, which opens on it, moves the chart.  A chart Superset
\* draws names the column of the control then, or none (a table): Superset
\* takes the main time column of the dataset for those.
ShowsPeriod(c) ==
    LET limits(e) == e.f = ">=" /\ e.k[1] = "token"
        stmt == Grouped(Dataset(c.id))
    IN  \/ \E e \in Range(stmt.where) : limits(e)
        \/ \E k \in Range(TheBuild.controls) :
             /\ c.id \in k.scope
             /\ OnSuperset => Range(TheBuild.charts[c.id].granularity) \subseteq {column_alias(k.column)}

OverviewShows == IsBuilt /\ spec.filters # <<>> => \A c \in Range(spec.charts) : ShowsPeriod(c)

\* No tile is left alone and narrow in the last row of either grid.
LastRowFilled ==
    IF OnSuperset
    THEN LET row == Last(TheBuild.grid) IN Len(row) = 1 => row[1].w = GridWidth
    ELSE LET lowest == {i \in DOMAIN TheBuild.grid :
                           \A j \in DOMAIN TheBuild.grid : TheBuild.grid[j].y <= TheBuild.grid[i].y}
         IN  Cardinality(lowest) = 1 => \A i \in lowest : TheBuild.grid[i].w = DashCols

\* What an overview promises, which no validation has looked at.
OverviewHolds ==
    IsOverview(spec) =>
        /\ phase = "approved" => Unbuildable(spec) \/ Valid(spec, FALSE)
        /\ OverviewStays
        /\ IsBuilt => LastRowFilled
        /\ OverviewShows

----------------------------------------------------------------------------
(* Statements of the repository that what is built does not keep.          *)

\* adapters/superset/adapter.py, on a dashboard filter no chart takes: "the
\* baked query.filters still constrain the data".
Unwired(f) == \A k \in Range(TheBuild.controls) : k.column # f.column

BakedFiltersConstrain ==
    IsBuilt /\ OnSuperset /\ (\E f \in Range(spec.filters) : Unwired(f)) =>
        \A c \in Range(spec.charts) : \A f \in Range(c.query.filters) :
            \E e \in Range(Grouped(Dataset(c.id)).where) : column_alias(f.column) = e.refs[1].col

\* adapters/superset/native_filters.py: "a native filter (a WHERE by the
\* column's bound alias) scopes to" the charts whose dataset exposes the
\* column: what a period moves in a chart of its scope is the column it was
\* asked for, never another time column.
PeriodsReach ==
    IsBuilt /\ OnSuperset =>
        \A k \in Range(TheBuild.controls), id \in Ids :
            k.kind = "time" /\ id \in k.scope =>
                \A name \in Range(TheBuild.charts[id].granularity) : name = column_alias(k.column)

\* agent/machine.py, of the filters of a preview: "Say exactly which charts HERE
\* so the built dashboard never silently differs from the preview."
PreviewKept ==
    IsBuilt /\ OnSuperset /\ preview # <<>> => \A f \in Range(spec.filters) : ShownScope(f)

=============================================================================
