---------------------------- MODULE SupersetCharts ----------------------------
(***************************************************************************)
(* What the Superset adapter makes of a specification: chart parameters    *)
(* (adapters/superset/form_data.py), native filters (native_filters.py),   *)
(* the grid, and the parts of adapter.py that decide on them.  form_data   *)
(* is a record of the controls that name dataset columns or change what a  *)
(* number means; formats, captions and ids are left out.  Magnitude probes *)
(* answer the same for all charts of a build: `large` says whether the     *)
(* numbers reach the thousands.                                            *)
(***************************************************************************)
EXTENDS Normalize, SqlGen

GridWidth == 12
PadMaxCard == 100

ChartOf(spec, id) == CHOOSE c \in Range(spec.charts) : c.id = id

\* _dim_dataset_alias
DimAlias(r, mart, from_source) ==
    IF from_source THEN source_column_alias(r, mart) ELSE column_alias(r)

----------------------------------------------------------------------------
(* Metrics and their labels.                                               *)

\* _human_label, then the alias: the label, or the column's description.
DisplayLabel(m, t) ==
    LET described == {k \in Columns(t, m.column) : k.title # <<>>}
    IN  CASE m.label # <<>>   -> m.label
          [] m.label = <<>> /\ described # {} -> (CHOOSE k \in described : TRUE).title
          [] OTHER            -> measure_alias(m)

\* Slip: a metric over the source rows sums the alias of the measure.
MetricSql_AlwaysAlias(m, own_agg, from_source) ==
    Expr(own_agg, <<Bare(measure_alias(m))>>, <<>>)

\* _adhoc_metric: over the source rows the aggregate itself, over an OWN
\* dataset an identity over the alias.
MetricSql(m, own_agg, from_source) ==
    IF ~from_source THEN Expr(own_agg, <<Bare(measure_alias(m))>>, <<>>)
    ELSE IF is_ratio_measure(m)
         THEN Expr("div", <<Bare(m.column), Bare(m.denominator[1].column)>>, <<m.agg, m.denominator[1].agg>>)
         ELSE Expr(m.agg, <<Bare(m.column)>>, <<>>)

Metric(m, t, own_agg, from_source) ==
    [sql |-> MetricSql(m, own_agg, from_source), label |-> DisplayLabel(m, t), scale |-> "one"]

Metrics(q, own_agg, from_source) == Map(LAMBDA m : Metric(m, q.table, own_agg, from_source), q.measures)

\* _ru_scale: only what adds up is divided by its magnitude.
RuScale(m, large) == is_compact_number(m) /\ large

\* Slip: the axis is scaled whenever its first measure is large.
AxisScale_FirstMeasure(c, large) ==
    c.viz \in {"line", "bar", "stacked_bar", "area"} /\ RuScale(c.query.measures[1], large)

\* _axis_scale: the divisor of one measure must not divide another.
AxisScale(c, large) ==
    /\ c.viz \in {"line", "bar", "stacked_bar", "area"}
    /\ Len(c.query.measures) = 1
    /\ RuScale(c.query.measures[1], large)

\* _magnitude_from_trial: a complete trial of the gated SQL of an OWN chart
\* answers in place of a probe.
MagnitudeFromTrial(c, trials) ==
    /\ ~IsSource(c.query) /\ ~ChartSqlRaises(c.query)
    /\ [sql |-> ChartSql(c.query, TRUE), complete |-> TRUE] \in trials

----------------------------------------------------------------------------
(* Controls shared by several visualisations.                              *)

EmptyForm ==
    [metrics |-> <<>>, groupby |-> <<>>, x_axis |-> <<>>, granularity |-> <<>>, grain |-> "none",
     sort |-> <<>>, sort_asc |-> TRUE, top_n |-> 0, row_limit |-> 0, horizontal |-> FALSE,
     categorical |-> FALSE, stack |-> FALSE, pad |-> FALSE, raw |-> FALSE]

\* _ordering_measure: the measure the first order entry names.
OrderingMeasure(q) ==
    LET hits == Only(q.measures, LAMBDA m :
                    q.order_by[1].by \in {Bare(m.column), Bare(measure_alias(m))})
    IN  IF q.order_by = <<>> THEN <<>> ELSE IF hits = <<>> THEN <<>> ELSE <<hits[1]>>

SeriesLimit(q, from_source) == IF from_source /\ OrderingMeasure(q) # <<>> THEN q.limit ELSE 0
TimeGrain(q, from_source) == IF from_source /\ q.time_grain # "day" THEN q.time_grain ELSE "none"

\* _temporal_alias: a TIME column of the grain, else of the mart.
TemporalAlias(q, from_source) ==
    LET inGrain == Only(group_columns(q), LAMBDA r : HasRole(r, q.table, "time"))
        ofMart == Only(MartColumns(q.table), LAMBDA n : HasRole(Bare(n), q.table, "time"))
    IN  CASE inGrain # <<>>                                   -> <<column_alias(inGrain[1])>>
          [] inGrain = <<>> /\ from_source /\ ofMart # <<>>   -> <<ofMart[1]>>
          [] OTHER                                            -> <<>>

\* _heatmap_y_pad: a numeric dimension of few values on the vertical axis.
HeatmapPad(c) ==
    /\ c.viz = "heatmap" /\ Len(c.query.dimensions) = 2
    /\ \E k \in Resolved(c.query.dimensions[2], c.query.table) :
          k.role = "dimension" /\ k.numeric /\ k.card \in 1 .. PadMaxCard

----------------------------------------------------------------------------
(* build_form_data, by visualisation.                                      *)

FormBigNumber(c, large, fs) ==
    LET m == c.query.measures[1]
        scale == IF RuScale(m, large) THEN "magnitude" ELSE IF is_percent_measure(m) THEN "percent" ELSE "one"
    IN  [EmptyForm EXCEPT
            !.metrics = <<[Metric(m, c.query.table, "max", fs) EXCEPT !.scale = scale]>>,
            !.granularity = TemporalAlias(c.query, fs)]

FormGrouped(c, fs) ==                            \* _fd_pie, _fd_table, _fd_pivot
    [EmptyForm EXCEPT
        !.metrics = Metrics(c.query, "sum", fs),
        !.groupby = Map(LAMBDA r : DimAlias(r, c.query.table, fs), group_columns(c.query)),
        !.top_n = IF c.viz = "pivot" THEN 0 ELSE SeriesLimit(c.query, fs)]

FormHeatmap(c, fs) ==
    [EmptyForm EXCEPT
        !.metrics = Metrics(c.query, "sum", fs),
        !.x_axis = <<DimAlias(c.query.dimensions[1], c.query.table, fs)>>,
        !.groupby = <<DimAlias(c.query.dimensions[2], c.query.table, fs)>>,
        !.pad = HeatmapPad(c)]

Breakdown(q) == Distinct(q.series \o Tail(q.dimensions))

FormTimeseries(c, large, fs) ==
    LET q == c.query
        x == DimAlias(q.dimensions[1], q.table, fs)
        time == TemporalAlias(q, fs)
        temporal == time = <<x>>
        horizontal == is_horizontal_bar(c)
        ordering == OrderingMeasure(q)
        sorted == /\ c.viz \in {"bar", "stacked_bar"}
                  /\ ordering # <<>> /\ Len(q.measures) = 1 /\ Breakdown(q) = <<>>
        ascending == IF sorted THEN ~q.order_by[1].desc ELSE TRUE
        scale == IF AxisScale(c, large) THEN "magnitude" ELSE "one"
    IN  [EmptyForm EXCEPT
            !.metrics = Map(LAMBDA m : [m EXCEPT !.scale = scale], Metrics(q, "sum", fs)),
            !.x_axis = <<x>>,
            !.groupby = Map(LAMBDA r : DimAlias(r, q.table, fs), Breakdown(q)),
            !.granularity = time,
            !.grain = TimeGrain(q, fs),
            !.sort = IF sorted THEN <<DisplayLabel(ordering[1], q.table)>> ELSE <<>>,
            !.sort_asc = IF sorted /\ horizontal THEN ~ascending ELSE ascending,
            !.top_n = SeriesLimit(q, fs),
            !.horizontal = horizontal,
            !.categorical = c.viz \in {"bar", "stacked_bar", "histogram"} /\ ~temporal,
            !.stack = c.viz = "stacked_bar" \/ (c.viz = "area" /\ q.series # <<>>)]

FormRaw(c) == [EmptyForm EXCEPT !.raw = TRUE, !.groupby = Map(column_alias, c.query.dimensions)]

build_form_data(c, large) ==
    LET fs == IsSource(c.query)
        form == IF IsRaw(c.query) THEN FormRaw(c)
                ELSE IF c.viz = "big_number" THEN FormBigNumber(c, large, fs)
                ELSE IF c.viz \in {"pie", "table", "pivot"} THEN FormGrouped(c, fs)
                ELSE IF c.viz = "heatmap" THEN FormHeatmap(c, fs)
                ELSE FormTimeseries(c, large, fs)
    IN  [form EXCEPT !.row_limit = c.query.limit]

\* The dataset columns a chart's parameters name.
FormColumns(form) ==
    Range(form.groupby) \cup Range(form.x_axis) \cup Range(form.granularity)
        \cup {r.col : r \in UNION {Range(m.sql.refs) : m \in Range(form.metrics)}}

----------------------------------------------------------------------------
(* Datasets, native filters and the grid (adapter.py, build).              *)

DatasetOf(spec, c) ==
    IF IsSource(c.query) THEN SourceSql(SourceInputs(spec, c.query.table))
    ELSE ChartSql(c.query, c.id \notin participating_chart_ids(spec))

\* A select filter targets a column of the datasets in its scope (_select_filter);
\* a time filter targets none (_time_filter): what it sends is a range, which
\* each chart of its scope applies to its own granularity.
NativeFilter(spec, f) ==
    LET time == HasRole(f.column, NoTable, "time")
    IN  [column |-> f.column, kind |-> IF time THEN "time" ELSE "select",
         target |-> IF time THEN <<>> ELSE <<filter_binding_alias(spec, f)>>,
         scope |-> ScopeOf(f, spec), preset |-> f.default # "none"]

native_filter_configuration(spec) ==
    Map(LAMBDA f : NativeFilter(spec, f), Only(spec.filters, LAMBDA f : ScopeOf(f, spec) # {}))

\* _pack_rows: by hint row, then by position, wrapping at twelve columns.
Place(charts, i) ==
    Cardinality({j \in DOMAIN charts : \/ charts[j].row < charts[i].row
                                       \/ charts[j].row = charts[i].row /\ j <= i})
ByHintRow(charts) ==
    [n \in DOMAIN charts |-> charts[CHOOSE i \in DOMAIN charts : Place(charts, i) = n]]

PackChart(acc, c) ==
    IF acc.current # <<>> /\ (Last(acc.current).row # c.row \/ acc.used + c.w > GridWidth)
    THEN [rows |-> Append(acc.rows, acc.current), current |-> <<c>>, used |-> c.w]
    ELSE [rows |-> acc.rows, current |-> Append(acc.current, c), used |-> acc.used + c.w]

\* The loop's state after each chart.
Packing(charts) ==
    LET after[n \in 0 .. Len(charts)] ==
            IF n = 0 THEN [rows |-> <<>>, current |-> <<>>, used |-> 0]
            ELSE PackChart(after[n - 1], charts[n])
    IN  after

PackRows(charts) ==
    LET done == Packing(ByHintRow(charts))[Len(charts)]
    IN  IF done.current = <<>> THEN done.rows ELSE Append(done.rows, done.current)

=============================================================================
