--------------------------- MODULE DataLensCharts ---------------------------
(***************************************************************************)
(* What the DataLens adapter makes of a specification: the fields of a     *)
(* chart's dataset (adapters/datalens/dataset.py), the wizard config       *)
(* (chart_config.py), the selectors and the dashboard's grid (adapter.py). *)
(* Guids, titles and number formats are left out; a placeholder item names *)
(* the dataset field it binds.  `large` is the answer of the magnitude     *)
(* probe.                                                                  *)
(***************************************************************************)
EXTENDS Normalize, SqlGen

DashCols == 24
CtrlW == 6
CtrlH == 2
CtrlsPerRow == 4
HintWScale == 2
HintHScale == 2
HintDefaultH == 4

----------------------------------------------------------------------------
(* The dataset of a chart: its SQL and the fields over it.                 *)

\* _user_type: what the native type stands for.
UserType(k) == IF k.role = "time" THEN "date" ELSE IF k.numeric THEN "number" ELSE "string"

\* _resolve_column_type
ColumnType(r, base) ==
    IF Resolved(r, base) = {} THEN "string" ELSE UserType(CHOOSE k \in Resolved(r, base) : TRUE)

\* _measure_user_type
MeasureType(m, t) ==
    IF is_percent_measure(m) \/ is_ratio_measure(m) \/ m.agg = "avg" THEN "number"
    ELSE IF m.agg \in {"count", "count_distinct"} THEN "number"
    ELSE ColumnType(Bare(m.column), t)

Fields(q) ==
    Map(LAMBDA r : [alias |-> column_alias(r), kind |-> "DIMENSION", type |-> ColumnType(r, q.table)],
        group_columns(q))
    \o Map(LAMBDA m : [alias |-> measure_alias(m), kind |-> "MEASURE", type |-> MeasureType(m, q.table)],
           q.measures)

FieldOf(q, alias) == CHOOSE f \in Range(Fields(q)) : f.alias = alias
FieldAliases(q) == Map(LAMBDA f : f.alias, Fields(q))

\* _kpi_ru_scale, _axis_ru_scale: whether the dataset divides its measure.
Scaled(c, large) ==
    /\ \/ c.viz = "big_number"
       \/ c.viz \in {"line", "bar", "stacked_bar", "area"} /\ Len(c.query.measures) = 1
    /\ is_compact_number(c.query.measures[1])
    /\ large

\* _magnitude_from_trial: a complete trial of the gated SQL answers.
TrialPeak(c, trials) ==
    /\ is_compact_number(c.query.measures[1]) /\ ~ChartSqlRaises(c.query)
    /\ [sql |-> ChartSql(c.query, TRUE), complete |-> TRUE] \in trials

\* _scale_measure_sql: the wrapper divides the compact measures, by name.
ScaleMeasures(stmt, q) ==
    LET targets == {measure_alias(m) : m \in {x \in Range(q.measures) : is_compact_number(x)}}
        out(a) == Item(a, IF a \in targets THEN Expr("scaled", <<Bare(a)>>, <<>>) ELSE ColumnExpr(Bare(a)))
    IN  [From(NoTable) EXCEPT
            !.sub = <<[as |-> <<"auto_bi_scaled">>, stmt |-> stmt]>>,
            !.items = Map(out, GroupAliases(q) \o MeasureAliases(q))]

----------------------------------------------------------------------------
(* The wizard config of a chart (build_chart_shared).                      *)

VizId(c) ==
    CASE c.viz = "big_number"                 -> "metric"
      [] c.viz \in {"line", "area", "pie"}    -> c.viz
      [] c.viz = "table"                      -> "flatTable"
      [] c.viz \in {"pivot", "heatmap"}       -> "pivotTable"
      [] c.viz = "histogram"                  -> "column"
      [] c.viz \in {"bar", "stacked_bar"}     -> IF is_horizontal_bar(c) THEN "bar" ELSE "column"

Placeholder(id, items) == [id |-> id, items |-> items]
Fielded(alias) == [field |-> alias, as_string |-> FALSE]
DimItems(refs) == Map(LAMBDA r : Fielded(column_alias(r)), refs)
MeasureItems(q) == Map(LAMBDA m : Fielded(measure_alias(m)), q.measures)

\* A numeric dimension on a category axis is cast to a string.
Discretised(q, refs) ==
    Map(LAMBDA r : [field     |-> column_alias(r),
                    as_string |-> FieldOf(q, column_alias(r)).type = "number"], refs)

Config(c, placeholders) ==
    [viz |-> VizId(c), placeholders |-> placeholders, colors |-> <<>>, sort |-> <<>>,
     labels |-> <<>>, axis |-> "default"]

\* The value axis is the placeholder "y", and "x" for horizontal bars.
CartesianConfig(c, large) ==
    LET q == c.query
        discrete == c.viz \in {"bar", "stacked_bar", "histogram"}
        dims(refs) == IF discrete THEN Discretised(q, refs) ELSE DimItems(refs)
        ids == IF VizId(c) = "bar" THEN <<"y", "x">> ELSE <<"x", "y">>
    IN  [Config(c, <<Placeholder(ids[1], dims(SubSeq(q.dimensions, 1, 1))),
                     Placeholder(ids[2], MeasureItems(q))>>)
            EXCEPT !.colors = dims(Distinct(q.series \o Tail(q.dimensions))),
                   !.sort = IF is_horizontal_bar(c) THEN SubSeq(MeasureItems(q), 1, 1) ELSE <<>>,
                   !.axis = IF is_percent_measure(q.measures[1]) THEN "by-field"
                            ELSE IF Scaled(c, large) THEN "unit" ELSE "default"]

PieConfig(c) ==
    LET q == c.query
        slice == SubSeq(MeasureItems(q), 1, 1)
    IN  [Config(c, <<Placeholder("dimensions", DimItems(SubSeq(q.dimensions, 1, 1))),
                     Placeholder("measures", slice)>>)
            EXCEPT !.sort = slice, !.labels = slice]

\* A heatmap degrades to a pivot of its two dimensions.
PivotConfig(c) ==
    LET q == c.query
        rows == IF c.viz = "heatmap" THEN SubSeq(q.dimensions, 1, 1) ELSE q.rows
        columns == IF c.viz = "heatmap" THEN SubSeq(q.dimensions, 2, 2) ELSE q.columns
    IN  Config(c, <<Placeholder("rows", DimItems(rows)),
                    Placeholder("pivot-table-columns", DimItems(columns)),
                    Placeholder("measures", MeasureItems(q))>>)

build_chart_shared(c, large) ==
    CASE c.viz = "big_number" -> Config(c, <<Placeholder("measures", SubSeq(MeasureItems(c.query), 1, 1))>>)
      [] c.viz = "pie"        -> PieConfig(c)
      [] c.viz = "table"      -> Config(c, <<Placeholder("flat-table-columns",
                                                DimItems(group_columns(c.query)) \o MeasureItems(c.query))>>)
      [] c.viz \in {"pivot", "heatmap"} -> PivotConfig(c)
      [] OTHER                -> CartesianConfig(c, large)

\* The fields a config binds; a config that binds an unknown one fails.
Bound(config) ==
    LET items == FlattenSeq(Map(LAMBDA p : p.items, config.placeholders))
                    \o config.colors \o config.sort \o config.labels
    IN  {i.field : i \in Range(items)}

----------------------------------------------------------------------------
(* Selectors.                                                              *)

\* Slip: the scope is Superset's, by table and column.
selector_scope_chart_ids_Grain(spec) == participating_chart_ids(spec)

selector_scope_chart_ids(spec) ==
    {c.id : c \in {x \in Range(spec.charts) :
        \E f \in Range(spec.filters) : Contains(GroupAliases(x.query), column_alias(f.column))}}

\* build_selectors: one control per filter that some chart's fields carry,
\* bound to the first such dataset and tied to the others.
Reached(spec, f) ==
    Only(spec.charts, LAMBDA c : /\ Contains(GroupAliases(c.query), column_alias(f.column))
                                      /\ Contains(FieldAliases(c.query), column_alias(f.column)))

Selector(spec, f) ==
    LET time == HasRole(f.column, NoTable, "time")
    IN  [column |-> f.column, name |-> column_alias(f.column),
         kind   |-> IF time THEN "date" ELSE "select",
         bound  |-> Reached(spec, f)[1].id,
         scope  |-> {c.id : c \in Range(Reached(spec, f))},
         preset |-> IF time THEN f.default = "token" ELSE f.default # "none"]

build_selectors(spec) ==
    Map(LAMBDA f : Selector(spec, f), Only(spec.filters, LAMBDA f : Reached(spec, f) # <<>>))

----------------------------------------------------------------------------
(* The dashboard's grid (build_dashboard_data): controls in rows of four,  *)
(* charts on shelves as tall as their tallest tile.                        *)

Tile(i, x, y, w, h) == [i |-> i, x |-> x, y |-> y, w |-> w, h |-> h]
Larger(a, b) == IF a >= b THEN a ELSE b

ControlTiles(n) ==
    LET per_row == IF n = 0 THEN 1 ELSE Smaller(n, CtrlsPerRow)
        w == Larger(CtrlW, DashCols \div per_row)
    IN  [j \in 1 .. n |-> Tile(<<"control", ToString(j)>>, ((j - 1) % CtrlsPerRow) * w,
                               ((j - 1) \div CtrlsPerRow) * CtrlH, w, CtrlH)]

MinHeight(viz) ==
    CASE viz = "big_number" -> 6
      [] viz \in {"table", "pivot"} -> 12
      [] viz = "heatmap"    -> 10
      [] OTHER              -> 9

\* Slip: a shelf is as tall as its last tile.
Shelf_LastTile(acc, c, wraps, h) == h

Shelf(acc, c, wraps, h) == IF wraps THEN h ELSE Larger(acc.shelf, h)

PlaceTile(acc, c) ==
    LET w == Smaller(c.w * HintWScale, DashCols)
        h == MinHeight(c.viz) + (IF c.h > HintDefaultH THEN (c.h - HintDefaultH) * HintHScale ELSE 0)
        wraps == acc.x > 0 /\ ((acc.row # <<>> /\ acc.row # <<c.row>>) \/ acc.x + w > DashCols)
        x == IF wraps THEN 0 ELSE acc.x
        y == IF wraps THEN acc.y + acc.shelf ELSE acc.y
    IN  [tiles |-> Append(acc.tiles, Tile(<<"chart", c.id>>, x, y, w, h)),
         x |-> x + w, y |-> y, shelf |-> Shelf(acc, c, wraps, h), row |-> <<c.row>>]

\* The loop's state after each chart, below the controls.
Placing(charts, y0) ==
    LET after[n \in 0 .. Len(charts)] ==
            IF n = 0 THEN [tiles |-> <<>>, x |-> 0, y |-> y0, shelf |-> 0, row |-> <<>>]
            ELSE PlaceTile(after[n - 1], charts[n])
    IN  after

DashLayout(spec) ==
    LET n == Len(build_selectors(spec))
        y0 == ((n + CtrlsPerRow - 1) \div CtrlsPerRow) * CtrlH
    IN  ControlTiles(n) \o Placing(spec.charts, y0)[Len(spec.charts)].tiles

=============================================================================
