------------------------------- MODULE SpecIR -------------------------------
(***************************************************************************)
(* The dashboard specification (ir/spec.py) and what validate_spec         *)
(* (ir/validate.py) demands of it against the semantic model.              *)
(*                                                                         *)
(* A name is a sequence of words, its words joined by "_" in the program:  *)
(* the default alias "sum_revenue" of a measure is <<"sum", "revenue">>, so *)
(* that an alias put together from parts can meet a name that was written. *)
(* A reference is [table, col]; a bare one has the table <<>>.  An absent  *)
(* option is <<>> (a sequence of at most one element) or "none".  Only     *)
(* whether the error list is empty matters to its callers, so each rule is *)
(* a predicate and a specification is valid when all of them hold.         *)
(***************************************************************************)
EXTENDS Naturals, Sequences, FiniteSets, SequencesExt

CONSTANTS
    Tables,     \* the semantic model: name -> [columns, rows, grain]
    Edges       \* its joins: a set of two-element sets of references

NoTable == <<>>
Bare(c) == [table |-> NoTable, col |-> c]
Ref(t, c) == [table |-> t, col |-> c]
Qualified(r) == r.table # NoTable
column_alias(r) == r.col
Qualify(r, base) == IF Qualified(r) THEN r ELSE Ref(base, r.col)

Map(Op(_), seq) == [i \in DOMAIN seq |-> Op(seq[i])]

\* SelectSeq by flattening what is kept of each element: the form the proofs
\* reason about.
Only(seq, Test(_)) == FlattenSeq([i \in DOMAIN seq |-> IF Test(seq[i]) THEN <<seq[i]>> ELSE <<>>])
Distinct(seq) ==
    FlattenSeq([i \in DOMAIN seq |-> IF \E j \in 1 .. i - 1 : seq[j] = seq[i] THEN <<>> ELSE <<seq[i]>>])

IsList(x) == x \in Seq(Range(x))

----------------------------------------------------------------------------
(* The semantic model's lookups; a lookup that fails is the empty set.     *)

\* A table is described as the warehouse has it: a column has its own name.
ASSUME TablesAssumption ==
    /\ NoTable \notin DOMAIN Tables
    /\ \A t \in DOMAIN Tables :
          /\ IsList(Tables[t].columns)
          /\ IsInjective(Map(LAMBDA k : k.name, Tables[t].columns))

SemanticModel == [tables |-> Tables, joins |-> Edges]

Known(t) == t \in DOMAIN SemanticModel.tables
TheTable(t) == SemanticModel.tables[t]
Columns(t, c) ==
    IF ~Known(t) THEN {}
    ELSE LET cols == TheTable(t).columns IN {cols[i] : i \in {j \in DOMAIN cols : cols[j].name = c}}
HasColumn(t, c) == Columns(t, c) # {}
Resolved(r, base) == Columns(Qualify(r, base).table, r.col)
HasRole(r, base, role) == \E k \in Resolved(r, base) : k.role = role

----------------------------------------------------------------------------
(* Measures and queries (ir/spec.py).                                      *)

base_alias(m) == <<m.agg>> \o m.column

measure_alias(m) ==
    CASE m.label # <<>>         -> m.label
      [] m.compare # <<>>       -> <<m.compare[1].kind>> \o base_alias(m)
      [] m.transform # "none"   -> <<m.transform>> \o base_alias(m) \o m.lag
      [] m.denominator # <<>>   -> base_alias(m) \o <<"per">> \o base_alias(m.denominator[1])
      [] OTHER                  -> base_alias(m)

is_percent_measure(m) ==
    IF m.compare # <<>> THEN m.compare[1].output = "pct"
    ELSE m.transform \in {"pop_pct", "yoy_pct", "share_of_total", "running_share"}

is_ratio_measure(m) == m.denominator # <<>>
is_additive_agg(agg) == agg \in {"sum", "count", "count_distinct"}
is_compact_number(m) == /\ ~is_percent_measure(m)
                        /\ ~is_ratio_measure(m)
                        /\ is_additive_agg(m.agg)

Roles(q) == q.dimensions \o q.series \o q.rows \o q.columns
group_columns(q) == Distinct(Roles(q))
GroupAliases(q) == Map(column_alias, group_columns(q))
MeasureAliases(q) == Map(measure_alias, q.measures)
IsRaw(q) == q.raw # "none"

\* ChartQuery._raw_sql_or_measure: what the IR accepts at all.
WellFormedQuery(q) == q.raw # "" /\ (IsRaw(q) \/ q.measures # <<>>)

\* The shape every Measure, ChartQuery and DashboardSpec has.
IsRef(r) == r = Ref(r.table, r.col)
Aggregates == {"sum", "avg", "min", "max", "count", "count_distinct"}
IsMeasure(m) ==
    /\ m.agg \in Aggregates
    /\ m.transform \in {"none", "pop_abs", "pop_pct", "yoy_pct", "share_of_total", "running_total", "running_share"}
    /\ IsList(m.denominator) /\ Len(m.denominator) <= 1
    /\ \A d \in Range(m.denominator) : d.agg \in Aggregates
QueryLists == {"dimensions", "series", "rows", "columns", "measures", "joins", "filters", "order_by"}
IsQuery(q) ==
    /\ QueryLists \cup {"table", "limit", "time_grain", "bins", "raw"} \subseteq DOMAIN q
    /\ WellFormedQuery(q) /\ q.limit \in Nat \ {0}
    /\ \A n \in QueryLists : IsList(q[n])
    /\ q.time_grain \in {"none", "day", "week", "month", "quarter", "year"}
    /\ \A m \in Range(q.measures) : IsMeasure(m)
    /\ \A o \in Range(q.order_by) : o = [by |-> o.by, desc |-> o.desc]
    /\ \A r \in Range(Roles(q)) \cup {f.column : f \in Range(q.filters)} : IsRef(r)
IsChart(c) ==
    /\ {"id", "viz", "query", "w", "h", "row"} \subseteq DOMAIN c /\ IsQuery(c.query)
    /\ c.w \in 1 .. 12 /\ c.h \in 1 .. 12 /\ c.row \in Nat
    /\ c.viz \in {"big_number", "line", "area", "bar", "stacked_bar", "pie", "histogram",
                  "table", "pivot", "heatmap"}
IsSpec(s) ==
    /\ {"charts", "filters", "target_bi"} \subseteq DOMAIN s
    /\ IsList(s.charts) /\ \A c \in Range(s.charts) : IsChart(c)
    /\ IsList(s.filters) /\ \A f \in Range(s.filters) : IsRef(f.column)

----------------------------------------------------------------------------
(* _validate_chart (ir/validate.py), rule by rule.                         *)

JoinOk(q, j) ==
    /\ Known(j.table)
    /\ j.on_left.table = q.table /\ HasColumn(q.table, j.on_left.col)
    /\ j.on_right.table = j.table /\ HasColumn(j.table, j.on_right.col)
    /\ {j.on_left, j.on_right} \in SemanticModel.joins

Joined(q) == {j.table : j \in {x \in Range(q.joins) : JoinOk(q, x)}}

RefOk(q, r) ==                                   \* _dim_ok
    IF Qualified(r)
    THEN r.table # q.table /\ r.table \in Joined(q) /\ HasColumn(r.table, r.col)
    ELSE HasColumn(q.table, r.col)

AliasesOk(q) ==
    /\ IsInjective(GroupAliases(q))
    /\ IsInjective(MeasureAliases(q))
    /\ Range(GroupAliases(q)) \cap Range(MeasureAliases(q)) = {}

UsedTables(q) ==
    {r.table : r \in {x \in Range(group_columns(q)) : Qualified(x)}}
        \cup {f.column.table : f \in {x \in Range(q.filters) : Qualified(x.column)}}

MeasureColOk(q, col, agg) ==                     \* _check_measure_col
    \E k \in Columns(q.table, col) :
        /\ k.role # "time"
        /\ agg \in {"sum", "avg", "min", "max"} => k.role = "measure"
        /\ agg = "sum" => k.additive

Orderable(q) ==
    Range(group_columns(q))
        \cup {Bare(a) : a \in Range(GroupAliases(q)) \cup Range(MeasureAliases(q))}
        \cup {Bare(m.column) : m \in Range(q.measures)}

FirstIsTime(q) == q.dimensions # <<>> /\ HasRole(q.dimensions[1], q.table, "time")

TransformsOk(c) ==                               \* _validate_transforms
    LET q == c.query
        transformed == {m \in Range(q.measures) : m.transform # "none"}
    IN  /\ \A m \in Range(q.measures) : m.lag # <<>> => m.transform \in {"pop_abs", "pop_pct"}
        /\ transformed # {} => c.viz \notin {"big_number", "pivot", "heatmap"}
        /\ \A m \in transformed :
              /\ m.transform \in {"pop_abs", "pop_pct", "yoy_pct", "running_total"} => FirstIsTime(q)
              /\ m.transform \in {"share_of_total", "running_share"} => q.dimensions # <<>>
              /\ m.transform = "yoy_pct" => q.time_grain \notin {"none", "day"}

RatiosOk(q) ==                                   \* _validate_ratios
    \A m \in Range(q.measures) : m.denominator # <<>> =>
        /\ m.transform = "none"
        /\ m.denominator[1].denominator = <<>>
        /\ m.denominator[1].transform = "none"

CompareOk(c) ==                                  \* _validate_compare
    \A m \in Range(c.query.measures) : m.compare # <<>> =>
        /\ c.viz = "big_number"
        /\ m.transform = "none" /\ m.denominator = <<>>
        /\ m.compare[1].grain # "day"
        /\ HasRole(m.compare[1].column, c.query.table, "time")

GrainOk(q) == q.time_grain # "none" => FirstIsTime(q)

HistogramOk(c) ==                                \* _validate_histogram
    LET q == c.query
    IN  /\ q.bins = (c.viz = "histogram")
        /\ c.viz = "histogram" =>
              /\ q.dimensions # <<>> =>
                    \A k \in Columns(q.table, q.dimensions[1].col) : k.role = "measure"
              /\ \A m \in Range(q.measures) :
                    m.agg = "count" /\ m.transform = "none" /\ m.denominator = <<>>
              /\ q.time_grain = "none"
              /\ q.joins = <<>>

ShapeOk(c) ==                                    \* _validate_viz_shape
    LET q == c.query
        Empty(names) == \A n \in names : q[n] = <<>>
    IN  CASE c.viz = "big_number" ->
                Empty({"dimensions", "series", "rows", "columns"}) /\ Len(q.measures) = 1
          [] c.viz \in {"line", "area", "bar", "stacked_bar"} ->
                q.dimensions # <<>> /\ Empty({"rows", "columns"})
          [] c.viz \in {"pie", "histogram"} ->
                Len(q.dimensions) = 1 /\ Len(q.measures) = 1 /\ Empty({"series", "rows", "columns"})
          [] c.viz = "table" ->
                (q.dimensions # <<>> \/ q.measures # <<>>) /\ Empty({"series", "rows", "columns"})
          [] c.viz = "pivot" ->
                q.rows # <<>> /\ Empty({"dimensions", "series"})
          [] c.viz = "heatmap" ->
                Len(q.dimensions) = 2 /\ Len(q.measures) = 1 /\ Empty({"series", "rows", "columns"})

RawChartOk(c, target) ==                         \* _validate_raw_chart
    /\ c.viz = "table"
    /\ target = "superset"
    /\ c.query.raw = "select"
    /\ \A n \in {"measures", "series", "rows", "columns", "joins", "filters", "order_by"} :
          c.query[n] = <<>>
    /\ c.query.time_grain = "none" /\ ~c.query.bins

ChartOk(c, target, allow_raw) ==
    LET q == c.query
    IN  IF IsRaw(q) THEN allow_raw /\ RawChartOk(c, target)
        ELSE /\ Known(q.table)
             /\ \A j \in Range(q.joins) : JoinOk(q, j) /\ j.table \in UsedTables(q)
             /\ \A r \in Range(Roles(q)) : RefOk(q, r)
             /\ AliasesOk(q)
             /\ \A m \in Range(q.measures) :
                   /\ MeasureColOk(q, m.column, m.agg)
                   /\ \A d \in Range(m.denominator) : MeasureColOk(q, d.column, d.agg)
             /\ \A f \in Range(q.filters) :
                   RefOk(q, f.column) /\ ~(f.op = "in" /\ f.value = "empty")
             /\ \A o \in Range(q.order_by) : o.by \in Orderable(q)
             /\ TransformsOk(c) /\ RatiosOk(q) /\ CompareOk(c)
             /\ GrainOk(q) /\ HistogramOk(c) /\ ShapeOk(c)

\* validate_spec: the error list is empty.
Valid(spec, allow_raw) ==
    /\ IsInjective(Map(LAMBDA c : c.id, spec.charts))
    /\ \A f \in Range(spec.filters) : Qualified(f.column) /\ HasColumn(f.column.table, f.column.col)
    /\ \A c \in Range(spec.charts) : ChartOk(c, spec.target_bi, allow_raw)

=============================================================================
