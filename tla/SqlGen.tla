-------------------------------- MODULE SqlGen --------------------------------
(***************************************************************************)
(* The SQL of a chart and of a source dataset (agent/sqlgen.py), as a      *)
(* record of its clauses, and the guard's static rule (agent/sql_guard.py).*)
(*                                                                         *)
(* A statement reads one table or one subquery, plus LEFT JOINs and a      *)
(* one-row subquery it is crossed with.  An expression is [f, refs, k]: a  *)
(* function word, the references it reads and its literal part (a lag, a   *)
(* value).  A reference into a subquery is qualified by the subquery's     *)
(* alias.  limit 0 is no LIMIT.  Rendering, quoting and casts are left out.*)
(***************************************************************************)
EXTENDS DatasetPlan

Expr(f, refs, k) == [f |-> f, refs |-> refs, k |-> k]
ColumnExpr(r) == Expr("column", <<r>>, <<>>)
Item(alias, expr) == [alias |-> alias, expr |-> expr]
From(t) == [table |-> t, sub |-> <<>>, joins |-> <<>>, items |-> <<>>, where |-> <<>>,
            group |-> <<>>, order |-> <<>>, limit |-> 0, raw |-> FALSE]

resolve(q, r) == IF q.joins # <<>> THEN Qualify(r, q.table) ELSE r

----------------------------------------------------------------------------
(* Filters.                                                                *)

\* _filter_expr refuses a list with a scalar operator and an empty IN.
FilterRaises(f) == IF f.op = "in" THEN f.value = "empty" ELSE f.value \in {"list", "empty"}

FilterExpr(q, f) == Expr(f.op, <<resolve(q, f.column)>>, <<f.value>>)
Filters(q) == Map(LAMBDA f : FilterExpr(q, f), q.filters)

----------------------------------------------------------------------------
(* ORDER BY and LIMIT.                                                     *)

Grained(q) == q.time_grain \notin {"none", "day"} /\ q.dimensions # <<>>
GrainExpr(q) == Expr(q.time_grain, <<Qualify(q.dimensions[1], q.table)>>, <<>>)

\* _order_targets: the alias a reference sorts on; a later entry replaces an
\* earlier one of the same name.
OrderTarget(q, by) ==
    LET ofMeasures == FlattenSeq(Map(LAMBDA m : << <<Bare(m.column), measure_alias(m)>>,
                                                  <<Bare(measure_alias(m)), measure_alias(m)>> >>,
                                     q.measures))
        ofJoined == Map(LAMBDA r : <<r, column_alias(r)>>,
                        Only(group_columns(q), LAMBDA r : Qualified(r)))
        targets == ofMeasures \o ofJoined
        last == SelectLastInSeq(targets, LAMBDA p : p[1] = by)
    IN  IF last = 0 THEN by.col ELSE targets[last][2]

\* _apply_order_and_limit.  On the flat path a truncated time column sorts by
\* its expression: the alias would bind to the physical column.
OrderAndLimit(s, q, flat, apply_limit) ==
    LET sort(by) == IF flat /\ Grained(q) /\ OrderTarget(q, by) = column_alias(q.dimensions[1])
                    THEN GrainExpr(q)
                    ELSE Expr("alias", <<Bare(OrderTarget(q, by))>>, <<>>)
    IN  [s EXCEPT !.order = Map(LAMBDA o : [on |-> sort(o.by), desc |-> o.desc], q.order_by),
                  !.limit = IF apply_limit THEN q.limit ELSE 0]

----------------------------------------------------------------------------
(* The grouped SELECT, flat or as the inner query of derived measures.     *)

\* Slip: the grain truncates the select list but not the grouping.
GroupedSelect_RawGroup(q, measures) ==
    LET dim(r) == IF Grained(q) /\ r = q.dimensions[1] THEN GrainExpr(q) ELSE ColumnExpr(resolve(q, r))
    IN  [From(q.table) EXCEPT
            !.joins = q.joins,
            !.items = Map(LAMBDA r : Item(column_alias(r), dim(r)), group_columns(q)) \o measures,
            !.where = Filters(q),
            !.group = Map(LAMBDA r : ColumnExpr(resolve(q, r)), group_columns(q))]

GroupedSelect(q, measures) ==
    LET dim(r) == IF Grained(q) /\ r = q.dimensions[1] THEN GrainExpr(q) ELSE ColumnExpr(resolve(q, r))
    IN  [From(q.table) EXCEPT
            !.joins = q.joins,
            !.items = Map(LAMBDA r : Item(column_alias(r), dim(r)), group_columns(q)) \o measures,
            !.where = Filters(q),
            !.group = Map(dim, group_columns(q))]

MeasureExpr(q, m) == Expr(m.agg, <<resolve(q, Bare(m.column))>>, <<>>)

FlatSql(q, apply_limit) ==
    OrderAndLimit(GroupedSelect(q, Map(LAMBDA m : Item(measure_alias(m), MeasureExpr(q, m)), q.measures)),
                  q, TRUE, apply_limit)

----------------------------------------------------------------------------
(* Derived measures: aggregates inside, windows and divisions outside.     *)

Src(i) == <<"__src", i>>
Den(i) == <<"__den", i>>

is_derived(m) == m.transform # "none" \/ m.denominator # <<>>
Ordered(transform) == transform \notin {"none", "share_of_total", "running_share"}

WindowRaises(q) ==
    q.dimensions = <<>> /\ \E m \in Range(q.measures) : m.denominator = <<>> /\ Ordered(m.transform)

\* _window_expr: shares read the aggregate alone, the ordered windows read
\* the first dimension too; a year is a number of periods of the grain.
WindowExpr(q, m, i) ==
    LET lag == IF m.transform = "yoy_pct" THEN <<"year of", q.time_grain>> ELSE m.lag
    IN  IF Ordered(m.transform)
        THEN Expr(m.transform, <<Bare(Src(i)), Bare(column_alias(q.dimensions[1]))>>, lag)
        ELSE Expr(m.transform, <<Bare(Src(i))>>, <<>>)

OuterMeasure(q, i) ==
    LET m == q.measures[i]
    IN  Item(measure_alias(m),
             CASE m.denominator # <<>>  -> Expr("div", <<Bare(Src(i)), Bare(Den(i))>>, <<>>)
               [] m.transform # "none"  -> WindowExpr(q, m, i)
               [] OTHER                 -> ColumnExpr(Bare(Src(i))))

WindowedSelect(q) ==
    LET inner(i) == <<Item(Src(i), MeasureExpr(q, q.measures[i]))>>
                        \o Map(LAMBDA d : Item(Den(i), MeasureExpr(q, d)), q.measures[i].denominator)
        measures == FlattenSeq([i \in DOMAIN q.measures |-> inner(i)])
        dims == Map(LAMBDA r : Item(column_alias(r), ColumnExpr(Bare(column_alias(r)))), group_columns(q))
    IN  [From(NoTable) EXCEPT
            !.sub = <<[as |-> <<"t">>, stmt |-> GroupedSelect(q, measures)]>>,
            !.items = dims \o [i \in DOMAIN q.measures |-> OuterMeasure(q, i)]]

WindowedSql(q, apply_limit) == OrderAndLimit(WindowedSelect(q), q, FALSE, apply_limit)

----------------------------------------------------------------------------
(* The scalar comparison: two buckets, one row, no join.                   *)

CompareSql(q) ==
    LET m == q.measures[1]
        c == m.compare[1]
        bucket == Qualify(c.column, q.table)
        latest == Expr("max", <<bucket>>, <<c.grain>>)
        b == [From(q.table) EXCEPT
                 !.items = <<Item(<<"p_cur">>, latest),
                             Item(<<"p_prev">>, [latest EXCEPT !.k = <<c.grain, c.kind>>])>>,
                 !.where = Filters(q)]
        widens(f) == f.op = ">=" /\ f.value \in {"token", "scalar"}
                        /\ column_alias(f.column) = column_alias(c.column)
        outer(f) == IF widens(f) THEN [FilterExpr(q, f) EXCEPT !.k = <<f.value, "less one period">>]
                                 ELSE FilterExpr(q, f)
    IN  [From(q.table) EXCEPT
            !.sub = <<[as |-> <<"b">>, stmt |-> b]>>,
            !.items = <<Item(measure_alias(m),
                             Expr(c.output, <<resolve(q, Bare(m.column)), bucket,
                                              Ref(<<"b">>, <<"p_cur">>), Ref(<<"b">>, <<"p_prev">>)>>, <<m.agg>>))>>,
            !.where = Map(outer, q.filters)]

----------------------------------------------------------------------------
(* The histogram: the first dimension becomes its bucket.                  *)

HistogramSql(q, apply_limit) ==
    LET dim == q.dimensions[1]
        col == Qualify(dim, q.table)
        bare == Bare(column_alias(dim))
        present(r) == Expr("is not null", <<r>>, <<>>)
        b == [From(q.table) EXCEPT
                 !.items = <<Item(<<"mn">>, Expr("min", <<bare>>, <<>>)),
                             Item(<<"w">>, Expr("max", <<bare>>, <<"width">>))>>,
                 !.where = Append(Filters(q), present(bare))]
        bucket == Expr("bucket", <<col, Ref(<<"b">>, <<"mn">>), Ref(<<"b">>, <<"w">>)>>, <<>>)
    IN  [From(q.table) EXCEPT
            !.sub = <<[as |-> <<"b">>, stmt |-> b]>>,
            !.items = <<Item(column_alias(dim), bucket),
                        Item(measure_alias(q.measures[1]),
                             Expr(q.measures[1].agg, <<Bare(q.measures[1].column)>>, <<>>))>>,
            !.where = Append(Filters(q), present(col)),
            !.group = <<bucket>>,
            !.order = <<[on |-> bucket, desc |-> FALSE]>>,
            !.limit = IF apply_limit THEN q.limit ELSE 0]

----------------------------------------------------------------------------
(* generate_chart_sql and generate_source_sql.                             *)

ChartSqlRaises(q) == ~IsRaw(q) /\ ((\E f \in Range(q.filters) : FilterRaises(f)) \/ WindowRaises(q))

\* Raw SQL goes as it is; it is taken to return the columns it declares.
RawSql(q) ==
    [From(q.table) EXCEPT !.raw = TRUE, !.items = Map(LAMBDA r : Item(column_alias(r), ColumnExpr(r)), q.dimensions)]

ChartSql(q, apply_limit) ==
    IF IsRaw(q) THEN RawSql(q)
    ELSE IF q.bins THEN HistogramSql(q, apply_limit)
    ELSE IF \E m \in Range(q.measures) : m.compare # <<>> THEN CompareSql(q)
    ELSE IF \E m \in Range(q.measures) : is_derived(m) THEN WindowedSql(q, apply_limit)
    ELSE FlatSql(q, apply_limit)

SourceSql(inputs) ==
    LET mart(c) == ColumnExpr(IF inputs.joins # <<>> THEN Ref(inputs.table, c) ELSE Bare(c))
    IN  [From(inputs.table) EXCEPT
            !.joins = inputs.joins,
            !.items = Map(LAMBDA c : Item(c, mart(c)), inputs.columns)
                        \o Map(LAMBDA r : Item(source_column_alias(r, inputs.table), ColumnExpr(r)),
                               inputs.joined_refs)]

Outputs(s) == Map(LAMBDA i : i.alias, s.items)

----------------------------------------------------------------------------
(* What the warehouse demands of a statement when it plans it: every name  *)
(* resolves in exactly one place, what is not grouped is aggregated, no    *)
(* two outputs share a name, an order names an output or a group.          *)

Sources(s) == (IF s.table = NoTable THEN <<>> ELSE <<s.table>>) \o Map(LAMBDA j : j.table, s.joins)

Resolves(s, r) ==
    LET inTables == {t \in Range(Sources(s)) : HasColumn(t, r.col)}
        inSubs == {x \in Range(s.sub) : Contains(Outputs(x.stmt), r.col)}
    IN  IF Qualified(r)
        THEN r.table \in inTables \/ \E x \in inSubs : x.as = r.table
        ELSE Cardinality(inTables) + Cardinality(inSubs) = 1

\* A bare name that is also the alias of something computed binds to the
\* alias: what groups and sorts must not depend on it.
Shadowed(s, r) ==
    /\ ~Qualified(r) /\ s.table # NoTable
    /\ \E i \in Range(s.items) : i.alias = r.col /\ i.expr # ColumnExpr(r)

ResolvesIn(s) ==
    /\ IsInjective(Sources(s)) /\ IsInjective(Outputs(s))
    /\ \A j \in Range(s.joins) : Resolves(s, j.on_left) /\ Resolves(s, j.on_right)
    /\ \A e \in {i.expr : i \in Range(s.items)} \cup Range(s.where) \cup Range(s.group) :
          \A r \in Range(e.refs) : Resolves(s, r)
    /\ \A e \in Range(s.group) : \A r \in Range(e.refs) : ~Shadowed(s, r)
    /\ s.group # <<>> => \A i \in Range(s.items) : i.expr.f \in Aggregates \/ Contains(s.group, i.expr)
    /\ \A o \in Range(s.order) :
          IF o.on.f = "alias" THEN Contains(Outputs(s), o.on.refs[1].col)
                              ELSE Contains(s.group, o.on)

Plannable(s) == s.raw \/ (ResolvesIn(s) /\ \A x \in Range(s.sub) : ResolvesIn(x.stmt))

=============================================================================
