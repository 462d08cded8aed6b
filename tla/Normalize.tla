------------------------------ MODULE Normalize ------------------------------
(***************************************************************************)
(* The two deterministic passes a build runs over a specification          *)
(* (agent/normalize.py): label joins replace a raw foreign key by the name *)
(* it stands for, and categorical charts get a top-N order and limit.      *)
(***************************************************************************)
EXTENDS SpecIR

----------------------------------------------------------------------------
(* B3: label joins.                                                        *)

\* _label_column: a name-like dimension of the target, about as distinct as
\* the id (0 stands for no recorded cardinality); an exact "name" comes first.
FirstNamed(columns, candidates) ==
    LET named == {i \in candidates : columns[i].name = <<"name">>}
    IN  IF candidates = {} THEN <<>>
        ELSE <<columns[Min(IF named # {} THEN named ELSE candidates)].name>>

LabelColumn(t, id) ==
    LET columns == TheTable(t).columns
        card(c) == CHOOSE n \in {k.card : k \in Columns(t, c)} : TRUE
        id_card == IF HasColumn(t, id) /\ card(id) > 0 THEN card(id) ELSE TheTable(t).rows
        unique(k) == k.card > 0 /\ id_card > 0 /\ 100 * k.card >= 99 * id_card
    IN  FirstNamed(columns, {i \in DOMAIN columns :
            LET k == columns[i] IN k.name # id /\ k.role = "dimension" /\ k.labels /\ unique(k)})

\* _label_join_for: the label and the join of a bare foreign key, or nothing.
LabelJoinFor(r, base) ==
    LET keys == {k \in Columns(base, r.col) : k.role = "dimension" /\ k.fk # <<>>}
    IN  IF Qualified(r) \/ keys = {} THEN <<>>
        ELSE LET fk    == (CHOOSE k \in keys : TRUE).fk[1]
                 label == IF Known(fk.table) THEN LabelColumn(fk.table, fk.col) ELSE <<>>
                 left  == Ref(base, r.col)
             IN  IF label = <<>> \/ {left, fk} \notin SemanticModel.joins THEN <<>>
                 ELSE <<[label |-> Ref(fk.table, label[1]),
                         join  |-> [table |-> fk.table, on_left |-> left, on_right |-> fk]]>>

\* _label_joins_chart.  A chart keeps its ids when two of the rewritten
\* columns would share a bare name; equal references count once.
Relabelled(c, found) ==
    LET q == c.query
        swap(r) == IF r \in DOMAIN found /\ found[r] # <<>> THEN found[r][1].label ELSE r
        roles == [n \in {"dimensions", "series", "rows", "columns"} |-> Map(swap, q[n])]
        grouped == Distinct(roles.dimensions \o roles.series \o roles.rows \o roles.columns)
        swapped == Only(group_columns(q), LAMBDA r : found[r] # <<>>)
        edge(j) == {j.on_left, j.on_right}
        added == Only(Map(LAMBDA r : found[r][1].join, swapped),
                           LAMBDA j : \A x \in Range(q.joins) : edge(x) # edge(j))
    IN  IF IsRaw(q) \/ swapped = <<>> \/ ~IsInjective(Map(column_alias, grouped)) THEN c
        ELSE [c EXCEPT !.query =
                [q EXCEPT !.dimensions = roles.dimensions, !.series = roles.series,
                          !.rows = roles.rows, !.columns = roles.columns,
                          !.joins = Distinct(q.joins) \o added,
                          !.order_by = Map(LAMBDA o : [o EXCEPT !.by = swap(o.by)], q.order_by)]]

LabelJoins(c) ==
    Relabelled(c, [r \in Range(Roles(c.query)) |-> LabelJoinFor(r, c.query.table)])

apply_label_joins(spec) == [spec EXCEPT !.charts = Map(LabelJoins, @)]

----------------------------------------------------------------------------
(* B1: the top-N of a categorical chart.  DefaultTopN and PieTopN are the  *)
(* caps of the code, in proportion to the limits of the instance.          *)

CONSTANTS DefaultTopN, PieTopN
ASSUME TopNAssumption == DefaultTopN \in Nat \ {0} /\ PieTopN \in Nat \ {0}

is_time_dimension(r, base) == HasRole(r, base, "time")

orders_by_measure(q) ==
    \E o \in Range(q.order_by), m \in Range(q.measures) :
        o.by \in {Bare(m.column), Bare(measure_alias(m))}

NeedsTopN(c) ==
    /\ ~IsRaw(c.query)
    /\ c.viz \in {"bar", "stacked_bar", "pie"}
    /\ c.query.dimensions # <<>>
    /\ ~is_time_dimension(c.query.dimensions[1], c.query.table)
    /\ ~orders_by_measure(c.query)

Smaller(a, b) == IF a <= b THEN a ELSE b

\* Slip: the order names the raw column of the measure, which two measures
\* of a chart may share.
TopN_ByColumn(c) ==
    LET q == c.query
        primary == q.measures[1]
        cap == IF c.viz = "pie" THEN PieTopN ELSE DefaultTopN
    IN  IF ~NeedsTopN(c) THEN c
        ELSE [c EXCEPT !.query =
                [q EXCEPT !.order_by = <<[by   |-> Bare(primary.column),
                                          desc |-> primary.transform # "running_share"]>>,
                          !.limit = Smaller(q.limit, cap)]]

\* _normalize_chart: a cumulative share ranks its head by the smallest value.
TopN(c) ==
    LET q == c.query
        primary == q.measures[1]
        cap == IF c.viz = "pie" THEN PieTopN ELSE DefaultTopN
    IN  IF ~NeedsTopN(c) THEN c
        ELSE [c EXCEPT !.query =
                [q EXCEPT !.order_by = <<[by   |-> Bare(measure_alias(primary)),
                                          desc |-> primary.transform # "running_share"]>>,
                          !.limit = Smaller(q.limit, cap)]]

apply_chart_defaults(spec) == [spec EXCEPT !.charts = Map(TopN, @)]

\* A categorical ranking is drawn with horizontal bars.
is_horizontal_bar(c) ==
    /\ c.viz \in {"bar", "stacked_bar"}
    /\ c.query.dimensions # <<>>
    /\ ~is_time_dimension(c.query.dimensions[1], c.query.table)

=============================================================================
