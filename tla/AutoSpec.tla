------------------------------- MODULE AutoSpec -------------------------------
(***************************************************************************)
(* The overview of one mart, put together from the semantic model without  *)
(* an LLM (agent/autospec.py): headline numbers, dynamics, breakdowns,     *)
(* structure and detail, all preset to one period.  Titles are left out.   *)
(* A cardinality of 0 is one that was not recorded; breakdowns of equal    *)
(* cardinality, which the code orders by name, keep their order here.      *)
(***************************************************************************)
EXTENDS SpecIR

CardMin == 2
CardMax == 50
StructureCardMax == 12
MaxKpis == 4
MaxBarBreakdowns == 3
GridCols == 12
AutoIds == <<"auto1", "auto2", "auto3", "auto4", "auto5", "auto6", "auto7", "auto8",
             "auto9", "auto10">>

WithRole(t, role) == Only(TheTable(t).columns, LAMBDA k : k.role = role)
Least(a, b) == IF a <= b THEN a ELSE b

----------------------------------------------------------------------------
(* Time: the grain of the dynamics and whether a year can be compared.     *)

auto_time_grain(card) == IF card <= 62 THEN "day" ELSE IF card <= 365 THEN "week" ELSE "month"
yoy_applicable(card) == auto_time_grain(card) = "month" /\ (card * 12) \div 365 >= 13

----------------------------------------------------------------------------
(* Measures.                                                               *)

Aggregated(column, agg) ==
    [column |-> column, agg |-> agg, label |-> <<>>, transform |-> "none", lag |-> <<>>,
     denominator |-> <<>>, compare |-> <<>>]

to_measure(k) ==
    Aggregated(k.name, IF k.agg # "none" THEN k.agg ELSE IF k.additive THEN "sum" ELSE "avg")

\* A table without measures counts its rows, over the first column of its
\* grain.
synthetic_count(t) ==
    LET anchor == IF TheTable(t).grain # <<>> THEN TheTable(t).grain[1] ELSE TheTable(t).columns[1].name
    IN  [Aggregated(anchor, "count") EXCEPT !.label = <<"cnt">>]

MeasuresOf(t) ==
    IF WithRole(t, "measure") = <<>> THEN <<synthetic_count(t)>>
    ELSE Map(to_measure, WithRole(t, "measure"))

share_of(m) == [m EXCEPT !.transform = "share_of_total", !.label = <<>>]
year_over_year(m, time) ==
    [m EXCEPT !.label = <<>>,
              !.compare = <<[column |-> Bare(time.name), grain |-> auto_time_grain(time.card),
                             kind |-> "yoy", output |-> "pct"]>>]

----------------------------------------------------------------------------
(* Breakdowns: categorical columns of the mart and of its dimension        *)
(* tables, the fewest categories first.                                    *)

Categorical(k) == k.role = "dimension" /\ CardMin <= k.card /\ k.card <= CardMax
Axis(ref, join, k) == [ref |-> ref, join |-> join, card |-> k.card]

OwnBreakdowns(t) ==
    Map(LAMBDA k : Axis(Bare(k.name), <<>>, k),
        Only(TheTable(t).columns, LAMBDA k : Categorical(k) /\ k.fk = <<>>))

\* The attributes reached over one foreign key, if the model has its edge;
\* the grain of the target is left out.
AttributesOver(t, key) ==
    LET fk == key.fk[1]
        left == Ref(t, key.name)
        join == [table |-> fk.table, on_left |-> left, on_right |-> fk]
    IN  IF {left, fk} \notin SemanticModel.joins \/ ~Known(fk.table) THEN <<>>
        ELSE Map(LAMBDA k : Axis(Ref(fk.table, k.name), <<join>>, k),
                 Only(TheTable(fk.table).columns,
                           LAMBDA k : Categorical(k) /\ ~Contains(TheTable(fk.table).grain, k.name)))

\* The fewest categories first, in their order among equals.
ByCard(axes) == FlattenSeq([n \in 1 .. CardMax |-> Only(axes, LAMBDA b : b.card = n)])

good_breakdowns(t) ==
    LET keys == Only(WithRole(t, "dimension"), LAMBDA k : k.fk # <<>>)
        all == OwnBreakdowns(t) \o FlattenSeq(Map(LAMBDA k : AttributesOver(t, k), keys))
    IN  ByCard(all)

----------------------------------------------------------------------------
(* The charts, in the order of their priority.                             *)

Reading(t, dims, m) ==
    [table |-> t, dimensions |-> dims, series |-> <<>>, rows |-> <<>>, columns |-> <<>>,
     measures |-> <<m>>, filters |-> <<>>, joins |-> <<>>, order_by |-> <<>>, limit |-> 5000,
     time_grain |-> "none", bins |-> FALSE, raw |-> "none"]

Cell(viz, q, w, h) == [id |-> "", viz |-> viz, query |-> q, w |-> w, h |-> h, row |-> 0]

\* _bar: the breakdown ranked by the measure.
Ranked(t, m, b, cap) ==
    [Reading(t, <<b.ref>>, m) EXCEPT
        !.joins = b.join,
        !.order_by = <<[by |-> Bare(measure_alias(m)), desc |-> TRUE]>>,
        !.limit = Least(b.card, cap)]

\* P1: one number per measure, the change over the year next to the first.
Kpis(t, measures, time, yoy) ==
    LET cells == IF yoy THEN <<measures[1], year_over_year(measures[1], time[1])>> \o Tail(measures)
                 ELSE measures
        kept == SubSeq(cells, 1, Least(MaxKpis, Len(cells)))
    IN  Map(LAMBDA m : Cell("big_number", Reading(t, <<>>, m), GridCols \div Len(kept), 4), kept)

\* P2: the first measure over time, in buckets when the series is long.
Dynamics(t, measure, time) ==
    Map(LAMBDA k :
            LET grain == auto_time_grain(k.card)
            IN  Cell("line", [Reading(t, <<Bare(k.name)>>, measure) EXCEPT
                                 !.order_by = <<[by |-> Bare(k.name), desc |-> FALSE]>>,
                                 !.time_grain = IF grain = "day" THEN "none" ELSE grain], GridCols, 6),
        time)

\* P3 and P4: the fewest categories as shares of the total, when they are
\* few enough and the measure adds up; the next ones as bars.
Structure(t, measure, breakdowns, yoy) ==
    LET share == breakdowns # <<>> /\ breakdowns[1].card <= StructureCardMax
        rest == IF share THEN Tail(breakdowns) ELSE breakdowns
        bars == SubSeq(rest, 1, Least(Len(rest), IF yoy THEN MaxBarBreakdowns - 1 ELSE MaxBarBreakdowns))
    IN  Map(LAMBDA b : Cell("bar", Ranked(t, measure, b, 25), 6, 6), bars)
          \o (IF share /\ is_additive_agg(measure.agg)
              THEN <<Cell("bar", Ranked(t, share_of(measure), breakdowns[1], StructureCardMax), 6, 6)>>
              ELSE <<>>)

\* P5: the most categories as a table.
Detail(t, measure, breakdowns) ==
    IF breakdowns = <<>> THEN <<>>
    ELSE <<Cell("table", Ranked(t, measure, Last(breakdowns), 25), GridCols, 8)>>

\* _fill_trailing_row: a tile left alone in the last row takes all of it.
\* What the open row holds, after one more chart and after each.
PackOne(row, w) ==
    IF row.used > 0 /\ row.used + w > GridCols THEN [used |-> w, n |-> 1]
    ELSE [used |-> row.used + w, n |-> row.n + 1]

PackWidth(charts) ==
    LET after[n \in 0 .. Len(charts)] ==
            IF n = 0 THEN [used |-> 0, n |-> 0] ELSE PackOne(after[n - 1], charts[n].w)
    IN  after

fill_trailing_row(charts) ==
    IF PackWidth(charts)[Len(charts)].n = 1
    THEN [charts EXCEPT ![Len(charts)] = [Last(charts) EXCEPT !.w = GridCols]] ELSE charts

\* The period is written into every chart but a series that looks a year back.
\* Slip: only the charts drawn over time are given the period.
Baked_TimeOnly(c, time) ==
    IF c.query.dimensions # <<Bare(time[1].name)>> THEN c
    ELSE [c EXCEPT !.query.filters = <<[column |-> Bare(time[1].name), op |-> ">=", value |-> "token"]>>]

Baked(c, time) ==
    IF \E m \in Range(c.query.measures) : m.transform = "yoy_pct" THEN c
    ELSE [c EXCEPT !.query.filters = <<[column |-> Bare(time[1].name), op |-> ">=", value |-> "token"]>>]

\* build_auto_spec.
Overview(t, max_charts, target) ==
    LET measures == MeasuresOf(t)
        times == WithRole(t, "time")
        time == SubSeq(times, 1, Least(1, Len(times)))
        yoy == time # <<>> /\ yoy_applicable(time[1].card)
        breakdowns == good_breakdowns(t)
        all == Kpis(t, measures, time, yoy) \o Dynamics(t, measures[1], time)
                 \o Structure(t, measures[1], breakdowns, yoy) \o Detail(t, measures[1], breakdowns)
        cut == fill_trailing_row(SubSeq(all, 1, Least(max_charts, Len(all))))
        named == [i \in DOMAIN cut |-> [cut[i] EXCEPT !.id = AutoIds[i]]]
    IN  [target_bi |-> target,
         filters   |-> Map(LAMBDA k : [column |-> Ref(t, k.name), default |-> "token"], time),
         charts    |-> IF time = <<>> THEN named ELSE Map(LAMBDA c : Baked(c, time), named)]

IsOverview(spec) == spec.charts # <<>> /\ spec.charts[1].id = AutoIds[1]

=============================================================================
