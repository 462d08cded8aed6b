----------------------------- MODULE MCPlanning -----------------------------
(***************************************************************************)
(* A warehouse of seven tables and the proposals over it: one chart of     *)
(* every shape with every kind of control, pairs of charts whose datasets  *)
(* and scopes meet, boards that exercise the grid, and the overview of     *)
(* every table.                                                            *)
(***************************************************************************)
EXTENDS PlanInvariants

Sales == <<"dm", "sales">>
Orders == <<"dm", "orders">>
Stores == <<"dm", "stores">>
Goods == <<"dm", "products">>
Visits == <<"dm", "visits">>
Returns == <<"dm", "returns">>
Log == <<"dm", "log">>

MCTables ==
    LET Column(name, role) ==
            [name |-> <<name>>, role |-> role, fk |-> <<>>, additive |-> role = "measure", card |-> 0,
             labels |-> FALSE, title |-> <<>>, numeric |-> role = "measure", agg |-> "none"]
        Key(name, t) == [Column(name, "dimension") EXCEPT !.fk = <<Ref(t, <<"id">>)>>, !.card = 5, !.numeric = TRUE]
        Dim(name, card) == [Column(name, "dimension") EXCEPT !.card = card]
        Label == [Column("name", "dimension") EXCEPT !.labels = TRUE, !.card = 5]
        Id == [Column("id", "dimension") EXCEPT !.card = 5, !.numeric = TRUE]
    IN
    (Sales :> [rows |-> 90, grain |-> <<<<"date">>, <<"store">>, <<"product">>>>, columns |->
        <<[Column("date", "time") EXCEPT !.card = 730], Key("store", Stores), Key("product", Goods), Dim("channel", 3),
          [Column("revenue", "measure") EXCEPT !.title = <<"Revenue">>], Column("qty", "measure"),
          [Column("price", "measure") EXCEPT !.additive = FALSE]>>]) @@
    (Orders :> [rows |-> 90, grain |-> <<<<"day">>>>, columns |->
        <<Column("day", "time"), Key("store", Stores), Key("origin", Stores),
          [Column("stores", "dimension") EXCEPT !.name = <<"stores", "city">>], Column("qty", "measure")>>]) @@
    (Stores :> [rows |-> 5, grain |-> <<<<"id">>>>, columns |-> <<Id, Label, Dim("city", 4)>>]) @@
    (Goods :> [rows |-> 5, grain |-> <<<<"id">>>>, columns |->
        <<Id, Label, Column("added", "time"), Dim("brand", 30), Dim("colour", 14), Key("group", Goods)>>]) @@
    (Visits :> [rows |-> 90, grain |-> <<<<"day">>, <<"store">>>>, columns |->
        <<[Column("day", "time") EXCEPT !.card = 400], Key("store", Stores), Key("product", Goods), Dim("device", 3),
          Dim("source", 20), [Column("spent", "measure") EXCEPT !.agg = "avg", !.additive = FALSE], Column("pages", "measure")>>]) @@
    (Returns :> [rows |-> 90, grain |-> <<<<"product">>>>, columns |->
        <<[Column("day", "time") EXCEPT !.card = 100], Key("product", Goods), Dim("reason", 60)>>]) @@
    (Log :> [rows |-> 90, grain |-> <<<<"at">>>>, columns |-> <<Column("at", "time"), Dim("level", 4)>>])

\* A key of Returns has no join in the model.
MCEdges ==
    LET Edge(t, c, u) == {Ref(t, <<c>>), Ref(u, <<"id">>)}
    IN  {Edge(Sales, "store", Stores), Edge(Sales, "product", Goods), Edge(Orders, "store", Stores),
         Edge(Orders, "origin", Stores), Edge(Goods, "group", Goods), Edge(Visits, "store", Stores),
         Edge(Visits, "product", Goods)}

----------------------------------------------------------------------------
B(c) == Bare(<<c>>)
M(agg, c) == [column |-> <<c>>, agg |-> agg, label |-> <<>>, transform |-> "none", lag |-> <<>>,
              denominator |-> <<>>, compare |-> <<>>]
Revenue == M("sum", "revenue")
Share == [Revenue EXCEPT !.transform = "running_share"]
Growth == [Revenue EXCEPT !.transform = "pop_pct"]
Price == [Revenue EXCEPT !.denominator = <<M("sum", "qty")>>]
Change == [Revenue EXCEPT !.compare = <<[column |-> B("date"), grain |-> "month", kind |-> "prev", output |-> "pct"]>>]

Joins(t, key, u) == <<[table |-> u, on_left |-> Ref(t, <<key>>), on_right |-> Ref(u, <<"id">>)]>>
City == Ref(Stores, <<"city">>)
Added == Ref(Goods, <<"added">>)
F(r, op, value) == <<[column |-> r, op |-> op, value |-> value]>>

Query == [table |-> Sales, dimensions |-> <<>>, series |-> <<>>, rows |-> <<>>, columns |-> <<>>,
          measures |-> <<Revenue>>, filters |-> <<>>, joins |-> <<>>, order_by |-> <<>>, limit |-> 6,
          time_grain |-> "none", bins |-> FALSE, raw |-> "none"]
Over(dims) ==
    [Query EXCEPT !.dimensions = dims,
                  !.joins = IF City \in Range(dims) THEN Joins(Sales, "store", Stores)
                            ELSE IF Added \in Range(dims) THEN Joins(Sales, "product", Goods) ELSE <<>>]
Chart(id, viz, q) == [id |-> id, viz |-> viz, query |-> q, w |-> 6, h |-> 4, row |-> 0]

Dims == {<<>>, <<B("date")>>, <<B("store")>>, <<B("channel")>>, <<B("date"), B("channel")>>,
         <<B("store"), B("product")>>, <<B("channel"), B("channel")>>, <<City>>, <<Added>>, <<City, B("store")>>}
Measures == {<<Revenue>>, <<Revenue, M("avg", "revenue")>>, <<Price>>, <<Share>>,
             <<Growth, Revenue>>, <<Change>>, <<M("count", "store")>>, <<Revenue, [M("sum", "qty") EXCEPT !.label = <<"channel">>]>>}
Vizs == {"big_number", "line", "bar", "pie", "table", "heatmap"}

Plain == {Chart("a", v, [Over(d) EXCEPT !.measures = ms, !.time_grain = g]) :
             v \in Vizs, d \in Dims, ms \in Measures, g \in {"none", "month"}}
Varied ==
    LET bar == Over(<<B("channel")>>)
        orders == {<<[by |-> b, desc |-> TRUE]>> : b \in {B("revenue"), Bare(<<"sum", "revenue">>), B("channel")}}
        wheres == {F(B("channel"), "eq", "scalar"), F(B("channel"), "eq", "list"), F(B("date"), ">=", "token")}
    IN  {Chart("a", v, [bar EXCEPT !.order_by = o, !.limit = n, !.measures = ms]) :
             v \in {"bar", "pie", "table"}, o \in orders, n \in {1, 6}, ms \in {<<Revenue>>, <<Share>>}}
        \cup {Chart("a", v, [Over(d) EXCEPT !.filters = w, !.measures = ms]) :
             v \in {"line", "bar", "big_number"}, d \in {<<>>, <<B("date")>>, <<B("channel")>>}, w \in wheres,
             ms \in {<<Revenue>>, <<Share>>, <<Change>>}}
        \cup {Chart("a", "line", [Over(<<B("date")>>) EXCEPT !.order_by = <<[by |-> B("date"), desc |-> FALSE]>>,
                                     !.time_grain = "month", !.series = s]) : s \in {<<>>, <<B("channel")>>, <<B("store")>>}}
        \cup {Chart("a", v, [Over(d) EXCEPT !.series = s, !.measures = ms]) :
             v \in {"area", "stacked_bar"}, d \in {<<B("date")>>, <<B("store")>>, <<City>>}, s \in {<<>>, <<B("channel")>>},
             ms \in {<<Revenue>>, <<Price>>, <<Growth, Revenue>>}}
        \cup {Chart("a", "pivot", [Query EXCEPT !.rows = <<B("store")>>, !.columns = cs]) : cs \in {<<>>, <<B("channel")>>, <<B("product")>>}}
        \cup {Chart("a", "histogram", [Over(<<B("revenue")>>) EXCEPT !.bins = TRUE, !.measures = <<M("count", "store")>>,
                                     !.filters = w]) : w \in {<<>>, F(B("channel"), "eq", "scalar")}}
        \cup {Chart("a", "table", [Over(<<B("channel")>>) EXCEPT !.raw = "select", !.measures = <<>>])}
        \cup {Chart("a", "bar", [Over(<<B("channel")>>) EXCEPT
                 !.measures = <<[M("sum", "qty") EXCEPT !.label = <<"revenue">>], M("avg", "revenue")>>])}
        \cup {Chart("a", "bar", [Over(d) EXCEPT !.table = Orders, !.measures = <<M("sum", "qty")>>, !.joins = j]) :
             d \in {<<B("store")>>, <<B("store"), B("origin")>>, <<City>>}, j \in {<<>>, Joins(Orders, "store", Stores)}}

----------------------------------------------------------------------------
Control(t, c, default) == [column |-> Ref(t, <<c>>), default |-> default]
Controls == {<<>>, <<Control(Sales, "date", "token")>>, <<Control(Sales, "channel", "value")>>,
             <<Control(Stores, "city", "none")>>, <<Control(Stores, "name", "value"), Control(Sales, "date", "none")>>}

Board(target, filters, charts) == [target_bi |-> target, filters |-> filters, charts |-> charts]
Targets == {"superset", "datalens"}
Buildable(charts) == {c \in charts : \E t \in Targets : ChartOk(c, t, TRUE)}

Named(c, id) == [c EXCEPT !.id = id]
Paired == {Chart("b", "bar", Over(<<B("store")>>)), Chart("b", "table", Over(<<City>>)),
           Chart("b", "line", [Over(<<B("date")>>) EXCEPT !.measures = <<Growth>>]),
           Chart("b", "bar", [Over(<<City>>) EXCEPT !.measures = <<Share>>]),
           Chart("b", "pie", [Over(<<B("channel")>>) EXCEPT !.measures = <<Share>>]),
           Chart("b", "big_number", [Query EXCEPT !.measures = <<Change>>]),
           Chart("b", "bar", [Over(<<B("store")>>) EXCEPT !.table = Orders, !.measures = <<M("sum", "qty")>>])}

Tiles == {[x EXCEPT !.row = r, !.h = 5] :
             x \in {[Chart("t", "big_number", Query) EXCEPT !.w = 5],
                    [Chart("t", "table", Over(<<B("channel")>>)) EXCEPT !.w = 7]}, r \in {0, 1}}

MCProposals ==
    {Board(t, fs, <<c>>) : t \in Targets, fs \in Controls, c \in Buildable(Plain \cup Varied)}
    \cup {Board(t, fs, <<Named(c, "a"), d>>) : t \in Targets, fs \in Controls, c \in Paired, d \in Paired}
    \cup {Board(t, <<Control(Sales, "channel", "none")>>, <<Named(c, "a"), Named(d, "b"), Named(e, "c")>>) :
             t \in Targets, c \in Tiles, d \in Tiles, e \in Tiles}
    \cup {Board("superset", <<>>, <<c, c>>) : c \in Paired}
    \cup {Overview(x, n, t) : x \in DOMAIN Tables, n \in {1, 3, 8}, t \in Targets}

=============================================================================
