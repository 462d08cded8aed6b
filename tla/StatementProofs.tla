--------------------------- MODULE StatementProofs ----------------------------
(***************************************************************************)
(* What the generated SQL promises, for any semantic model: whatever       *)
(* validates has statements the warehouse can plan, and the order of a     *)
(* chart cut to its largest binds to the measure it draws first.           *)
(*                                                                         *)
(* Both rest on how names resolve: the sources of a statement and the      *)
(* names of its outputs are distinct, a reference of a valid query is a    *)
(* column of one source (ReadsResolve), and an order names an output       *)
(* (TargetIsOutput).  Every form of statement plans for that reason        *)
(* (ChartPlans, SourcePlans); what is gated or remembered to plan does     *)
(* (PlanInv), and what is built was gated (DatasetPlans).                  *)
(*                                                                         *)
(* Last, what the overview of a mart promises that nobody validated: it is *)
(* a board of the mart (Board, OverviewDrawn), it stays what was proposed  *)
(* on its way to the build (OriginInv), and so it validates                *)
(* (OverviewValid), is normal already (OverviewNormal), fills its last row *)
(* on either grid (BuildFills) and shows its period (BuildShows).          *)
(***************************************************************************)
EXTENDS PlanProofs

-----------------------------------------------------------------------------
(* The names a statement reads. *)

\* What a statement reads from: its table, then the tables it joins.
LEMMA SourcesRange ==
    ASSUME NEW s, s.table # NoTable, IsList(s.joins)
    PROVE  /\ Range(Sources(s)) = {s.table} \cup {j.table : j \in Range(s.joins)}
           /\ s.joins = <<>> => Sources(s) = <<s.table>>
<1> DEFINE t == s.table
           joined == [i \in DOMAIN s.joins |-> s.joins[i].table]
<1>1. Sources(s) = <<t>> \o joined
    BY DEF Sources, Map
<1>2. IsList(joined)
    BY Listing
<1>3. Range(joined) = {j.table : j \in Range(s.joins)}
    BY DEF Range
<1>4. s.joins = <<>> => joined = <<>>
    OBVIOUS
<1> HIDE DEF joined, t
<1>5. IsList(<<t>>) /\ Range(<<t>>) = {t} /\ <<t>> \o <<>> = <<t>>
    <2>1. IsList(<<t>>) /\ Range(<<t>>) = {t}
        BY Tuples
    <2>2. <<t>> \in Seq({t})
        OBVIOUS
    <2>3. <<t>> \o <<>> = <<t>>
        BY <2>2, ConcatEmptySeq
    <2> QED  BY <2>1, <2>3
<1>6. Range(<<t>> \o joined) = {t} \cup Range(joined)
    BY <1>2, <1>5, Concatenated
<1> QED  BY <1>1, <1>3, <1>4, <1>5, <1>6 DEF t

\* A statement that joins each table once, and none it reads, has them apart.
LEMMA SourcesApart ==
    ASSUME NEW s, s.table # NoTable, IsList(s.joins),
           IsInjective(Map(LAMBDA j : j.table, s.joins)),
           \A j \in Range(s.joins) : j.table # s.table
    PROVE  IsInjective(Sources(s))
<1> DEFINE t == s.table
           joined == [i \in DOMAIN s.joins |-> s.joins[i].table]
           all == <<t>> \o joined
           n == Len(joined)
<1>1. Sources(s) = all
    BY DEF Sources, Map
<1>2. IsList(joined)
    BY Listing
<1>3. \A i \in DOMAIN joined : joined[i] # t
    BY DEF Range
<1>4. IsInjective(joined)
    BY DEF Map
<1> HIDE DEF joined, t
<1>5. IsList(<<t>>) /\ Len(<<t>>) = 1 /\ <<t>>[1] = t
    BY Tuples
<1>6. n \in Nat /\ DOMAIN joined = 1 .. n
    BY <1>2, LenProperties DEF IsList
<1>7. /\ DOMAIN all = 1 .. 1 + n
      /\ \A i \in 1 .. 1 + n : all[i] = IF i <= 1 THEN t ELSE joined[i - 1]
    <2> DEFINE S == Range(<<t>>) \cup Range(joined)
    <2>1. <<t>> \in Seq(S) /\ joined \in Seq(S)
        BY <1>2, <1>5, SeqMonotonic DEF IsList
    <2> HIDE DEF S
    <2>2. /\ all \in Seq(S) /\ Len(all) = 1 + n
          /\ \A i \in 1 .. 1 + n : all[i] = IF i <= 1 THEN <<t>>[i] ELSE joined[i - 1]
        BY <1>5, <2>1, ConcatProperties
    <2>3. DOMAIN all = 1 .. 1 + n
        BY <2>2, LenProperties
    <2> QED  BY <1>5, <2>2, <2>3
<1> HIDE DEF all, n
<1>8. ASSUME NEW i \in 1 .. 1 + n, NEW j \in 1 .. 1 + n, all[i] = all[j] PROVE i = j
    <2>1. CASE i <= 1 /\ j <= 1
        BY <1>6, <2>1
    <2>2. CASE i <= 1 /\ ~(j <= 1)
        <3>1. j - 1 \in DOMAIN joined
            BY <1>6, <2>2
        <3> QED  BY <1>3, <1>7, <1>8, <2>2, <3>1
    <2>3. CASE ~(i <= 1) /\ j <= 1
        <3>1. i - 1 \in DOMAIN joined
            BY <1>6, <2>3
        <3> QED  BY <1>3, <1>7, <1>8, <2>3, <3>1
    <2>4. CASE ~(i <= 1) /\ ~(j <= 1)
        <3>1. i - 1 \in DOMAIN joined /\ j - 1 \in DOMAIN joined
            BY <1>6, <2>4
        <3>2. joined[i - 1] = joined[j - 1]
            BY <1>7, <1>8, <2>4
        <3>3. i - 1 = j - 1
            BY <1>4, <3>1, <3>2 DEF IsInjective
        <3> QED  BY <1>6, <3>3
    <2> QED  BY <2>1, <2>2, <2>3, <2>4
<1> QED  BY <1>1, <1>7, <1>8 DEF IsInjective

\* A column named with its table is found in it.
LEMMA NamedResolves ==
    ASSUME NEW s, NEW r, Qualified(r), r.table \in Range(Sources(s)), HasColumn(r.table, r.col)
    PROVE  Resolves(s, r)
BY DEF Resolves

\* So is one named with a subquery that returns it.
LEMMA SubResolves ==
    ASSUME NEW s, NEW x \in Range(s.sub), NEW r, Qualified(r), r.table = x.as,
           Contains(Outputs(x.stmt), r.col)
    PROVE  Resolves(s, r)
BY DEF Resolves

\* A bare column of the one table is found when no subquery returns its name.
LEMMA BareResolves ==
    ASSUME NEW s, NEW t, Sources(s) = <<t>>, NEW r, ~Qualified(r), HasColumn(t, r.col),
           \A x \in Range(s.sub) : ~Contains(Outputs(x.stmt), r.col)
    PROVE  Resolves(s, r)
<1> DEFINE inTables == {u \in Range(Sources(s)) : HasColumn(u, r.col)}
           inSubs == {x \in Range(s.sub) : Contains(Outputs(x.stmt), r.col)}
<1>1. Range(Sources(s)) = {t}
    BY Tuples
<1>2. inTables = {t} /\ inSubs = {}
    BY <1>1
<1> HIDE DEF inTables, inSubs
<1>3. Cardinality({t}) = 1 /\ Cardinality({}) = 0
    BY FS_Singleton, FS_EmptySet, Zenon
<1>4. Cardinality(inTables) + Cardinality(inSubs) = 1
    BY <1>2, <1>3
<1> QED  BY <1>4 DEF Resolves, inTables, inSubs

\* A statement that reads a subquery alone finds every name it returns.
LEMMA OuterResolves ==
    ASSUME NEW s, s.table = NoTable, s.joins = <<>>, NEW x, s.sub = <<x>>,
           NEW r, ~Qualified(r), Contains(Outputs(x.stmt), r.col)
    PROVE  Resolves(s, r)
<1> DEFINE inTables == {u \in Range(Sources(s)) : HasColumn(u, r.col)}
           inSubs == {y \in Range(s.sub) : Contains(Outputs(y.stmt), r.col)}
           none == Map(LAMBDA j : j.table, <<>>)
<1>1. Sources(s) = <<>>
    <2>1. Sources(s) = <<>> \o none
        BY DEF Sources
    <2>2. none = <<>>
        BY DEF Map
    <2>3. <<>> \o <<>> = <<>>
        OBVIOUS
    <2> HIDE DEF none
    <2> QED  BY <2>1, <2>2, <2>3
<1>2. inTables = {} /\ inSubs = {x}
    <2>1. Range(Sources(s)) = {} /\ Range(s.sub) = {x}
        BY <1>1, Tuples
    <2> QED  BY <2>1
<1> HIDE DEF inTables, inSubs
<1>3. Cardinality({x}) = 1 /\ Cardinality({}) = 0
    BY FS_Singleton, FS_EmptySet, Zenon
<1>4. Cardinality(inTables) + Cardinality(inSubs) = 1
    BY <1>2, <1>3
<1> QED  BY <1>4 DEF Resolves, inTables, inSubs

\* No two items of a list are named alike.
Keyed(items) == IsList(items) /\ \A i, j \in DOMAIN items : items[i].alias = items[j].alias => i = j

\* What such a list returns has distinct names.
LEMMA KeyedOutputs ==
    ASSUME NEW s, Keyed(s.items)
    PROVE  /\ IsInjective(Outputs(s)) /\ IsList(Outputs(s))
           /\ \A n : Contains(Outputs(s), n) <=> n \in Aliases(s.items)
<1>1. Outputs(s) = [i \in DOMAIN s.items |-> s.items[i].alias]
    BY DEF Outputs, Map
<1>2. IsInjective(Outputs(s))
    BY <1>1 DEF IsInjective, Keyed
<1>3. IsList(Outputs(s)) /\ Range(Outputs(s)) = Aliases(s.items)
    BY OutputsRange DEF Keyed
<1> QED  BY <1>2, <1>3, ContainsRange

\* Two lists that share no name make one.
LEMMA KeyedConcat ==
    ASSUME NEW s, NEW t, Keyed(s), Keyed(t), Aliases(s) \cap Aliases(t) = {}
    PROVE  Keyed(s \o t) /\ Aliases(s \o t) = Aliases(s) \cup Aliases(t)
<1> DEFINE both == s \o t
           m == Len(s)
           n == Len(t)
<1>1. IsList(both) /\ Range(both) = Range(s) \cup Range(t)
    BY Concatenated DEF Keyed
<1>2. m \in Nat /\ DOMAIN s = 1 .. m /\ n \in Nat /\ DOMAIN t = 1 .. n
    BY LenProperties DEF Keyed, IsList
<1>3. /\ DOMAIN both = 1 .. m + n
      /\ \A i \in 1 .. m + n : both[i] = IF i <= m THEN s[i] ELSE t[i - m]
    <2> DEFINE S == Range(s) \cup Range(t)
    <2>1. s \in Seq(S) /\ t \in Seq(S)
        BY SeqMonotonic DEF Keyed, IsList
    <2> HIDE DEF S
    <2>2. /\ both \in Seq(S) /\ Len(both) = m + n
          /\ \A i \in 1 .. m + n : both[i] = IF i <= m THEN s[i] ELSE t[i - m]
        BY <2>1, ConcatProperties
    <2> QED  BY <2>2, LenProperties
<1> HIDE DEF both, m, n
<1>4. /\ \A i \in 1 .. m : s[i].alias \in Aliases(s)
      /\ \A i \in 1 .. n : t[i].alias \in Aliases(t)
    BY <1>2 DEF Aliases, Range
<1>5. ASSUME NEW i \in 1 .. m + n, NEW j \in 1 .. m + n, both[i].alias = both[j].alias PROVE i = j
    <2>1. CASE i <= m /\ j <= m
        <3>1. i \in DOMAIN s /\ j \in DOMAIN s /\ both[i] = s[i] /\ both[j] = s[j]
            BY <1>2, <1>3, <2>1
        <3> QED  BY <1>5, <3>1 DEF Keyed
    <2>2. CASE i <= m /\ ~(j <= m)
        <3>1. i \in 1 .. m /\ j - m \in 1 .. n
            BY <1>2, <2>2
        <3> QED  BY <1>3, <1>4, <1>5, <2>2, <3>1
    <2>3. CASE ~(i <= m) /\ j <= m
        <3>1. j \in 1 .. m /\ i - m \in 1 .. n
            BY <1>2, <2>3
        <3> QED  BY <1>3, <1>4, <1>5, <2>3, <3>1
    <2>4. CASE ~(i <= m) /\ ~(j <= m)
        <3>1. i - m \in 1 .. n /\ j - m \in 1 .. n
            BY <1>2, <2>4
        <3>2. t[i - m].alias = t[j - m].alias
            BY <1>3, <1>5, <2>4
        <3>3. i - m = j - m
            BY <1>2, <3>1, <3>2 DEF Keyed
        <3> QED  BY <1>2, <3>3
    <2> QED  BY <2>1, <2>2, <2>3, <2>4
<1>6. Keyed(both)
    BY <1>1, <1>3, <1>5 DEF Keyed, both
<1>7. Aliases(both) = Aliases(s) \cup Aliases(t)
    BY <1>1 DEF Aliases, both
<1> QED  BY <1>6, <1>7 DEF both

\* So do any number of lists no two of which share a name.
LEMMA KeyedFlatten ==
    ASSUME NEW S, NEW ss \in Seq(Seq(S)), \A i \in DOMAIN ss : Keyed(ss[i]),
           \A i, j \in DOMAIN ss : i # j => Aliases(ss[i]) \cap Aliases(ss[j]) = {}
    PROVE  /\ Keyed(FlattenSeq(ss))
           /\ \A a : a \in Aliases(FlattenSeq(ss)) <=> \E i \in DOMAIN ss : a \in Aliases(ss[i])
<1> DEFINE n == Len(ss)
<1>1. n \in Nat /\ DOMAIN ss = 1 .. n
    BY LenProperties
<1>2. CASE n = 0
    <2>1. ss = <<>>
        BY <1>2, EmptySeq
    <2>2. FlattenSeq(ss) = <<>>
        BY <2>1 DEF FlattenSeq
    <2>3. IsList(<<>>) /\ Range(<<>>) = {} /\ DOMAIN ss = {}
        BY <1>1, <1>2, Tuples
    <2> QED  BY <2>2, <2>3 DEF Keyed, Aliases
<1>3. CASE n # 0
    <2>1. ss # <<>>
        BY <1>3, EmptySeq
    <2>2. PICK h : Partial(ss, n, h, S) /\ FlattenSeq(ss) = h[n]
        BY <2>1, FlattenIsPrefix
    <2> HIDE DEF n
    <2> DEFINE Upto(k) == /\ Keyed(h[k])
                          /\ \A a : a \in Aliases(h[k]) <=> \E i \in 1 .. k : a \in Aliases(ss[i])
               X == {k \in Nat : k + 1 <= n => Upto(k + 1)}
    <2>3. 0 \in X
        <3>1. h[1] = ss[1] /\ 1 \in DOMAIN ss
            BY <1>1, <1>3, <2>2 DEF Partial
        <3>2. Keyed(h[1])
            BY <3>1
        <3>3. \A a : a \in Aliases(h[1]) <=> \E i \in 1 .. 1 : a \in Aliases(ss[i])
            BY <3>1
        <3> QED  BY <3>2, <3>3
    <2>4. ASSUME NEW k \in Nat, k \in X PROVE k + 1 \in X
        <3>1. CASE k + 1 + 1 <= n
            <4>1. /\ k + 1 \in 1 .. n /\ k + 1 + 1 \in 1 .. n
                  /\ k + 1 + 1 # 1 /\ (k + 1 + 1) - 1 = k + 1 /\ k + 1 <= n
                BY <1>1, <3>1
            <4>2. Upto(k + 1)
                BY <2>4, <4>1
            <4>3. h[k + 1 + 1] = h[k + 1] \o ss[k + 1 + 1]
                BY <2>2, <4>1 DEF Partial
            <4>4. Aliases(h[k + 1]) \cap Aliases(ss[k + 1 + 1]) = {}
                <5> SUFFICES ASSUME NEW a \in Aliases(h[k + 1]), a \in Aliases(ss[k + 1 + 1]) PROVE FALSE
                    OBVIOUS
                <5>1. PICK i \in 1 .. k + 1 : a \in Aliases(ss[i])
                    BY <4>2
                <5>2. i # k + 1 + 1 /\ i \in 1 .. n
                    BY <1>1, <2>4, <3>1
                <5> QED  BY <1>1, <4>1, <5>1, <5>2
            <4>5. /\ Keyed(h[k + 1 + 1])
                  /\ Aliases(h[k + 1 + 1]) = Aliases(h[k + 1]) \cup Aliases(ss[k + 1 + 1])
                <5>1. Keyed(h[k + 1]) /\ Keyed(ss[k + 1 + 1])
                    BY <1>1, <4>1, <4>2
                <5> QED  BY <4>3, <4>4, <5>1, KeyedConcat
            <4>6. \A i : i \in 1 .. k + 1 + 1 <=> i \in 1 .. k + 1 \/ i = k + 1 + 1
                OBVIOUS
            <4>7. \A a : a \in Aliases(h[k + 1 + 1]) <=> \E i \in 1 .. k + 1 + 1 : a \in Aliases(ss[i])
                BY <4>2, <4>5, <4>6
            <4> QED  BY <4>5, <4>7
        <3>2. CASE ~(k + 1 + 1 <= n)
            BY <3>2
        <3> QED  BY <3>1, <3>2
    <2> HIDE DEF X
    <2>5. n - 1 \in Nat /\ (n - 1) + 1 = n
        BY <1>1, <1>3
    <2>6. n - 1 \in X
        BY <2>3, <2>4, <2>5, Induct
    <2>7. Upto(n)
        BY <2>5, <2>6 DEF X
    <2> QED  BY <1>1, <2>2, <2>7
<1> QED  BY <1>2, <1>3

\* The largest of some positions is one of them.
LEMMA LastOf ==
    ASSUME NEW n \in Nat, NEW I, I \subseteq 1 .. n, I # {}
    PROVE  Max(I) \in I
<1> DEFINE Found(m) == \E x \in I : \A y \in I : y <= m => x >= y /\ x <= m
           X == {m \in Nat : (\E y \in I : y <= m) => Found(m)}
<1>1. 0 \in X
    OBVIOUS
<1>2. ASSUME NEW m \in Nat, m \in X PROVE m + 1 \in X
    <2>1. CASE m + 1 \in I
        <3>1. \A y \in I : y <= m + 1 => m + 1 >= y /\ m + 1 <= m + 1
            OBVIOUS
        <3> QED  BY <2>1, <3>1
    <2>2. CASE m + 1 \notin I
        <3>1. \A y \in I : y <= m + 1 <=> y <= m
            BY <2>2
        <3> QED  BY <1>2, <3>1
    <2> QED  BY <2>1, <2>2
<1> HIDE DEF X
<1>3. n \in X
    BY <1>1, <1>2, Induct
<1>4. \A y \in I : y <= n
    OBVIOUS
<1>5. Found(n)
    BY <1>3, <1>4 DEF X
<1>6. \E x \in I : \A y \in I : x >= y
    BY <1>4, <1>5
<1> QED  BY <1>6 DEF Max

-----------------------------------------------------------------------------
(* What a valid query names, its order and its grouped SELECT. *)

\* The tables a query joins are others than its own and hold their keys.
Joinable(t, joins) ==
    /\ t # NoTable /\ IsList(joins)
    /\ \A j \in Range(joins) :
          /\ j.table # t /\ j.table # NoTable
          /\ j.on_left.table = t /\ HasColumn(t, j.on_left.col)
          /\ j.on_right.table = j.table /\ HasColumn(j.table, j.on_right.col)

\* A reference names a column of the query's table or of one it joins.
Reads(q, r) ==
    IF Qualified(r) THEN HasColumn(r.table, r.col) /\ \E j \in Range(q.joins) : j.table = r.table
    ELSE HasColumn(q.table, r.col)

\* All a valid query names, it can read (ir/validate.py).
LEMMA ValidReads ==
    ASSUME NEW c, IsQuery(c.query), NEW target, ChartOk(c, target, TRUE), ~IsRaw(c.query)
    PROVE  LET q == c.query
           IN  /\ Joinable(q.table, q.joins)
               /\ \A r \in Range(Roles(q)) : Reads(q, r)
               /\ \A f \in Range(q.filters) : Reads(q, f.column)
               /\ \A m \in Range(q.measures) :
                     /\ HasColumn(q.table, m.column)
                     /\ \A d \in Range(m.denominator) : HasColumn(q.table, d.column)
               /\ IsInjective(GroupAliases(q)) /\ IsInjective(MeasureAliases(q))
               /\ Range(GroupAliases(q)) \cap Range(MeasureAliases(q)) = {}
<1> DEFINE q == c.query
<1>1. /\ Known(q.table)
      /\ \A j \in Range(q.joins) : JoinOk(q, j) /\ j.table \in UsedTables(q)
      /\ \A r \in Range(Roles(q)) : RefOk(q, r)
      /\ AliasesOk(q)
      /\ \A m \in Range(q.measures) : /\ MeasureColOk(q, m.column, m.agg)
                                      /\ \A d \in Range(m.denominator) : MeasureColOk(q, d.column, d.agg)
      /\ \A f \in Range(q.filters) : RefOk(q, f.column)
    BY DEF ChartOk
<1>2. \A r : RefOk(q, r) => Reads(q, r)
    BY DEF RefOk, Reads, Joined
<1>3. \A n, agg : MeasureColOk(q, n, agg) => HasColumn(q.table, n)
    BY DEF MeasureColOk, HasColumn
<1>4. Range(group_columns(q)) = Range(Roles(q)) /\ IsList(q.joins)
    BY RolesRange DEF IsQuery, QueryLists
<1>5. \A t : Known(t) => t # NoTable
    BY TablesAssumption DEF Known, SemanticModel
<1>6. q.table \notin UsedTables(q)
    BY <1>1, <1>4 DEF UsedTables, RefOk
<1>7. Joinable(q.table, q.joins)
    BY <1>1, <1>4, <1>5, <1>6 DEF Joinable, JoinOk
<1> QED  BY <1>1, <1>2, <1>3, <1>7 DEF AliasesOk

\* What a query reads is found by a statement over its tables, written as the
\* generator writes it, unless a subquery returns the same name.
LEMMA ReadsResolve ==
    ASSUME NEW q, Joinable(q.table, q.joins), NEW s, s.table = q.table, s.joins = q.joins,
           NEW r, Reads(q, r)
    PROVE  /\ Resolves(s, Qualify(r, q.table))
           /\ (\A x \in Range(s.sub) : ~Contains(Outputs(x.stmt), r.col)) => Resolves(s, resolve(q, r))
<1>1. /\ Range(Sources(s)) = {q.table} \cup {j.table : j \in Range(q.joins)}
      /\ q.joins = <<>> => Sources(s) = <<q.table>>
    BY SourcesRange DEF Joinable
<1>2. Resolves(s, Qualify(r, q.table))
    <2> DEFINE x == Qualify(r, q.table)
    <2>1. Qualified(x) /\ x.table \in Range(Sources(s)) /\ HasColumn(x.table, x.col)
        BY <1>1 DEF Reads, Joinable, Qualify, Qualified, Ref
    <2> HIDE DEF x
    <2> QED  BY <2>1, NamedResolves DEF x
<1>3. ASSUME \A x \in Range(s.sub) : ~Contains(Outputs(x.stmt), r.col) PROVE Resolves(s, resolve(q, r))
    <2>1. CASE q.joins # <<>>
        BY <1>2, <2>1 DEF resolve
    <2>2. CASE q.joins = <<>>
        <3>1. Range(q.joins) = {} /\ resolve(q, r) = r
            BY <2>2, Tuples DEF resolve
        <3>2. ~Qualified(r) /\ HasColumn(q.table, r.col)
            BY <3>1 DEF Reads
        <3> QED  BY <1>1, <1>3, <2>2, <3>1, <3>2, BareResolves
    <2> QED  BY <2>1, <2>2
<1> QED  BY <1>2, <1>3

\* The keys of its joins are found too.
LEMMA JoinsResolve ==
    ASSUME NEW s, Joinable(s.table, s.joins)
    PROVE  \A j \in Range(s.joins) : Resolves(s, j.on_left) /\ Resolves(s, j.on_right)
<1> SUFFICES ASSUME NEW j \in Range(s.joins)
             PROVE  Resolves(s, j.on_left) /\ Resolves(s, j.on_right)
    OBVIOUS
<1>1. Range(Sources(s)) = {s.table} \cup {x.table : x \in Range(s.joins)}
    BY SourcesRange DEF Joinable
<1>2. /\ Qualified(j.on_left) /\ j.on_left.table \in Range(Sources(s))
      /\ HasColumn(j.on_left.table, j.on_left.col)
      /\ Qualified(j.on_right) /\ j.on_right.table \in Range(Sources(s))
      /\ HasColumn(j.on_right.table, j.on_right.col)
    BY <1>1 DEF Joinable, Qualified
<1> QED  BY <1>2, NamedResolves

\* What a reference of an order binds to: a measure it is a name of, a joined
\* group column, or the output of that very name (_order_targets).
NamesMeasure(by, m) == by = Bare(m.column) \/ by = Bare(measure_alias(m))

LEMMA TargetOf ==
    ASSUME NEW q, IsQuery(q), NEW by
    PROVE  \/ \E m \in Range(q.measures) : NamesMeasure(by, m) /\ OrderTarget(q, by) = measure_alias(m)
           \/ \E r \in Range(Roles(q)) : Qualified(r) /\ by = r /\ OrderTarget(q, by) = r.col
           \/ /\ OrderTarget(q, by) = by.col
              /\ \A m \in Range(q.measures) : ~NamesMeasure(by, m)
<1> DEFINE pair(m) == << <<Bare(m.column), measure_alias(m)>>, <<Bare(measure_alias(m)), measure_alias(m)>> >>
           pairs == [i \in DOMAIN q.measures |-> pair(q.measures[i])]
           ofMeasures == FlattenSeq(pairs)
           g == group_columns(q)
           K == {i \in DOMAIN g : Qualified(g[i])}
           joined == At(g, K)
           ofJoined == [i \in DOMAIN joined |-> <<joined[i], column_alias(joined[i])>>]
           targets == ofMeasures \o ofJoined
           I == {i \in 1 .. Len(targets) : targets[i][1] = by}
           last == IF I # {} THEN Max(I) ELSE 0
<1>1. OrderTarget(q, by) = IF last = 0 THEN by.col ELSE targets[last][2]
    BY Zenon DEF OrderTarget, SelectLastInSeq, Map, At, Only
<1>2. /\ IsList(g) /\ Range(g) = Range(Roles(q)) /\ IsList(q.measures)
    BY RolesRange DEF IsQuery, QueryLists
<1>3. IsList(ofMeasures) /\ \A p : p \in Range(ofMeasures) <=>
          \E m \in Range(q.measures) : p \in {<<Bare(m.column), measure_alias(m)>>,
                                              <<Bare(measure_alias(m)), measure_alias(m)>>}
    <2> DEFINE S == UNION {Range(pairs[i]) : i \in DOMAIN pairs}
    <2>1. ASSUME NEW m
          PROVE  /\ IsList(pair(m))
                 /\ Range(pair(m)) = {<<Bare(m.column), measure_alias(m)>>,
                                      <<Bare(measure_alias(m)), measure_alias(m)>>}
        BY Tuples
    <2> HIDE DEF pair
    <2>2. IsList(pairs) /\ Len(pairs) = Len(q.measures) /\ DOMAIN pairs = DOMAIN q.measures
        BY <1>2, Listing
    <2>3. \A i \in DOMAIN pairs : pairs[i] = pair(q.measures[i])
        OBVIOUS
    <2> HIDE DEF pairs
    <2>4. ASSUME NEW i \in DOMAIN pairs PROVE pairs[i] \in Seq(S)
        <3>1. IsList(pairs[i])
            BY <2>1, <2>2, <2>3
        <3>2. Range(pairs[i]) \subseteq S
            BY <2>1, <2>2, <2>3
        <3> QED  BY <3>1, <3>2, SeqMonotonic DEF IsList
    <2>5. Len(pairs) \in Nat /\ DOMAIN pairs = 1 .. Len(pairs) /\ pairs \in [DOMAIN pairs -> Range(pairs)]
        BY <2>2, LenProperties DEF IsList
    <2> HIDE DEF S
    <2>6. pairs \in Seq(Seq(S))
        <3>1. pairs \in [1 .. Len(pairs) -> Seq(S)]
            BY <2>4, <2>5
        <3> QED  BY <2>5, <3>1
    <2>7. /\ ofMeasures \in Seq(S)
          /\ \A p : p \in Range(ofMeasures) <=> \E i \in DOMAIN pairs : p \in Range(pairs[i])
        BY <2>5, <2>6, FlattenRange
    <2>8. IsList(ofMeasures)
        BY <2>7, SeqOfRange DEF IsList
    <2> HIDE DEF ofMeasures
    <2>9. \A p : (\E i \in DOMAIN pairs : p \in Range(pairs[i]))
                   <=> \E m \in Range(q.measures) : p \in Range(pair(m))
        BY <2>2, <2>3 DEF Range
    <2> QED  BY <2>1, <2>7, <2>8, <2>9
<1>4. /\ IsList(joined) /\ Range(joined) \subseteq Range(g)
      /\ \A r \in Range(joined) : Qualified(r)
    <2>1. \A i \in K : Qualified(g[i])
        OBVIOUS
    <2> HIDE DEF K
    <2>2. /\ joined \in Seq(Range(g))
          /\ \A x : x \in Range(joined) <=> \E i \in DOMAIN g : i \in K /\ x = g[i]
        BY <1>2, Kept DEF IsList
    <2> HIDE DEF joined
    <2> QED  BY <2>1, <2>2, SeqOfRange, RangeOfSeq DEF IsList
<1> HIDE DEF K, joined
<1>5. /\ IsList(ofJoined)
      /\ \A p \in Range(ofJoined) : \E r \in Range(Roles(q)) : Qualified(r) /\ p = <<r, r.col>>
    <2>1. IsList(ofJoined)
        BY <1>4, Listing
    <2>2. ASSUME NEW i \in DOMAIN joined
          PROVE  \E r \in Range(Roles(q)) : Qualified(r) /\ ofJoined[i] = <<r, r.col>>
        <3>1. joined[i] \in Range(Roles(q)) /\ Qualified(joined[i])
            BY <1>2, <1>4 DEF Range
        <3> QED  BY <3>1 DEF column_alias
    <2>3. DOMAIN ofJoined = DOMAIN joined
        OBVIOUS
    <2> HIDE DEF ofJoined
    <2> QED  BY <2>1, <2>2, <2>3 DEF Range
<1> HIDE DEF ofMeasures, ofJoined, pairs, pair
<1>6. /\ IsList(targets) /\ Len(targets) \in Nat /\ DOMAIN targets = 1 .. Len(targets)
      /\ Range(targets) = Range(ofMeasures) \cup Range(ofJoined)
    <2>1. IsList(targets) /\ Range(targets) = Range(ofMeasures) \cup Range(ofJoined)
        BY <1>3, <1>5, Concatenated
    <2> HIDE DEF targets
    <2> QED  BY <2>1, LenProperties DEF IsList
<1> HIDE DEF targets
<1>7. CASE I # {}
    <2>1. last \in I
        <3>1. I \subseteq 1 .. Len(targets)
            OBVIOUS
        <3> HIDE DEF I
        <3> QED  BY <1>6, <1>7, <3>1, LastOf
    <2>2. last # 0 /\ last \in DOMAIN targets /\ targets[last][1] = by
        BY <1>6, <2>1
    <2> HIDE DEF last
    <2>3. targets[last] \in Range(ofMeasures) \cup Range(ofJoined)
        BY <1>6, <2>2 DEF Range
    <2>4. OrderTarget(q, by) = targets[last][2]
        BY <1>1, <2>2
    <2>5. CASE targets[last] \in Range(ofMeasures)
        BY <1>3, <2>2, <2>4, <2>5 DEF NamesMeasure
    <2>6. CASE targets[last] \in Range(ofJoined)
        BY <1>5, <2>2, <2>4, <2>6
    <2> QED  BY <2>3, <2>5, <2>6
<1>8. CASE I = {}
    <2>1. OrderTarget(q, by) = by.col
        BY <1>1, <1>8
    <2>2. ASSUME NEW p \in Range(targets) PROVE p[1] # by
        <3>1. PICK i \in DOMAIN targets : targets[i] = p
            BY DEF Range
        <3> QED  BY <1>6, <1>8, <3>1
    <2>3. ASSUME NEW m \in Range(q.measures) PROVE ~NamesMeasure(by, m)
        <3>1. <<Bare(m.column), measure_alias(m)>> \in Range(targets)
            BY <1>3, <1>6
        <3>2. <<Bare(measure_alias(m)), measure_alias(m)>> \in Range(targets)
            BY <1>3, <1>6
        <3> QED  BY <2>2, <3>1, <3>2 DEF NamesMeasure
    <2> QED  BY <2>1, <2>3
<1> QED  BY <1>7, <1>8

\* What a reference of an accepted order binds to is an output.
LEMMA TargetIsOutput ==
    ASSUME NEW q, IsQuery(q), NEW by \in Orderable(q)
    PROVE  OrderTarget(q, by) \in Range(GroupAliases(q)) \cup Range(MeasureAliases(q))
<1> DEFINE Y == Range(GroupAliases(q)) \cup Range(MeasureAliases(q))
<1>1. /\ Range(GroupAliases(q)) = {r.col : r \in Range(Roles(q))}
      /\ Range(MeasureAliases(q)) = {measure_alias(m) : m \in Range(q.measures)}
      /\ Range(group_columns(q)) = Range(Roles(q))
    BY FieldsRange, RolesRange DEF IsQuery, QueryLists
<1>2. CASE OrderTarget(q, by) = by.col /\ \A m \in Range(q.measures) : ~NamesMeasure(by, m)
    <2>1. by \in Range(Roles(q)) \/ \E a \in Y : by = Bare(a)
        BY <1>1, <1>2 DEF Orderable, NamesMeasure
    <2>2. \A a : Bare(a).col = a
        BY DEF Bare
    <2> QED  BY <1>1, <1>2, <2>1, <2>2
<1>3. CASE \E m \in Range(q.measures) : NamesMeasure(by, m) /\ OrderTarget(q, by) = measure_alias(m)
    BY <1>1, <1>3
<1>4. CASE \E r \in Range(Roles(q)) : Qualified(r) /\ by = r /\ OrderTarget(q, by) = r.col
    BY <1>1, <1>4
<1> QED  BY <1>2, <1>3, <1>4, TargetOf

\* How a grouped SELECT writes a group column.
GroupedBy(q, r) == IF Grained(q) /\ r = q.dimensions[1] THEN GrainExpr(q) ELSE ColumnExpr(resolve(q, r))

\* The group columns as items.
GroupItems(q) ==
    [i \in DOMAIN group_columns(q) |-> Item(column_alias(group_columns(q)[i]), GroupedBy(q, group_columns(q)[i]))]

\* A statement with the clauses of a grouped SELECT, whatever its order.
Groups(s, q, ms) ==
    /\ s.table = q.table /\ s.sub = <<>> /\ s.joins = q.joins
    /\ s.items = GroupItems(q) \o ms
    /\ s.where = [i \in DOMAIN q.filters |-> FilterExpr(q, q.filters[i])]
    /\ s.group = [i \in DOMAIN group_columns(q) |-> GroupedBy(q, group_columns(q)[i])]

\* The order and the LIMIT leave the other clauses of a SELECT alone.
LEMMA SelectGroups ==
    ASSUME NEW q, NEW ms, NEW flat \in BOOLEAN, NEW b \in BOOLEAN
    PROVE  /\ Groups(GroupedSelect(q, ms), q, ms) /\ GroupedSelect(q, ms).order = <<>>
           /\ Groups(OrderAndLimit(GroupedSelect(q, ms), q, flat, b), q, ms)
<1> DEFINE G == GroupedSelect(q, ms)
<1>1. /\ Groups(G, q, ms) /\ G.order = <<>>
      /\ {"table", "sub", "joins", "items", "where", "group", "order", "limit"} \subseteq DOMAIN G
    BY DEF Groups, GroupedSelect, From, GroupItems, GroupedBy, Map, Filters
<1> HIDE DEF G
<1>2. Groups(OrderAndLimit(G, q, flat, b), q, ms)
    BY <1>1 DEF Groups, OrderAndLimit
<1> QED  BY <1>1, <1>2 DEF G

\* An item that aggregates a column of the query's table.
Aggregating(q, i) ==
    \E m : i.expr = MeasureExpr(q, m) /\ m.agg \in Aggregates /\ HasColumn(q.table, m.column)

\* The conditions of ResolvesIn but for the order.
Clauses(s) ==
    /\ IsInjective(Sources(s)) /\ IsInjective(Outputs(s))
    /\ \A j \in Range(s.joins) : Resolves(s, j.on_left) /\ Resolves(s, j.on_right)
    /\ \A e \in {i.expr : i \in Range(s.items)} \cup Range(s.where) \cup Range(s.group) :
          \A r \in Range(e.refs) : Resolves(s, r)
    /\ \A e \in Range(s.group) : \A r \in Range(e.refs) : ~Shadowed(s, r)
    /\ s.group # <<>> => \A i \in Range(s.items) : i.expr.f \in Aggregates \/ Contains(s.group, i.expr)

\* The grouped SELECT of a valid query that joins no table twice resolves,
\* when what it aggregates has names of its own.
LEMMA GroupedResolves ==
    ASSUME NEW q, IsQuery(q), Joinable(q.table, q.joins), ~JoinsTwice(q), IsInjective(GroupAliases(q)),
           \A r \in Range(Roles(q)) : Reads(q, r), \A f \in Range(q.filters) : Reads(q, f.column),
           NEW ms, Keyed(ms), Aliases(ms) \cap Range(GroupAliases(q)) = {},
           \A i \in Range(ms) : Aggregating(q, i),
           NEW s, Groups(s, q, ms)
    PROVE  /\ Clauses(s)
           /\ \A n : Contains(Outputs(s), n) <=> n \in Range(GroupAliases(q)) \cup Aliases(ms)
           /\ \A r \in Range(Roles(q)) : Contains(s.group, GroupedBy(q, r))
<1> DEFINE g == group_columns(q)
           G == GroupItems(q)
<1>1. IsList(g) /\ Range(g) = Range(Roles(q)) /\ IsList(q.filters)
    BY RolesRange DEF IsQuery, QueryLists
<1>2. /\ IsList(G) /\ DOMAIN G = DOMAIN g
      /\ \A i \in DOMAIN g : G[i].alias = g[i].col /\ G[i].expr = GroupedBy(q, g[i])
    BY <1>1, Listing DEF GroupItems, Item, column_alias
<1>3. DOMAIN GroupAliases(q) = DOMAIN g /\ \A i \in DOMAIN g : GroupAliases(q)[i] = g[i].col
    BY DEF GroupAliases, Map, column_alias
<1> HIDE DEF G, g
<1>4. Keyed(G)
    BY <1>2, <1>3 DEF Keyed, IsInjective
<1>5. Aliases(G) = Range(GroupAliases(q))
    BY <1>2, <1>3 DEF Aliases, Range
<1>6. /\ s.items = G \o ms /\ s.table = q.table /\ s.sub = <<>> /\ s.joins = q.joins
      /\ s.where = [i \in DOMAIN q.filters |-> FilterExpr(q, q.filters[i])]
      /\ s.group = [i \in DOMAIN g |-> GroupedBy(q, g[i])]
    BY DEF Groups, G, g
<1>7. /\ Keyed(s.items) /\ Aliases(s.items) = Range(GroupAliases(q)) \cup Aliases(ms)
      /\ Range(s.items) = Range(G) \cup Range(ms)
    BY <1>4, <1>5, <1>6, KeyedConcat, Concatenated DEF Keyed
<1>8. IsInjective(Outputs(s)) /\ \A n : Contains(Outputs(s), n) <=> n \in Range(GroupAliases(q)) \cup Aliases(ms)
    BY <1>7, KeyedOutputs
<1>9. IsInjective(Sources(s))
    BY <1>6, SourcesApart DEF JoinsTwice, Joinable
<1>10. \A j \in Range(s.joins) : Resolves(s, j.on_left) /\ Resolves(s, j.on_right)
    BY <1>6, JoinsResolve
<1>11. \A r : Reads(q, r) => Resolves(s, Qualify(r, q.table)) /\ Resolves(s, resolve(q, r))
    <2>1. \A x \in Range(s.sub) : FALSE
        BY <1>6, Tuples
    <2> QED  BY <1>6, <2>1, ReadsResolve
<1>12. ASSUME NEW r \in Range(Roles(q))
       PROVE  \E x : GroupedBy(q, r).refs = <<x>> /\ Resolves(s, x)
                        /\ x \in {Qualify(r, q.table), resolve(q, r)}
                        /\ (~Qualified(x) => GroupedBy(q, r) = ColumnExpr(x))
    <2>1. Resolves(s, Qualify(r, q.table)) /\ Resolves(s, resolve(q, r))
        BY <1>11
    <2>2. CASE Grained(q) /\ r = q.dimensions[1]
        <3>1. GroupedBy(q, r).refs = <<Qualify(r, q.table)>>
            BY <2>2 DEF GroupedBy, GrainExpr, Expr
        <3>2. Qualified(Qualify(r, q.table))
            BY DEF Joinable, Qualify, Qualified, Ref
        <3> QED  BY <2>1, <3>1, <3>2
    <2>3. CASE ~(Grained(q) /\ r = q.dimensions[1])
        <3>1. GroupedBy(q, r) = ColumnExpr(resolve(q, r))
            BY <2>3 DEF GroupedBy
        <3>2. GroupedBy(q, r).refs = <<resolve(q, r)>>
            BY <3>1 DEF ColumnExpr, Expr
        <3> QED  BY <2>1, <3>1, <3>2
    <2> QED  BY <2>2, <2>3
<1>13. ASSUME NEW i \in Range(ms) PROVE i.expr.f \in Aggregates /\ \A r \in Range(i.expr.refs) : Resolves(s, r)
    <2>1. PICK m : i.expr = MeasureExpr(q, m) /\ m.agg \in Aggregates /\ HasColumn(q.table, m.column)
        BY DEF Aggregating
    <2> DEFINE x == Bare(m.column)
    <2>2. i.expr.f = m.agg /\ i.expr.refs = <<resolve(q, x)>>
        BY <2>1 DEF MeasureExpr, Expr
    <2>3. Reads(q, x)
        BY <2>1 DEF Reads, Bare, Qualified
    <2> HIDE DEF x
    <2> QED  BY <1>11, <2>1, <2>2, <2>3, Tuples
<1>14. ASSUME NEW e \in Range(s.where), NEW r \in Range(e.refs) PROVE Resolves(s, r)
    <2>1. PICK k \in DOMAIN q.filters : e = FilterExpr(q, q.filters[k])
        BY <1>6 DEF Range
    <2> DEFINE x == q.filters[k].column
    <2>2. e.refs = <<resolve(q, x)>>
        BY <2>1 DEF FilterExpr, Expr
    <2>3. Reads(q, x)
        BY DEF Range
    <2> HIDE DEF x
    <2> QED  BY <1>11, <2>2, <2>3, Tuples
<1>15. \A e : e \in Range(s.group) <=> \E r \in Range(Roles(q)) : e = GroupedBy(q, r)
    <2>1. \A e : e \in Range(s.group) <=> \E i \in DOMAIN g : e = GroupedBy(q, g[i])
        BY <1>6 DEF Range
    <2> QED  BY <1>1, <2>1 DEF Range
<1>16. IsList(s.group)
    BY <1>1, <1>6, Listing
<1>17. \A r \in Range(Roles(q)) : Contains(s.group, GroupedBy(q, r))
    BY <1>15, <1>16, ContainsRange
<1>18. ASSUME NEW i \in Range(G) PROVE \E r \in Range(Roles(q)) : i.alias = r.col /\ i.expr = GroupedBy(q, r)
    <2>1. PICK k \in DOMAIN g : i = G[k]
        BY <1>2 DEF Range
    <2> QED  BY <1>1, <1>2, <2>1 DEF Range
<1>19. ASSUME NEW e \in {i.expr : i \in Range(s.items)} \cup Range(s.where) \cup Range(s.group),
              NEW r \in Range(e.refs)
       PROVE  Resolves(s, r)
    <2>1. CASE e \in Range(s.where)
        BY <1>14, <2>1
    <2>2. CASE \E x \in Range(Roles(q)) : e = GroupedBy(q, x)
        <3>1. PICK x \in Range(Roles(q)) : e = GroupedBy(q, x)
            BY <2>2
        <3>2. PICK z : e.refs = <<z>> /\ Resolves(s, z)
            BY <1>12, <3>1
        <3>3. r = z
            BY <3>2, Tuples
        <3> QED  BY <3>2, <3>3
    <2>3. CASE \E i \in Range(ms) : e = i.expr
        BY <1>13, <2>3
    <2> QED  BY <1>7, <1>15, <1>18, <2>1, <2>2, <2>3
<1>20. ASSUME NEW e \in Range(s.group), NEW r \in Range(e.refs) PROVE ~Shadowed(s, r)
    <2>1. PICK y \in Range(Roles(q)) : e = GroupedBy(q, y)
        BY <1>15
    <2>2. /\ r \in {Qualify(y, q.table), resolve(q, y)}
          /\ ~Qualified(r) => e = ColumnExpr(r)
        <3>1. PICK z : /\ e.refs = <<z>> /\ z \in {Qualify(y, q.table), resolve(q, y)}
                       /\ ~Qualified(z) => e = ColumnExpr(z)
            BY <1>12, <2>1
        <3>2. r = z
            BY <3>1, Tuples
        <3> QED  BY <3>1, <3>2
    <2> SUFFICES ASSUME ~Qualified(r), NEW i \in Range(s.items), i.alias = r.col PROVE i.expr = ColumnExpr(r)
        BY DEF Shadowed
    <2>3. r.col = y.col
        BY <2>2 DEF Qualify, resolve, Ref
    <2>4. CASE i \in Range(G)
        <3>1. PICK k \in DOMAIN g : i = G[k]
            BY <1>2, <2>4 DEF Range
        <3>2. PICK l \in DOMAIN g : y = g[l]
            BY <1>1 DEF Range
        <3>3. k = l
            BY <1>2, <1>4, <2>3, <3>1, <3>2 DEF Keyed
        <3> QED  BY <1>2, <2>1, <2>2, <3>1, <3>2, <3>3
    <2>5. CASE i \in Range(ms)
        <3>1. r.col \in Range(GroupAliases(q))
            BY <2>3, FieldsRange
        <3> QED  BY <2>5, <3>1 DEF Aliases
    <2> QED  BY <1>7, <2>4, <2>5
<1>21. \A i \in Range(s.items) : i.expr.f \in Aggregates \/ Contains(s.group, i.expr)
    BY <1>7, <1>13, <1>17, <1>18
<1> QED  BY <1>8, <1>9, <1>10, <1>17, <1>19, <1>20, <1>21 DEF Clauses

\* A plain chart: an order on an output or on the truncated time.
LEMMA FlatPlans ==
    ASSUME NEW c, IsQuery(c.query), NEW target, ChartOk(c, target, TRUE), ~IsRaw(c.query),
           ~JoinsTwice(c.query)
    PROVE  Plannable(FlatSql(c.query, TRUE))
<1> DEFINE q == c.query
           ms == [i \in DOMAIN q.measures |-> Item(measure_alias(q.measures[i]), MeasureExpr(q, q.measures[i]))]
           s == OrderAndLimit(GroupedSelect(q, ms), q, TRUE, TRUE)
<1>1. FlatSql(q, TRUE) = s
    BY DEF FlatSql, Map
<1>2. /\ Joinable(q.table, q.joins)
      /\ \A r \in Range(Roles(q)) : Reads(q, r)
      /\ \A f \in Range(q.filters) : Reads(q, f.column)
      /\ \A m \in Range(q.measures) : HasColumn(q.table, m.column)
      /\ IsInjective(GroupAliases(q)) /\ IsInjective(MeasureAliases(q))
      /\ Range(GroupAliases(q)) \cap Range(MeasureAliases(q)) = {}
    BY ValidReads
<1>3. IsList(q.measures) /\ IsList(q.order_by)
    BY DEF IsQuery, QueryLists
<1>4. /\ IsList(ms) /\ DOMAIN ms = DOMAIN q.measures
      /\ \A i \in DOMAIN ms : /\ ms[i].alias = measure_alias(q.measures[i])
                              /\ ms[i].expr = MeasureExpr(q, q.measures[i])
    BY <1>3, Listing DEF Item
<1> HIDE DEF ms
<1>5. DOMAIN MeasureAliases(q) = DOMAIN ms /\ \A i \in DOMAIN ms : MeasureAliases(q)[i] = ms[i].alias
    BY <1>4 DEF MeasureAliases, Map
<1>6. Keyed(ms) /\ Aliases(ms) = Range(MeasureAliases(q))
    BY <1>2, <1>4, <1>5 DEF Keyed, IsInjective, Aliases, Range
<1>7. ASSUME NEW i \in Range(ms) PROVE Aggregating(q, i)
    <2>1. PICK k \in DOMAIN ms : i = ms[k]
        BY DEF Range
    <2>2. q.measures[k] \in Range(q.measures)
        BY <1>4 DEF Range
    <2> QED  BY <1>2, <1>4, <2>1, <2>2 DEF Aggregating, IsQuery, IsMeasure
<1>8. Groups(s, q, ms)
    BY SelectGroups
<1> HIDE DEF s, q
<1>9. /\ Clauses(s)
      /\ \A n : Contains(Outputs(s), n) <=> n \in Range(GroupAliases(q)) \cup Range(MeasureAliases(q))
      /\ \A r \in Range(Roles(q)) : Contains(s.group, GroupedBy(q, r))
    BY <1>2, <1>6, <1>7, <1>8, GroupedResolves DEF q
<1>10. ASSUME NEW o \in Range(s.order)
       PROVE  IF o.on.f = "alias" THEN Contains(Outputs(s), o.on.refs[1].col) ELSE Contains(s.group, o.on)
    <2> DEFINE sort(by) == IF TRUE /\ Grained(q) /\ OrderTarget(q, by) = column_alias(q.dimensions[1])
                           THEN GrainExpr(q) ELSE Expr("alias", <<Bare(OrderTarget(q, by))>>, <<>>)
    <2>1. "order" \in DOMAIN GroupedSelect(q, ms)
        BY DEF GroupedSelect, From
    <2>2. s.order = [i \in DOMAIN q.order_by |-> [on |-> sort(q.order_by[i].by), desc |-> q.order_by[i].desc]]
        BY <2>1 DEF s, OrderAndLimit, Map
    <2>3. PICK k \in DOMAIN q.order_by : o.on = sort(q.order_by[k].by)
        BY <2>2 DEF Range
    <2> DEFINE by == q.order_by[k].by
    <2>4. by \in Orderable(q)
        BY DEF ChartOk, Range, q
    <2>5. OrderTarget(q, by) \in Range(GroupAliases(q)) \cup Range(MeasureAliases(q))
        BY <2>4, TargetIsOutput DEF q
    <2> HIDE DEF by
    <2>6. CASE Grained(q) /\ OrderTarget(q, by) = column_alias(q.dimensions[1])
        <3>1. o.on = GrainExpr(q) /\ o.on.f = q.time_grain
            BY <2>3, <2>6 DEF by, GrainExpr, Expr
        <3>2. q.time_grain # "alias"
            BY DEF IsQuery, q
        <3>3. q.dimensions[1] \in Range(Roles(q)) /\ GroupedBy(q, q.dimensions[1]) = GrainExpr(q)
            <4>1. q.dimensions # <<>> /\ IsList(q.dimensions)
                BY <2>6 DEF Grained, IsQuery, QueryLists, q
            <4>2. q.dimensions[1] \in Range(q.dimensions)
                <5>1. Len(q.dimensions) # 0 /\ Len(q.dimensions) \in Nat /\ DOMAIN q.dimensions = 1 .. Len(q.dimensions)
                    BY <4>1, EmptySeq, LenProperties DEF IsList
                <5> QED  BY <5>1 DEF Range
            <4>3. Range(q.dimensions) \subseteq Range(Roles(q))
                BY RolesRange DEF IsQuery, QueryLists, q
            <4> QED  BY <2>6, <4>2, <4>3 DEF GroupedBy
        <3> QED  BY <1>9, <3>1, <3>2, <3>3
    <2>7. CASE ~(Grained(q) /\ OrderTarget(q, by) = column_alias(q.dimensions[1]))
        <3>1. o.on = Expr("alias", <<Bare(OrderTarget(q, by))>>, <<>>)
            BY <2>3, <2>7 DEF by
        <3>2. o.on.f = "alias" /\ o.on.refs[1].col = OrderTarget(q, by)
            BY <3>1 DEF Expr, Bare
        <3> QED  BY <1>9, <2>5, <3>2
    <2> QED  BY <2>6, <2>7
<1>11. s.sub = <<>>
    BY <1>8 DEF Groups
<1>12. \A x \in Range(s.sub) : FALSE
    BY <1>11, Tuples
<1> QED  BY <1>1, <1>9, <1>10, <1>12 DEF Plannable, ResolvesIn, Clauses, q

\* A statement over one subquery resolves when it reads what that returns.
LEMMA OverSubquery ==
    ASSUME NEW s, s.table = NoTable, s.joins = <<>>, s.where = <<>>, s.group = <<>>,
           NEW x, s.sub = <<x>>, Keyed(s.items),
           \A i \in Range(s.items) : \A r \in Range(i.expr.refs) :
               ~Qualified(r) /\ Contains(Outputs(x.stmt), r.col),
           \A o \in Range(s.order) : o.on.f = "alias" /\ Contains(Outputs(s), o.on.refs[1].col)
    PROVE  ResolvesIn(s) /\ Range(s.sub) = {x}
<1>1. IsInjective(Sources(s))
    <2> DEFINE none == Map(LAMBDA j : j.table, <<>>)
    <2>1. Sources(s) = <<>> \o none
        BY DEF Sources
    <2>2. none = <<>>
        BY DEF Map
    <2>3. <<>> \o <<>> = <<>>
        OBVIOUS
    <2> HIDE DEF none
    <2>4. Sources(s) = <<>>
        BY <2>1, <2>2, <2>3
    <2> QED  BY <2>4 DEF IsInjective
<1>2. IsInjective(Outputs(s))
    BY KeyedOutputs
<1>3. Range(s.joins) = {} /\ Range(s.where) = {} /\ Range(s.group) = {} /\ Range(s.sub) = {x}
    BY Tuples
<1>4. \A i \in Range(s.items) : \A r \in Range(i.expr.refs) : Resolves(s, r)
    BY OuterResolves
<1> QED  BY <1>1, <1>2, <1>3, <1>4 DEF ResolvesIn

\* The first dimension is one of the group columns.
LEMMA FirstGroups ==
    ASSUME NEW q, IsQuery(q), q.dimensions # <<>>
    PROVE  q.dimensions[1] \in Range(Roles(q))
<1>1. IsList(q.dimensions)
    BY DEF IsQuery, QueryLists
<1>2. Len(q.dimensions) # 0 /\ Len(q.dimensions) \in Nat /\ DOMAIN q.dimensions = 1 .. Len(q.dimensions)
    BY <1>1, EmptySeq, LenProperties DEF IsList
<1>3. q.dimensions[1] \in Range(q.dimensions)
    BY <1>2 DEF Range
<1> QED  BY <1>3, RolesRange DEF IsQuery, QueryLists

\* The aggregates a window reads: one of each measure, and its denominator.
Feeds(q, i) ==
    <<Item(Src(i), MeasureExpr(q, q.measures[i]))>>
        \o [j \in DOMAIN q.measures[i].denominator |-> Item(Den(i), MeasureExpr(q, q.measures[i].denominator[j]))]

AllFeeds(q) == FlattenSeq([i \in DOMAIN q.measures |-> Feeds(q, i)])

LEMMA FeedsOf ==
    ASSUME NEW q, IsQuery(q), NEW i \in DOMAIN q.measures,
           \A m \in Range(q.measures) : /\ HasColumn(q.table, m.column)
                                        /\ \A d \in Range(m.denominator) : HasColumn(q.table, d.column)
    PROVE  /\ Keyed(Feeds(q, i))
           /\ Src(i) \in Aliases(Feeds(q, i)) /\ Aliases(Feeds(q, i)) \subseteq {Src(i), Den(i)}
           /\ q.measures[i].denominator # <<>> => Den(i) \in Aliases(Feeds(q, i))
           /\ \A x \in Range(Feeds(q, i)) : Aggregating(q, x)
<1> DEFINE m == q.measures[i]
           first == Item(Src(i), MeasureExpr(q, m))
           head == <<first>>
           dens == [j \in DOMAIN m.denominator |-> Item(Den(i), MeasureExpr(q, m.denominator[j]))]
<1>1. Feeds(q, i) = head \o dens
    BY DEF Feeds
<1>2. m \in Range(q.measures)
    BY DEF Range
<1> HIDE DEF m
<1>3. /\ m.agg \in Aggregates /\ IsList(m.denominator) /\ Len(m.denominator) <= 1
      /\ \A d \in Range(m.denominator) : d.agg \in Aggregates
    BY <1>2 DEF IsQuery, IsMeasure
<1>4. first.alias = Src(i) /\ first.expr = MeasureExpr(q, m)
    BY DEF Item
<1>5. IsList(dens) /\ DOMAIN dens = DOMAIN m.denominator
    BY <1>3, Listing
<1>6. \A j \in DOMAIN dens : dens[j].alias = Den(i) /\ dens[j].expr = MeasureExpr(q, m.denominator[j])
    BY DEF Item
<1>7. \A j, k \in DOMAIN dens : j = k
    <2>1. Len(m.denominator) \in Nat /\ DOMAIN dens = 1 .. Len(m.denominator)
        BY <1>3, <1>5, LenProperties DEF IsList
    <2> DEFINE n == Len(m.denominator)
    <2>2. n \in Nat /\ n <= 1 /\ DOMAIN dens = 1 .. n
        BY <1>3, <2>1
    <2> HIDE DEF n, dens
    <2> QED  BY <2>2
<1> HIDE DEF first, dens
<1>8. IsList(head) /\ Range(head) = {first} /\ DOMAIN head = {1}
    BY Tuples
<1> HIDE DEF head
<1>9. Keyed(head) /\ Keyed(dens)
    BY <1>5, <1>7, <1>8 DEF Keyed
<1>10. Aliases(head) = {Src(i)} /\ Aliases(dens) \subseteq {Den(i)}
    BY <1>4, <1>6, <1>8 DEF Aliases, Range
<1>11. Src(i) # Den(i)
    BY DEF Src, Den
<1>12. /\ Keyed(Feeds(q, i)) /\ Aliases(Feeds(q, i)) = Aliases(head) \cup Aliases(dens)
       /\ Range(Feeds(q, i)) = Range(head) \cup Range(dens)
    <2>1. Aliases(head) \cap Aliases(dens) = {}
        BY <1>10, <1>11
    <2>2. Keyed(head \o dens) /\ Aliases(head \o dens) = Aliases(head) \cup Aliases(dens)
        BY <1>9, <2>1, KeyedConcat
    <2>3. Range(head \o dens) = Range(head) \cup Range(dens)
        BY <1>5, <1>8, Concatenated
    <2> QED  BY <1>1, <2>2, <2>3
<1>13. ASSUME m.denominator # <<>> PROVE Den(i) \in Aliases(dens)
    <2>1. Len(m.denominator) # 0 /\ Len(m.denominator) \in Nat /\ DOMAIN m.denominator = 1 .. Len(m.denominator)
        BY <1>3, <1>13, EmptySeq, LenProperties DEF IsList
    <2>2. 1 \in DOMAIN dens
        BY <1>5, <2>1
    <2> QED  BY <1>6, <2>2 DEF Aliases, Range
<1>14. Aggregating(q, first)
    BY <1>2, <1>3, <1>4 DEF Aggregating
<1>15. ASSUME NEW j \in DOMAIN dens PROVE Aggregating(q, dens[j])
    <2>1. m.denominator[j] \in Range(m.denominator)
        BY <1>5 DEF Range
    <2> QED  BY <1>2, <1>3, <1>6, <2>1 DEF Aggregating
<1>16. \A x \in Range(Feeds(q, i)) : Aggregating(q, x)
    BY <1>8, <1>12, <1>14, <1>15 DEF Range
<1> QED  BY <1>10, <1>12, <1>13, <1>16 DEF m

\* Together they are named apart.
LEMMA FeedsApart ==
    ASSUME NEW q, IsQuery(q),
           \A m \in Range(q.measures) : /\ HasColumn(q.table, m.column)
                                        /\ \A d \in Range(m.denominator) : HasColumn(q.table, d.column)
    PROVE  /\ Keyed(AllFeeds(q))
           /\ \A a \in Aliases(AllFeeds(q)) : \E i \in DOMAIN q.measures : a \in {Src(i), Den(i)}
           /\ \A i \in DOMAIN q.measures :
                 /\ Src(i) \in Aliases(AllFeeds(q))
                 /\ q.measures[i].denominator # <<>> => Den(i) \in Aliases(AllFeeds(q))
           /\ \A x \in Range(AllFeeds(q)) : Aggregating(q, x)
<1> DEFINE ss == [i \in DOMAIN q.measures |-> Feeds(q, i)]
           S == UNION {Range(ss[i]) : i \in DOMAIN ss}
<1>1. IsList(q.measures)
    BY DEF IsQuery, QueryLists
<1>2. IsList(ss) /\ DOMAIN ss = DOMAIN q.measures
    BY <1>1, Listing
<1>3. \A i \in DOMAIN ss :
         /\ Keyed(ss[i])
         /\ Src(i) \in Aliases(ss[i]) /\ Aliases(ss[i]) \subseteq {Src(i), Den(i)}
         /\ q.measures[i].denominator # <<>> => Den(i) \in Aliases(ss[i])
         /\ \A x \in Range(ss[i]) : Aggregating(q, x)
    BY <1>2, FeedsOf
<1>4. AllFeeds(q) = FlattenSeq(ss)
    BY DEF AllFeeds
<1> HIDE DEF ss
<1>5. \A i \in DOMAIN ss : ss[i] \in Seq(S)
    BY <1>3, SeqMonotonic DEF Keyed, IsList
<1>6. Len(ss) \in Nat /\ DOMAIN ss = 1 .. Len(ss) /\ ss \in [DOMAIN ss -> Range(ss)]
    BY <1>2, LenProperties DEF IsList
<1> HIDE DEF S
<1>7. ss \in Seq(Seq(S))
    <2>1. ss \in [1 .. Len(ss) -> Seq(S)]
        BY <1>5, <1>6
    <2> QED  BY <1>6, <2>1
<1>8. \A i, j \in DOMAIN ss : i # j => Aliases(ss[i]) \cap Aliases(ss[j]) = {}
    <2>1. \A i, j : i # j => {Src(i), Den(i)} \cap {Src(j), Den(j)} = {}
        BY DEF Src, Den
    <2> QED  BY <1>3, <2>1
<1>9. /\ Keyed(FlattenSeq(ss))
      /\ \A a : a \in Aliases(FlattenSeq(ss)) <=> \E i \in DOMAIN ss : a \in Aliases(ss[i])
    BY <1>3, <1>7, <1>8, KeyedFlatten
<1>10. \A x : x \in Range(FlattenSeq(ss)) <=> \E i \in 1 .. Len(ss) : x \in Range(ss[i])
    BY <1>7, FlattenRange
<1> QED  BY <1>2, <1>3, <1>4, <1>6, <1>9, <1>10

\* What the outer SELECT reads of an accepted measure, the inner one returns:
\* an ordered window has a first dimension to order by (ir/validate.py).
LEMMA OuterReads ==
    ASSUME NEW c, IsQuery(c.query), NEW target, ChartOk(c, target, TRUE), ~IsRaw(c.query),
           NEW i \in DOMAIN c.query.measures, NEW r \in Range(OuterMeasure(c.query, i).expr.refs)
    PROVE  /\ ~Qualified(r)
           /\ \/ r.col = Src(i)
              \/ r.col = Den(i) /\ c.query.measures[i].denominator # <<>>
              \/ r.col \in Range(GroupAliases(c.query))
<1> DEFINE q == c.query
           m == q.measures[i]
           expr == OuterMeasure(q, i).expr
<1>1. m \in Range(q.measures)
    BY DEF Range
<1>2. \A a : ~Qualified(Bare(a)) /\ Bare(a).col = a
    BY DEF Qualified, Bare
<1>3. CASE m.denominator # <<>>
    <2>1. m.transform = "none"
        BY <1>1, <1>3 DEF ChartOk, RatiosOk
    <2>3. expr.refs = <<Bare(Src(i)), Bare(Den(i))>>
        BY <1>3, <2>1 DEF OuterMeasure, Item, Expr
    <2> HIDE DEF expr, m
    <2>2. r \in {Bare(Src(i)), Bare(Den(i))}
        BY <2>3, Tuples DEF expr
    <2> QED  BY <1>2, <1>3, <2>2 DEF m
<1>4. CASE m.denominator = <<>> /\ m.transform = "none"
    <2>1. expr.refs = <<Bare(Src(i))>>
        BY <1>4 DEF OuterMeasure, Item, ColumnExpr, Expr
    <2> HIDE DEF expr, m
    <2>2. r = Bare(Src(i))
        BY <2>1, Tuples DEF expr
    <2> QED  BY <1>2, <2>2
<1>5. CASE m.denominator = <<>> /\ m.transform # "none" /\ ~Ordered(m.transform)
    <2>1. expr.refs = <<Bare(Src(i))>>
        BY <1>5 DEF OuterMeasure, WindowExpr, Item, Expr
    <2> HIDE DEF expr, m
    <2>2. r = Bare(Src(i))
        BY <2>1, Tuples DEF expr
    <2> QED  BY <1>2, <2>2
<1>6. CASE m.denominator = <<>> /\ Ordered(m.transform)
    <2>1. m.transform # "none"
        BY <1>6 DEF Ordered
    <2>2. expr.refs = <<Bare(Src(i)), Bare(column_alias(q.dimensions[1]))>>
        BY <1>6, <2>1 DEF OuterMeasure, WindowExpr, Item, Expr
    <2>3. m.transform \in {"pop_abs", "pop_pct", "yoy_pct", "running_total"}
        BY <1>1, <1>6 DEF Ordered, IsQuery, IsMeasure
    <2>4. FirstIsTime(q)
        BY <1>1, <2>1, <2>3 DEF ChartOk, TransformsOk
    <2>5. q.dimensions[1] \in Range(Roles(q))
        BY <2>4, FirstGroups DEF FirstIsTime
    <2>6. q.dimensions[1].col \in Range(GroupAliases(q))
        BY <2>5, FieldsRange
    <2> HIDE DEF expr, m
    <2>7. r \in {Bare(Src(i)), Bare(column_alias(q.dimensions[1]))}
        BY <2>2, Tuples DEF expr
    <2> QED  BY <1>2, <2>6, <2>7 DEF column_alias
<1> QED  BY <1>3, <1>4, <1>5, <1>6

\* Shares and running totals: the outer SELECT reads what the inner returns.
LEMMA WindowedPlans ==
    ASSUME NEW c, IsQuery(c.query), NEW target, ChartOk(c, target, TRUE), ~IsRaw(c.query),
           ~JoinsTwice(c.query), ~TakesGivenName(c.query), \E m \in Range(c.query.measures) : is_derived(m)
    PROVE  Plannable(WindowedSql(c.query, TRUE))
<1> DEFINE q == c.query
           ms == AllFeeds(q)
           inner == GroupedSelect(q, ms)
           x == [as |-> <<"t">>, stmt |-> inner]
           g == group_columns(q)
           dims == [i \in DOMAIN g |-> Item(column_alias(g[i]), ColumnExpr(Bare(column_alias(g[i]))))]
           outer == [i \in DOMAIN q.measures |-> OuterMeasure(q, i)]
           s == WindowedSql(q, TRUE)
           sort(by) == IF FALSE /\ Grained(q) /\ OrderTarget(q, by) = column_alias(q.dimensions[1])
                       THEN GrainExpr(q) ELSE Expr("alias", <<Bare(OrderTarget(q, by))>>, <<>>)
<1>1. /\ Joinable(q.table, q.joins)
      /\ \A r \in Range(Roles(q)) : Reads(q, r)
      /\ \A f \in Range(q.filters) : Reads(q, f.column)
      /\ \A m \in Range(q.measures) : /\ HasColumn(q.table, m.column)
                                      /\ \A d \in Range(m.denominator) : HasColumn(q.table, d.column)
      /\ IsInjective(GroupAliases(q)) /\ IsInjective(MeasureAliases(q))
      /\ Range(GroupAliases(q)) \cap Range(MeasureAliases(q)) = {}
    BY ValidReads
<1>2. WindowedSelect(q) = [From(NoTable) EXCEPT !.sub = <<x>>, !.items = dims \o outer]
    BY DEF WindowedSelect, Map, AllFeeds, Feeds
<1>3. /\ s.table = NoTable /\ s.joins = <<>> /\ s.where = <<>> /\ s.group = <<>> /\ s.sub = <<x>>
      /\ s.items = dims \o outer
      /\ s.order = [i \in DOMAIN q.order_by |-> [on |-> sort(q.order_by[i].by), desc |-> q.order_by[i].desc]]
    <2>1. /\ WindowedSelect(q).table = NoTable /\ WindowedSelect(q).joins = <<>>
          /\ WindowedSelect(q).where = <<>> /\ WindowedSelect(q).group = <<>>
          /\ WindowedSelect(q).sub = <<x>> /\ WindowedSelect(q).items = dims \o outer
          /\ {"table", "sub", "joins", "items", "where", "group", "order", "limit"}
                \subseteq DOMAIN WindowedSelect(q)
        BY <1>2 DEF From
    <2> HIDE DEF x, dims, outer
    <2> QED  BY <2>1 DEF WindowedSql, OrderAndLimit, Map
<1>4. /\ Keyed(ms)
      /\ \A a \in Aliases(ms) : \E i \in DOMAIN q.measures : a \in {Src(i), Den(i)}
      /\ \A i \in DOMAIN q.measures :
            /\ Src(i) \in Aliases(ms)
            /\ q.measures[i].denominator # <<>> => Den(i) \in Aliases(ms)
      /\ \A y \in Range(ms) : Aggregating(q, y)
    BY <1>1, FeedsApart
<1>5. Groups(inner, q, ms) /\ inner.order = <<>>
    BY SelectGroups
<1> HIDE DEF ms, inner
<1>6. Aliases(ms) \cap Range(GroupAliases(q)) = {}
    BY <1>4 DEF TakesGivenName
<1>7. /\ Clauses(inner)
      /\ \A n : Contains(Outputs(inner), n) <=> n \in Range(GroupAliases(q)) \cup Aliases(ms)
    BY <1>1, <1>4, <1>5, <1>6, GroupedResolves
<1>8. ResolvesIn(inner)
    <2>1. Range(inner.order) = {}
        BY <1>5, Tuples
    <2> QED  BY <1>7, <2>1 DEF ResolvesIn, Clauses
<1>9. /\ IsList(g) /\ IsList(q.measures)
      /\ \A i \in DOMAIN g : GroupAliases(q)[i] = g[i].col /\ DOMAIN GroupAliases(q) = DOMAIN g
      /\ \A i \in DOMAIN q.measures : MeasureAliases(q)[i] = measure_alias(q.measures[i])
      /\ DOMAIN MeasureAliases(q) = DOMAIN q.measures
    BY RolesRange DEF IsQuery, QueryLists, GroupAliases, MeasureAliases, Map, column_alias
<1>10. /\ Keyed(dims) /\ Aliases(dims) = Range(GroupAliases(q))
       /\ \A i \in Range(dims) : \A r \in Range(i.expr.refs) : ~Qualified(r) /\ r.col \in Range(GroupAliases(q))
    <2>1. /\ IsList(dims) /\ DOMAIN dims = DOMAIN g
          /\ \A i \in DOMAIN g : dims[i].alias = g[i].col /\ dims[i].expr.refs = <<Bare(g[i].col)>>
        BY <1>9, Listing DEF Item, ColumnExpr, Expr, column_alias
    <2> HIDE DEF dims, g
    <2>2. Keyed(dims)
        BY <1>1, <1>9, <2>1 DEF Keyed, IsInjective
    <2>3. DOMAIN GroupAliases(q) = DOMAIN g /\ \A i \in DOMAIN g : GroupAliases(q)[i] = g[i].col
        BY DEF GroupAliases, Map, column_alias, g
    <2>4. Aliases(dims) = Range(GroupAliases(q))
        BY <2>1, <2>3 DEF Aliases, Range
    <2>5. ASSUME NEW k \in DOMAIN g, NEW r \in Range(dims[k].expr.refs)
          PROVE  ~Qualified(r) /\ r.col \in Range(GroupAliases(q))
        <3>1. r = Bare(g[k].col)
            <4>1. dims[k].expr.refs = <<Bare(g[k].col)>>
                BY <2>1
            <4> QED  BY <4>1, Tuples
        <3>2. g[k].col \in Range(GroupAliases(q))
            BY <2>3 DEF Range
        <3> QED  BY <3>1, <3>2 DEF Bare, Qualified
    <2> QED  BY <2>1, <2>2, <2>4, <2>5 DEF Range
<1>11. /\ Keyed(outer) /\ Aliases(outer) = Range(MeasureAliases(q))
       /\ \A i \in Range(outer) : \A r \in Range(i.expr.refs) : ~Qualified(r) /\ Contains(Outputs(inner), r.col)
    <2>1. IsList(outer) /\ DOMAIN outer = DOMAIN q.measures
        BY <1>9, Listing
    <2>2. \A i \in DOMAIN q.measures : outer[i] = OuterMeasure(q, i)
        OBVIOUS
    <2>3. \A i : OuterMeasure(q, i).alias = measure_alias(q.measures[i])
        BY DEF OuterMeasure, Item
    <2> HIDE DEF outer
    <2>4. Keyed(outer)
        BY <1>1, <1>9, <2>1, <2>2, <2>3 DEF Keyed, IsInjective
    <2>5. Aliases(outer) = Range(MeasureAliases(q))
        BY <1>9, <2>1, <2>2, <2>3 DEF Aliases, Range
    <2>6. ASSUME NEW i \in DOMAIN q.measures, NEW r \in Range(OuterMeasure(q, i).expr.refs)
          PROVE  ~Qualified(r) /\ Contains(Outputs(inner), r.col)
        BY <1>4, <1>7, OuterReads
    <2> QED  BY <2>1, <2>2, <2>4, <2>5, <2>6 DEF Range
<1> HIDE DEF dims, outer, s, g
<1>12. /\ Keyed(s.items) /\ Aliases(s.items) = Range(GroupAliases(q)) \cup Range(MeasureAliases(q))
       /\ Range(s.items) = Range(dims) \cup Range(outer)
    BY <1>1, <1>3, <1>10, <1>11, KeyedConcat, Concatenated DEF Keyed
<1>13. ASSUME NEW o \in Range(s.order) PROVE o.on.f = "alias" /\ Contains(Outputs(s), o.on.refs[1].col)
    <2>1. PICK k \in DOMAIN q.order_by : o.on = sort(q.order_by[k].by)
        BY <1>3 DEF Range
    <2> DEFINE by == q.order_by[k].by
    <2>2. by \in Orderable(q)
        BY DEF ChartOk, Range
    <2>3. OrderTarget(q, by) \in Range(GroupAliases(q)) \cup Range(MeasureAliases(q))
        BY <2>2, TargetIsOutput
    <2>4. o.on = Expr("alias", <<Bare(OrderTarget(q, by))>>, <<>>)
        BY <2>1
    <2> HIDE DEF by
    <2>5. o.on.f = "alias" /\ o.on.refs[1].col = OrderTarget(q, by)
        BY <2>4 DEF Expr, Bare
    <2> QED  BY <1>12, <2>3, <2>5, KeyedOutputs
<1>14. \A i \in Range(s.items) : \A r \in Range(i.expr.refs) : ~Qualified(r) /\ Contains(Outputs(x.stmt), r.col)
    BY <1>7, <1>10, <1>11, <1>12
<1>15. x.stmt = inner
    OBVIOUS
<1> HIDE DEF x, sort
<1>16. ResolvesIn(s) /\ Range(s.sub) = {x}
    BY <1>3, <1>12, <1>13, <1>14, OverSubquery
<1> QED  BY <1>8, <1>15, <1>16 DEF Plannable, s

\* The scaling of DataLens reads every field of the statement it wraps, by name.
LEMMA ScaledPlans ==
    ASSUME NEW c, IsQuery(c.query), NEW target, ChartOk(c, target, TRUE), ~IsRaw(c.query),
           NEW stmt, ResolvesIn(stmt), IsList(Outputs(stmt)),
           Range(Outputs(stmt)) = Range(GroupAliases(c.query)) \cup Range(MeasureAliases(c.query))
    PROVE  Plannable(ScaleMeasures(stmt, c.query))
<1> DEFINE q == c.query
           names == GroupAliases(q) \o MeasureAliases(q)
           targets == {measure_alias(m) : m \in {y \in Range(q.measures) : is_compact_number(y)}}
           out(a) == Item(a, IF a \in targets THEN Expr("scaled", <<Bare(a)>>, <<>>) ELSE ColumnExpr(Bare(a)))
           items == [i \in DOMAIN names |-> out(names[i])]
           x == [as |-> <<"auto_bi_scaled">>, stmt |-> stmt]
           s == ScaleMeasures(stmt, q)
<1>1. s = [From(NoTable) EXCEPT !.sub = <<x>>, !.items = items]
    BY DEF ScaleMeasures, Map
<1>2. /\ s.table = NoTable /\ s.joins = <<>> /\ s.where = <<>> /\ s.group = <<>> /\ s.sub = <<x>>
      /\ s.order = <<>> /\ s.items = items
    BY <1>1 DEF From
<1>3. /\ IsInjective(GroupAliases(q)) /\ IsInjective(MeasureAliases(q))
      /\ Range(GroupAliases(q)) \cap Range(MeasureAliases(q)) = {}
      /\ IsList(GroupAliases(q)) /\ IsList(MeasureAliases(q))
    BY ValidReads, FieldsRange
<1>4. \A a : out(a).alias = a /\ out(a).expr.refs = <<Bare(a)>>
    BY DEF Item, Expr, ColumnExpr
<1> HIDE DEF out, targets
<1> DEFINE G == [i \in DOMAIN GroupAliases(q) |-> out(GroupAliases(q)[i])]
           M == [i \in DOMAIN MeasureAliases(q) |-> out(MeasureAliases(q)[i])]
<1>5. /\ Keyed(G) /\ Keyed(M) /\ Len(G) = Len(GroupAliases(q)) /\ Len(M) = Len(MeasureAliases(q))
      /\ Aliases(G) = Range(GroupAliases(q)) /\ Aliases(M) = Range(MeasureAliases(q))
    <2>1. IsList(G) /\ DOMAIN G = DOMAIN GroupAliases(q) /\ Len(G) = Len(GroupAliases(q))
        BY <1>3, Listing
    <2>2. IsList(M) /\ DOMAIN M = DOMAIN MeasureAliases(q) /\ Len(M) = Len(MeasureAliases(q))
        BY <1>3, Listing
    <2>3. \A i \in DOMAIN GroupAliases(q) : G[i].alias = GroupAliases(q)[i]
        BY <1>4
    <2>4. \A i \in DOMAIN MeasureAliases(q) : M[i].alias = MeasureAliases(q)[i]
        BY <1>4
    <2> HIDE DEF G, M
    <2> QED  BY <1>3, <2>1, <2>2, <2>3, <2>4 DEF Keyed, IsInjective, Aliases, Range
<1>6. items = G \o M
    <2> DEFINE A == Range(GroupAliases(q)) \cup Range(MeasureAliases(q))
               B == Range(G) \cup Range(M)
               a == GroupAliases(q)
               d == MeasureAliases(q)
    <2>1. a \in Seq(A) /\ d \in Seq(A)
        BY <1>3, SeqMonotonic DEF IsList
    <2>2. G \in Seq(B) /\ M \in Seq(B)
        <3>1. G \in Seq(Range(G)) /\ M \in Seq(Range(M))
            BY <1>5 DEF Keyed, IsList
        <3> HIDE DEF G, M
        <3> QED  BY <3>1, SeqMonotonic
    <2>3. Len(a) \in Nat /\ DOMAIN a = 1 .. Len(a) /\ Len(d) \in Nat /\ DOMAIN d = 1 .. Len(d)
        BY <2>1, LenProperties
    <2>4. \A i \in DOMAIN a : G[i] = out(a[i])
        OBVIOUS
    <2>5. \A i \in DOMAIN d : M[i] = out(d[i])
        OBVIOUS
    <2> HIDE DEF G, M, A, B, a, d
    <2>6. /\ a \o d \in Seq(A) /\ Len(a \o d) = Len(a) + Len(d)
          /\ \A i \in 1 .. Len(a) + Len(d) : (a \o d)[i] = IF i <= Len(a) THEN a[i] ELSE d[i - Len(a)]
        BY <2>1, ConcatProperties
    <2>7. /\ G \o M \in Seq(B) /\ Len(G \o M) = Len(G) + Len(M)
          /\ \A i \in 1 .. Len(G) + Len(M) : (G \o M)[i] = IF i <= Len(G) THEN G[i] ELSE M[i - Len(G)]
        BY <2>2, ConcatProperties
    <2>8. Len(G) = Len(a) /\ Len(M) = Len(d)
        BY <1>5 DEF a, d
    <2>9. names = a \o d
        BY DEF a, d
    <2> DEFINE m == Len(a)
               n == Len(d)
    <2>10. m \in Nat /\ n \in Nat /\ DOMAIN a = 1 .. m /\ DOMAIN d = 1 .. n
        BY <2>3
    <2>11. DOMAIN names = 1 .. m + n /\ DOMAIN (G \o M) = 1 .. m + n
        BY <2>6, <2>7, <2>8, <2>9, LenProperties
    <2>12. /\ \A i \in 1 .. m + n : names[i] = IF i <= m THEN a[i] ELSE d[i - m]
           /\ \A i \in 1 .. m + n : (G \o M)[i] = IF i <= m THEN G[i] ELSE M[i - m]
        BY <2>6, <2>7, <2>8, <2>9
    <2> HIDE DEF m, n, names
    <2>13. ASSUME NEW i \in 1 .. m + n PROVE out(names[i]) = (G \o M)[i]
        <3>1. CASE i <= m
            <4>1. i \in DOMAIN a
                BY <2>10, <3>1
            <4> QED  BY <2>4, <2>12, <3>1, <4>1
        <3>2. CASE ~(i <= m)
            <4>1. i - m \in DOMAIN d
                BY <2>10, <3>2
            <4> QED  BY <2>5, <2>12, <3>2, <4>1
        <3> QED  BY <3>1, <3>2
    <2>14. G \o M = [i \in 1 .. m + n |-> (G \o M)[i]]
        <3>1. G \o M \in Seq(B) /\ Len(G \o M) = m + n
            BY <2>7, <2>8 DEF m, n
        <3> DEFINE u == G \o M
        <3>2. u \in [1 .. Len(u) -> B]
            BY <3>1, LenProperties
        <3> HIDE DEF u
        <3> QED  BY <3>1, <3>2 DEF u
    <2> QED  BY <2>11, <2>13, <2>14
<1> HIDE DEF G, M, items, s, names
<1>7. /\ Keyed(s.items) /\ Aliases(s.items) = Range(GroupAliases(q)) \cup Range(MeasureAliases(q))
    BY <1>2, <1>3, <1>5, <1>6, KeyedConcat
<1>8. ASSUME NEW i \in Range(s.items), NEW r \in Range(i.expr.refs)
      PROVE  ~Qualified(r) /\ Contains(Outputs(x.stmt), r.col)
    <2>1. PICK k \in DOMAIN names : i = out(names[k])
        BY <1>2 DEF Range, items
    <2>2. r = Bare(i.alias)
        <3>1. i.expr.refs = <<Bare(names[k])>> /\ i.alias = names[k]
            BY <1>4, <2>1
        <3> QED  BY <3>1, Tuples
    <2>3. i.alias \in Range(Outputs(stmt))
        BY <1>7 DEF Aliases
    <2>4. Contains(Outputs(stmt), i.alias)
        BY <2>3, ContainsRange
    <2> QED  BY <2>2, <2>4 DEF Bare, Qualified
<1>9. Range(s.order) = {}
    BY <1>2, Tuples
<1>10. x.stmt = stmt
    OBVIOUS
<1> HIDE DEF x
<1>11. ResolvesIn(s) /\ Range(s.sub) = {x}
    BY <1>2, <1>7, <1>8, <1>9, OverSubquery
<1> QED  BY <1>10, <1>11 DEF Plannable, s

\* One more element at the end.
LEMMA Appended ==
    ASSUME NEW seq, IsList(seq), NEW e
    PROVE  Range(Append(seq, e)) = Range(seq) \cup {e}
<1> DEFINE S == Range(seq) \cup {e}
           n == Len(seq)
           app == Append(seq, e)
<1>1. seq \in Seq(S) /\ e \in S
    BY SeqMonotonic DEF IsList
<1> HIDE DEF S
<1>2. /\ app \in Seq(S) /\ Len(app) = n + 1
      /\ \A i \in 1 .. n : app[i] = seq[i]
      /\ app[n + 1] = e
    BY <1>1, AppendProperties
<1>3. n \in Nat /\ DOMAIN seq = 1 .. n /\ DOMAIN app = 1 .. n + 1
    BY <1>1, <1>2, LenProperties
<1> HIDE DEF app, n
<1>4. \A i : i \in 1 .. n + 1 <=> i \in 1 .. n \/ i = n + 1
    BY <1>3
<1>5. Range(app) = Range(seq) \cup {e}
    BY <1>2, <1>3, <1>4 DEF Range
<1> QED  BY <1>5 DEF app

\* Two items of different names.
LEMMA KeyedPair ==
    ASSUME NEW a, NEW d, a.alias # d.alias
    PROVE  Keyed(<<a, d>>) /\ Aliases(<<a, d>>) = {a.alias, d.alias}
<1> DEFINE pair == <<a, d>>
<1>1. IsList(pair) /\ Range(pair) = {a, d}
    BY Tuples
<1>2. DOMAIN pair = {1, 2} /\ pair[1] = a /\ pair[2] = d
    OBVIOUS
<1> HIDE DEF pair
<1>3. Keyed(pair)
    BY <1>1, <1>2 DEF Keyed
<1> QED  BY <1>1, <1>3 DEF Aliases, pair

\* What the filters of a query read is found by a statement over its table.
LEMMA FiltersResolve ==
    ASSUME NEW q, Joinable(q.table, q.joins), NEW s, s.table = q.table, s.joins = q.joins,
           \A f \in Range(q.filters) :
               Reads(q, f.column) /\ \A x \in Range(s.sub) : ~Contains(Outputs(x.stmt), f.column.col)
    PROVE  \A f \in Range(q.filters) : \A k : \A r \in Range(Expr(f.op, <<resolve(q, f.column)>>, k).refs) :
               Resolves(s, r)
<1> SUFFICES ASSUME NEW f \in Range(q.filters), NEW k, NEW r \in Range(Expr(f.op, <<resolve(q, f.column)>>, k).refs)
             PROVE  Resolves(s, r)
    OBVIOUS
<1> DEFINE x == resolve(q, f.column)
<1>1. Resolves(s, x)
    BY ReadsResolve
<1>2. Expr(f.op, <<x>>, k).refs = <<x>>
    BY DEF Expr
<1> HIDE DEF x
<1>3. r = x
    BY <1>2, Tuples DEF x
<1> QED  BY <1>1, <1>3

\* A histogram: its buckets over the bounds of the column.
LEMMA HistogramPlans ==
    ASSUME NEW c, IsQuery(c.query), NEW target, ChartOk(c, target, TRUE), ~IsRaw(c.query),
           c.query.bins, ~TakesGivenName(c.query)
    PROVE  Plannable(HistogramSql(c.query, TRUE))
<1> DEFINE q == c.query
           dim == q.dimensions[1]
           m == q.measures[1]
           col == Qualify(dim, q.table)
           bare == Bare(column_alias(dim))
           filters == Filters(q)
           low == Item(<<"mn">>, Expr("min", <<bare>>, <<>>))
           width == Item(<<"w">>, Expr("max", <<bare>>, <<"width">>))
           inB == Expr("is not null", <<bare>>, <<>>)
           inS == Expr("is not null", <<col>>, <<>>)
           b == [From(q.table) EXCEPT !.items = <<low, width>>, !.where = Append(filters, inB)]
           x == [as |-> <<"b">>, stmt |-> b]
           mn == Ref(<<"b">>, <<"mn">>)
           w == Ref(<<"b">>, <<"w">>)
           bucket == Expr("bucket", <<col, mn, w>>, <<>>)
           first == Item(column_alias(dim), bucket)
           second == Item(measure_alias(m), Expr(m.agg, <<Bare(m.column)>>, <<>>))
           sort == [on |-> bucket, desc |-> FALSE]
           s == HistogramSql(q, TRUE)
<1>1. /\ s.table = q.table /\ s.joins = <<>> /\ s.sub = <<x>> /\ s.items = <<first, second>>
      /\ s.where = Append(filters, inS) /\ s.group = <<bucket>> /\ s.order = <<sort>>
    BY DEF HistogramSql, From
<1>2. /\ b.table = q.table /\ b.joins = <<>> /\ b.sub = <<>> /\ b.items = <<low, width>>
      /\ b.where = Append(filters, inB) /\ b.group = <<>> /\ b.order = <<>>
    BY DEF From
<1>3. /\ Joinable(q.table, q.joins)
      /\ \A r \in Range(Roles(q)) : Reads(q, r)
      /\ \A f \in Range(q.filters) : Reads(q, f.column)
      /\ \A n \in Range(q.measures) : HasColumn(q.table, n.column)
      /\ Range(GroupAliases(q)) \cap Range(MeasureAliases(q)) = {}
    BY ValidReads
<1>4. /\ Range(Roles(q)) = {dim} /\ Range(q.measures) = {m}
    BY OneOfEach
<1>5. q.joins = <<>>
    <2>1. c.viz = "histogram"
        BY DEF ChartOk, HistogramOk
    <2> QED  BY <2>1 DEF ChartOk, HistogramOk
<1>6. ~Qualified(dim) /\ HasColumn(q.table, dim.col)
    BY <1>3, <1>4, <1>5, Tuples DEF Reads
<1>7. m.column \notin {<<"mn">>, <<"w">>} /\ \A f \in Range(q.filters) : f.column.col \notin {<<"mn">>, <<"w">>}
    BY <1>4 DEF TakesGivenName
<1>8. IsList(filters) /\ \A e : e \in Range(filters) => \E f \in Range(q.filters) : e = FilterExpr(q, f)
    <2>1. filters = [i \in DOMAIN q.filters |-> FilterExpr(q, q.filters[i])]
        BY DEF Filters, Map
    <2>2. IsList(q.filters)
        BY DEF IsQuery, QueryLists
    <2> HIDE DEF filters
    <2>3. IsList(filters)
        BY <2>1, <2>2, Listing
    <2> QED  BY <2>1, <2>3 DEF Range
<1>9. /\ Range(Append(filters, inB)) = Range(filters) \cup {inB}
      /\ Range(Append(filters, inS)) = Range(filters) \cup {inS}
    BY <1>8, Appended
<1>10. Reads(q, bare) /\ resolve(q, bare) = bare /\ Reads(q, dim)
    BY <1>5, <1>6 DEF Reads, Bare, Qualified, column_alias, resolve
<1>11. /\ inB.refs = <<bare>> /\ inS.refs = <<col>> /\ low.expr.refs = <<bare>> /\ width.expr.refs = <<bare>>
       /\ low.alias = <<"mn">> /\ width.alias = <<"w">>
       /\ bucket.refs = <<col, mn, w>> /\ bucket.f = "bucket"
       /\ first.alias = dim.col /\ second.alias = measure_alias(m)
       /\ first.expr = bucket /\ second.expr.refs = <<Bare(m.column)>> /\ second.expr.f = m.agg
    BY DEF Expr, Item, column_alias
<1>12. sort.on = bucket /\ x.stmt = b /\ x.as = <<"b">>
    OBVIOUS
<1>13. IsList(<<>>) /\ q.table # NoTable
    BY <1>3, Tuples DEF Joinable
<1>14. /\ mn.table = <<"b">> /\ mn.col = <<"mn">> /\ Qualified(mn)
       /\ w.table = <<"b">> /\ w.col = <<"w">> /\ Qualified(w) /\ Qualified(col)
    BY <1>13 DEF Ref, Qualified, NoTable, Qualify
<1> HIDE DEF sort, x, b, inB, inS, low, width, first, second, bucket, mn, w, bare, s, filters
<1>15. /\ Keyed(<<low, width>>) /\ Aliases(<<low, width>>) = {<<"mn">>, <<"w">>}
    <2>1. low.alias # width.alias
        BY <1>11
    <2>2. /\ Keyed(<<low, width>>) /\ Aliases(<<low, width>>) = {low.alias, width.alias}
        BY <2>1, KeyedPair
    <2> QED  BY <1>11, <2>2
<1>16. IsInjective(Outputs(b)) /\ \A n : Contains(Outputs(b), n) <=> n \in {<<"mn">>, <<"w">>}
    BY <1>2, <1>15, KeyedOutputs
<1>17. Sources(b) = <<q.table>> /\ Sources(s) = <<q.table>>
    BY <1>1, <1>2, <1>13, SourcesRange
<1>18. IsInjective(Sources(b)) /\ IsInjective(Sources(s))
    <2> DEFINE one == <<q.table>>
    <2>1. DOMAIN one = {1}
        OBVIOUS
    <2> HIDE DEF one
    <2>2. IsInjective(one)
        BY <2>1 DEF IsInjective
    <2> QED  BY <1>17, <2>2 DEF one
<1>19. Range(s.sub) = {x} /\ Range(b.sub) = {} /\ Range(s.joins) = {} /\ Range(b.joins) = {}
    BY <1>1, <1>2, Tuples
<1>20. ResolvesIn(b)
    <2>1. Resolves(b, bare)
        BY <1>2, <1>3, <1>5, <1>10, <1>19, ReadsResolve
    <2>2. \A f \in Range(q.filters) : \A r \in Range(FilterExpr(q, f).refs) : Resolves(b, r)
        BY <1>2, <1>3, <1>5, <1>19, FiltersResolve DEF FilterExpr
    <2>3. /\ Range(b.items) = {low, width} /\ Range(b.group) = {} /\ Range(b.order) = {}
          /\ Range(b.where) = Range(filters) \cup {inB}
        BY <1>2, <1>9, Tuples
    <2>4. \A r : r \in Range(inB.refs) \/ r \in Range(low.expr.refs) \/ r \in Range(width.expr.refs) => r = bare
        BY <1>11, Tuples
    <2>5. ASSUME NEW e \in {i.expr : i \in Range(b.items)} \cup Range(b.where) \cup Range(b.group),
                 NEW r \in Range(e.refs)
          PROVE  Resolves(b, r)
        <3>1. CASE e \in Range(filters)
            BY <1>8, <2>2, <3>1
        <3>2. CASE e \in {inB, low.expr, width.expr}
            BY <2>1, <2>4, <3>2
        <3> QED  BY <2>3, <3>1, <3>2
    <2> QED  BY <1>2, <1>16, <1>18, <1>19, <2>3, <2>5 DEF ResolvesIn
<1>21. ResolvesIn(s)
    <2>1. \A y \in Range(s.sub) : \A n : Contains(Outputs(y.stmt), n) <=> n \in {<<"mn">>, <<"w">>}
        BY <1>12, <1>16, <1>19
    <2>2. Resolves(s, col) /\ Resolves(s, mn) /\ Resolves(s, w) /\ Resolves(s, Bare(m.column))
        <3>1. Resolves(s, col)
            BY <1>1, <1>3, <1>5, <1>10, ReadsResolve
        <3>2. x \in Range(s.sub)
            BY <1>19
        <3>3. Resolves(s, mn) /\ Resolves(s, w)
            BY <1>12, <1>14, <1>16, <3>2, SubResolves
        <3> DEFINE y == Bare(m.column)
        <3>4. y.col = m.column /\ Reads(q, y) /\ resolve(q, y) = y
            BY <1>3, <1>4, <1>5 DEF Reads, Bare, Qualified, resolve
        <3> HIDE DEF y, m
        <3>5. Resolves(s, y)
            BY <1>1, <1>3, <1>5, <1>7, <2>1, <3>4, ReadsResolve
        <3> QED  BY <3>1, <3>3, <3>5 DEF y
    <2>3. \A f \in Range(q.filters) : \A r \in Range(FilterExpr(q, f).refs) : Resolves(s, r)
        BY <1>1, <1>3, <1>5, <1>7, <2>1, FiltersResolve DEF FilterExpr
    <2>4. /\ Range(s.items) = {first, second} /\ Range(s.group) = {bucket} /\ Range(s.order) = {sort}
          /\ Range(s.where) = Range(filters) \cup {inS}
        BY <1>1, <1>9, Tuples
    <2>5. /\ Range(inS.refs) = {col} /\ Range(bucket.refs) = {col, mn, w}
          /\ Range(second.expr.refs) = {Bare(m.column)}
        BY <1>11, Tuples
    <2>6. ASSUME NEW e \in {i.expr : i \in Range(s.items)} \cup Range(s.where) \cup Range(s.group),
                 NEW r \in Range(e.refs)
          PROVE  Resolves(s, r)
        <3>1. CASE e \in Range(filters)
            BY <1>8, <2>3, <3>1
        <3>2. CASE e \in {inS, bucket, second.expr}
            BY <2>2, <2>5, <3>2
        <3> QED  BY <1>11, <2>4, <3>1, <3>2
    <2>7. IsInjective(Outputs(s))
        <3>1. dim.col \in Range(GroupAliases(q)) /\ measure_alias(m) \in Range(MeasureAliases(q))
            BY <1>4, FieldsRange
        <3>2. first.alias # second.alias
            BY <1>3, <1>11, <3>1
        <3>3. Keyed(s.items)
            BY <1>1, <3>2, KeyedPair
        <3> QED  BY <3>3, KeyedOutputs
    <2>8. \A r \in Range(bucket.refs) : ~Shadowed(s, r)
        BY <1>14, <2>5 DEF Shadowed
    <2>9. IsList(s.group) /\ Contains(s.group, bucket)
        <3>1. IsList(s.group)
            BY <1>1, Tuples
        <3> QED  BY <2>4, <3>1, ContainsRange
    <2>10. m.agg \in Aggregates
        BY <1>4 DEF IsQuery, IsMeasure
    <2> HIDE DEF m
    <2>11. \A i \in Range(s.items) : i.expr.f \in Aggregates \/ Contains(s.group, i.expr)
        BY <1>11, <2>4, <2>9, <2>10
    <2>12. \A o \in Range(s.order) :
              IF o.on.f = "alias" THEN Contains(Outputs(s), o.on.refs[1].col) ELSE Contains(s.group, o.on)
        BY <1>11, <1>12, <2>4, <2>9
    <2> QED  BY <1>18, <1>19, <2>4, <2>6, <2>7, <2>8, <2>11, <2>12 DEF ResolvesIn
<1> QED  BY <1>12, <1>19, <1>20, <1>21 DEF Plannable, s

\* A comparison of two periods reads its table alone.
LEMMA ComparePlans ==
    ASSUME NEW c, IsQuery(c.query), NEW target, ChartOk(c, target, TRUE), ~IsRaw(c.query),
           \E m \in Range(c.query.measures) : m.compare # <<>>,
           ~LeavesTable(c.query), ~TakesGivenName(c.query)
    PROVE  Plannable(CompareSql(c.query))
<1> DEFINE q == c.query
           m == q.measures[1]
           k == m.compare[1]
           bucket == Qualify(k.column, q.table)
           latest == Expr("max", <<bucket>>, <<k.grain>>)
           before == [latest EXCEPT !.k = <<k.grain, k.kind>>]
           low == Item(<<"p_cur">>, latest)
           prior == Item(<<"p_prev">>, before)
           b == [From(q.table) EXCEPT !.items = <<low, prior>>, !.where = Filters(q)]
           x == [as |-> <<"b">>, stmt |-> b]
           cur == Ref(<<"b">>, <<"p_cur">>)
           prev == Ref(<<"b">>, <<"p_prev">>)
           read == resolve(q, Bare(m.column))
           only == Item(measure_alias(m), Expr(k.output, <<read, bucket, cur, prev>>, <<m.agg>>))
           widens(f) == f.op = ">=" /\ f.value \in {"token", "scalar"}
                           /\ column_alias(f.column) = column_alias(k.column)
           outer(f) == IF widens(f) THEN [FilterExpr(q, f) EXCEPT !.k = <<f.value, "less one period">>]
                                    ELSE FilterExpr(q, f)
           s == CompareSql(q)
<1>1. /\ s.table = q.table /\ s.joins = <<>> /\ s.sub = <<x>> /\ s.items = <<only>>
      /\ s.where = [i \in DOMAIN q.filters |-> outer(q.filters[i])] /\ s.group = <<>> /\ s.order = <<>>
    BY DEF CompareSql, From, Map
<1>2. /\ b.table = q.table /\ b.joins = <<>> /\ b.sub = <<>> /\ b.items = <<low, prior>>
      /\ b.where = [i \in DOMAIN q.filters |-> FilterExpr(q, q.filters[i])] /\ b.group = <<>> /\ b.order = <<>>
    BY Zenon DEF From, Filters, Map
<1>3. /\ Joinable(q.table, q.joins)
      /\ \A f \in Range(q.filters) : Reads(q, f.column)
      /\ \A n \in Range(q.measures) : HasColumn(q.table, n.column)
    BY ValidReads
<1>4. Range(Roles(q)) = {} /\ Range(q.measures) = {m} /\ m.compare # <<>>
    BY OneOfEach
<1>5. /\ ~Qualified(k.column) /\ \A f \in Range(q.filters) : ~Qualified(f.column)
      /\ HasRole(k.column, q.table, "time")
    BY <1>4 DEF LeavesTable, ChartOk, CompareOk
<1>6. q.joins = <<>>
    <2>1. Range(group_columns(q)) = {}
        BY <1>4, RolesRange DEF IsQuery, QueryLists
    <2>2. UsedTables(q) = {}
        BY <1>5, <2>1 DEF UsedTables
    <2>3. Range(q.joins) = {}
        BY <2>2 DEF ChartOk
    <2>4. IsList(q.joins)
        BY <1>3 DEF Joinable
    <2>5. Len(q.joins) \in Nat /\ DOMAIN q.joins = 1 .. Len(q.joins)
        BY <2>4, LenProperties DEF IsList
    <2>6. Len(q.joins) = 0
        <3> SUFFICES ASSUME Len(q.joins) # 0 PROVE FALSE
            OBVIOUS
        <3>1. 1 \in DOMAIN q.joins
            BY <2>5
        <3>2. q.joins[1] \in Range(q.joins)
            BY <3>1 DEF Range
        <3> QED  BY <2>3, <3>2
    <2> QED  BY <2>4, <2>6, EmptySeq DEF IsList
<1>7. Reads(q, k.column)
    BY <1>5 DEF Reads, HasRole, Resolved, Qualify, Ref, HasColumn
<1>8. m.column \notin {<<"p_cur">>, <<"p_prev">>} /\ \A f \in Range(q.filters) : f.column.col \notin {<<"p_cur">>, <<"p_prev">>}
    BY <1>4 DEF TakesGivenName
<1>9. /\ low.alias = <<"p_cur">> /\ low.expr.refs = <<bucket>>
      /\ prior.alias = <<"p_prev">> /\ prior.expr.refs = <<bucket>>
      /\ only.expr.refs = <<read, bucket, cur, prev>>
    BY DEF Item, Expr
<1>10. \A f : outer(f).refs = <<resolve(q, f.column)>> /\ FilterExpr(q, f).refs = <<resolve(q, f.column)>>
    BY DEF FilterExpr, Expr
<1>11. x.stmt = b /\ x.as = <<"b">>
    OBVIOUS
<1>12. IsList(<<>>) /\ q.table # NoTable
    BY <1>3, Tuples DEF Joinable
<1>13. /\ cur.table = <<"b">> /\ cur.col = <<"p_cur">> /\ Qualified(cur)
       /\ prev.table = <<"b">> /\ prev.col = <<"p_prev">> /\ Qualified(prev)
    BY DEF Ref, Qualified, NoTable
<1>14. m.column = Bare(m.column).col /\ Reads(q, Bare(m.column))
    BY <1>3, <1>4 DEF Reads, Bare, Qualified
<1> HIDE DEF x, b, low, prior, only, cur, prev, read, bucket, latest, before, s, outer, k
<1>15. /\ Keyed(<<low, prior>>) /\ Aliases(<<low, prior>>) = {<<"p_cur">>, <<"p_prev">>}
    <2>1. low.alias # prior.alias
        BY <1>9
    <2>2. /\ Keyed(<<low, prior>>) /\ Aliases(<<low, prior>>) = {low.alias, prior.alias}
        BY <2>1, KeyedPair
    <2> QED  BY <1>9, <2>2
<1>16. IsInjective(Outputs(b)) /\ \A n : Contains(Outputs(b), n) <=> n \in {<<"p_cur">>, <<"p_prev">>}
    BY <1>2, <1>15, KeyedOutputs
<1>17. Sources(b) = <<q.table>> /\ Sources(s) = <<q.table>>
    BY <1>1, <1>2, <1>12, SourcesRange
<1>18. IsInjective(Sources(b)) /\ IsInjective(Sources(s))
    <2> DEFINE one == <<q.table>>
    <2>1. DOMAIN one = {1}
        OBVIOUS
    <2> HIDE DEF one
    <2>2. IsInjective(one)
        BY <2>1 DEF IsInjective
    <2> QED  BY <1>17, <2>2 DEF one
<1>19. /\ Range(s.sub) = {x} /\ Range(b.sub) = {} /\ Range(s.joins) = {} /\ Range(b.joins) = {}
       /\ Range(s.group) = {} /\ Range(b.group) = {} /\ Range(s.order) = {} /\ Range(b.order) = {}
    BY <1>1, <1>2, Tuples
<1>20. ResolvesIn(b)
    <2>1. Resolves(b, bucket)
        BY <1>2, <1>3, <1>6, <1>7, ReadsResolve DEF bucket
    <2>2. \A f \in Range(q.filters) : Resolves(b, resolve(q, f.column))
        BY <1>2, <1>3, <1>6, <1>19, ReadsResolve
    <2>3. Range(b.items) = {low, prior}
        BY <1>2, Tuples
    <2>4. \A r : r \in Range(low.expr.refs) \/ r \in Range(prior.expr.refs) => r = bucket
        BY <1>9, Tuples
    <2>5. ASSUME NEW e \in Range(b.where), NEW r \in Range(e.refs) PROVE Resolves(b, r)
        <3>1. PICK i \in DOMAIN q.filters : e = FilterExpr(q, q.filters[i])
            BY <1>2 DEF Range
        <3>2. r = resolve(q, q.filters[i].column)
            <4> DEFINE y == resolve(q, q.filters[i].column)
            <4>1. e.refs = <<y>>
                BY <1>10, <3>1
            <4> HIDE DEF y
            <4>2. r = y
                BY <4>1, Tuples
            <4> QED  BY <4>2 DEF y
        <3> QED  BY <2>2, <3>2 DEF Range
    <2> QED  BY <1>2, <1>16, <1>18, <1>19, <2>1, <2>3, <2>4, <2>5 DEF ResolvesIn
<1>21. ResolvesIn(s)
    <2>1. \A y \in Range(s.sub) : \A n : Contains(Outputs(y.stmt), n) <=> n \in {<<"p_cur">>, <<"p_prev">>}
        BY <1>11, <1>16, <1>19
    <2>2. Resolves(s, bucket)
        BY <1>1, <1>3, <1>6, <1>7, ReadsResolve DEF bucket
    <2>3. Resolves(s, cur) /\ Resolves(s, prev)
        <3>1. x \in Range(s.sub)
            BY <1>19
        <3> QED  BY <1>11, <1>13, <1>16, <3>1, SubResolves
    <2>4. Resolves(s, read)
        BY <1>1, <1>3, <1>6, <1>8, <1>14, <2>1, ReadsResolve DEF read
    <2>5. \A f \in Range(q.filters) : Resolves(s, resolve(q, f.column))
        BY <1>1, <1>3, <1>6, <1>8, <2>1, ReadsResolve
    <2>6. Range(s.items) = {only}
        BY <1>1, Tuples
    <2>7. ASSUME NEW r \in Range(only.expr.refs) PROVE Resolves(s, r)
        <3> DEFINE refs == <<read, bucket, cur, prev>>
        <3>1. Range(refs) = {read, bucket, cur, prev}
            BY DEF Range
        <3> HIDE DEF refs
        <3>2. r \in {read, bucket, cur, prev}
            BY <1>9, <3>1 DEF refs
        <3> QED  BY <2>2, <2>3, <2>4, <3>2
    <2>8. ASSUME NEW e \in Range(s.where), NEW r \in Range(e.refs) PROVE Resolves(s, r)
        <3>1. PICK i \in DOMAIN q.filters : e = outer(q.filters[i])
            BY <1>1 DEF Range
        <3>2. r = resolve(q, q.filters[i].column)
            <4> DEFINE y == resolve(q, q.filters[i].column)
            <4>1. e.refs = <<y>>
                BY <1>10, <3>1
            <4> HIDE DEF y
            <4>2. r = y
                BY <4>1, Tuples
            <4> QED  BY <4>2 DEF y
        <3> QED  BY <2>5, <3>2 DEF Range
    <2>9. IsInjective(Outputs(s))
        <3> DEFINE one == <<only>>
        <3>1. IsList(one) /\ DOMAIN one = {1}
            BY Tuples
        <3> HIDE DEF one
        <3>2. Keyed(one)
            BY <3>1 DEF Keyed
        <3> QED  BY <1>1, <3>2, KeyedOutputs DEF one
    <2> QED  BY <1>1, <1>18, <1>19, <2>6, <2>7, <2>8, <2>9 DEF ResolvesIn
<1> QED  BY <1>11, <1>19, <1>20, <1>21 DEF Plannable, s

\* The statement of any accepted chart resolves, where no excuse applies.
LEMMA ChartPlans ==
    ASSUME NEW c, IsQuery(c.query), NEW target, ChartOk(c, target, TRUE),
           ~LeavesTable(c.query), ~JoinsTwice(c.query), ~ListForScalar(c.query), ~TakesGivenName(c.query)
    PROVE  ~ChartSqlRaises(c.query) /\ Plannable(ChartSql(c.query, TRUE))
<1> DEFINE q == c.query
<1>1. CASE IsRaw(q)
    <2>1. RawSql(q).raw = TRUE
        BY DEF RawSql, From
    <2> QED  BY <1>1, <2>1 DEF ChartSqlRaises, ChartSql, Plannable
<1>2. CASE ~IsRaw(q)
    <2>1. ~WindowRaises(q)
        <3> SUFFICES ASSUME q.dimensions = <<>>, NEW m \in Range(q.measures), m.denominator = <<>>,
                            Ordered(m.transform)
                     PROVE  FALSE
            BY DEF WindowRaises
        <3>1. m.transform \in {"pop_abs", "pop_pct", "yoy_pct", "running_total"} /\ m.transform # "none"
            BY DEF Ordered, IsQuery, IsMeasure
        <3>2. FirstIsTime(q)
            BY <1>2, <3>1 DEF ChartOk, TransformsOk
        <3> QED  BY <3>2 DEF FirstIsTime
    <2>2. ~ChartSqlRaises(q)
        BY <2>1 DEF ChartSqlRaises, ListForScalar
    <2>3. CASE q.bins
        BY <1>2, <2>2, <2>3, HistogramPlans DEF ChartSql
    <2>4. CASE ~q.bins /\ \E m \in Range(q.measures) : m.compare # <<>>
        BY <1>2, <2>2, <2>4, ComparePlans DEF ChartSql
    <2>5. CASE /\ ~q.bins /\ ~(\E m \in Range(q.measures) : m.compare # <<>>)
               /\ \E m \in Range(q.measures) : is_derived(m)
        BY <1>2, <2>2, <2>5, WindowedPlans DEF ChartSql
    <2>6. CASE /\ ~q.bins /\ ~(\E m \in Range(q.measures) : m.compare # <<>>)
               /\ ~\E m \in Range(q.measures) : is_derived(m)
        BY <1>2, <2>2, <2>6, FlatPlans DEF ChartSql
    <2> QED  BY <2>3, <2>4, <2>5, <2>6
<1> QED  BY <1>1, <1>2

\* The joins of a source dataset are those of its charts.
LEMMA SourceJoins ==
    ASSUME NEW s, IsSpec(s), NEW t
    PROVE  /\ IsList(SourceInputs(s, t).joins)
           /\ \A j : j \in Range(SourceInputs(s, t).joins) <=>
                 \E c \in Range(s.charts) : IsSource(c.query) /\ c.query.table = t /\ j \in Range(c.query.joins)
<1> DEFINE seq == s.charts
           K == {i \in DOMAIN seq : IsSource(seq[i].query) /\ seq[i].query.table = t}
           charts == At(seq, K)
           lists == [i \in DOMAIN charts |-> charts[i].query.joins]
           all == FlattenSeq(lists)
           S == UNION {Range(lists[i]) : i \in DOMAIN lists}
<1>1. charts = SourceCharts(s, t)
    BY DEF SourceCharts, At, Only
<1>2. SourceInputs(s, t).joins = Distinct(all)
    BY <1>1 DEF SourceInputs, Map
<1>3. seq \in Seq(Range(seq))
    BY DEF IsSpec, IsList
<1> HIDE DEF K
<1>4. /\ charts \in Seq(Range(seq))
      /\ \A x : x \in Range(charts) <=> \E i \in DOMAIN seq : i \in K /\ x = seq[i]
    BY <1>3, Kept
<1> HIDE DEF charts
<1>5. \A x : x \in Range(charts) <=> x \in Range(seq) /\ IsSource(x.query) /\ x.query.table = t
    BY <1>4 DEF K, Range
<1>6. DOMAIN charts = 1 .. Len(charts) /\ Len(charts) \in Nat
    BY <1>4, LenProperties
<1>7. ASSUME NEW i \in DOMAIN charts PROVE IsList(lists[i])
    <2>1. charts[i] \in Range(seq)
        BY <1>5 DEF Range
    <2> QED  BY <2>1 DEF IsSpec, IsChart, IsQuery, QueryLists
<1>8. \A i \in DOMAIN charts : lists[i] \in Seq(S)
    BY <1>7, SeqMonotonic DEF IsList
<1>9. lists \in Seq(Seq(S)) /\ Len(lists) = Len(charts)
    <2> HIDE DEF S
    <2>1. lists \in [1 .. Len(charts) -> Seq(S)]
        BY <1>6, <1>8
    <2> QED  BY <1>6, <2>1
<1>10. \A i \in DOMAIN charts : lists[i] = charts[i].query.joins
    OBVIOUS
<1> HIDE DEF lists, S
<1>11. /\ all \in Seq(S)
       /\ \A x : x \in Range(all) <=> \E i \in 1 .. Len(lists) : x \in Range(lists[i])
    BY <1>9, FlattenRange
<1> HIDE DEF all
<1>12. Distinct(all) \in Seq(S) /\ Range(Distinct(all)) = Range(all)
    BY <1>11, DistinctRange
<1>13. IsList(Distinct(all))
    BY <1>12, SeqOfRange DEF IsList
<1>14. \A x : x \in Range(all) <=> \E c \in Range(charts) : x \in Range(c.query.joins)
    <2>1. \A x : x \in Range(all) <=> \E i \in DOMAIN charts : x \in Range(charts[i].query.joins)
        BY <1>6, <1>9, <1>10, <1>11
    <2>2. \A c : c \in Range(charts) <=> \E i \in DOMAIN charts : c = charts[i]
        BY DEF Range
    <2> QED  BY <2>1, <2>2
<1> QED  BY <1>2, <1>5, <1>12, <1>13, <1>14

\* A list of items and another of names, matched in two parts, match.
LEMMA MatchedConcat ==
    ASSUME NEW a, NEW d, NEW G, NEW M, IsList(a), IsList(d), IsList(G), IsList(M),
           DOMAIN G = DOMAIN a, DOMAIN M = DOMAIN d,
           \A i \in DOMAIN a : G[i].alias = a[i], \A i \in DOMAIN d : M[i].alias = d[i],
           IsInjective(a \o d)
    PROVE  Keyed(G \o M)
<1> DEFINE A == Range(a) \cup Range(d)
           B == Range(G) \cup Range(M)
           m == Len(a)
           n == Len(d)
           names == a \o d
           items == G \o M
<1>1. a \in Seq(A) /\ d \in Seq(A) /\ G \in Seq(B) /\ M \in Seq(B)
    BY SeqMonotonic DEF IsList
<1>2. m \in Nat /\ n \in Nat /\ DOMAIN a = 1 .. m /\ DOMAIN d = 1 .. n /\ Len(G) = m /\ Len(M) = n
    BY <1>1, LenProperties
<1> HIDE DEF A, B
<1>3. /\ names \in Seq(A) /\ Len(names) = m + n
      /\ \A i \in 1 .. m + n : names[i] = IF i <= m THEN a[i] ELSE d[i - m]
    BY <1>1, ConcatProperties
<1>4. /\ items \in Seq(B) /\ Len(items) = m + n
      /\ \A i \in 1 .. m + n : items[i] = IF i <= m THEN G[i] ELSE M[i - m]
    <2>1. /\ items \in Seq(B) /\ Len(items) = Len(G) + Len(M)
          /\ \A i \in 1 .. Len(G) + Len(M) :
                items[i] = IF i <= Len(G) THEN G[i] ELSE M[i - Len(G)]
        BY <1>1, ConcatProperties
    <2> HIDE DEF items, m, n
    <2> QED  BY <1>2, <2>1
<1>5. DOMAIN names = 1 .. m + n /\ DOMAIN items = 1 .. m + n
    BY <1>3, <1>4, LenProperties
<1>6. IsList(items)
    BY Concatenated
<1> HIDE DEF m, n, names, items
<1>7. ASSUME NEW i \in 1 .. m + n PROVE items[i].alias = names[i]
    <2>1. CASE i <= m
        <3>1. i \in DOMAIN a
            BY <1>2, <2>1
        <3> QED  BY <1>3, <1>4, <2>1, <3>1
    <2>2. CASE ~(i <= m)
        <3>1. i - m \in DOMAIN d
            BY <1>2, <2>2
        <3> QED  BY <1>3, <1>4, <2>2, <3>1
    <2> QED  BY <2>1, <2>2
<1>8. IsInjective(names)
    BY DEF names
<1>9. Keyed(items)
    BY <1>5, <1>6, <1>7, <1>8 DEF Keyed, IsInjective
<1> QED  BY <1>9 DEF items

\* A source dataset whose names do not collide and that joins each table once.
LEMMA SourcePlans ==
    ASSUME NEW s, IsSpec(s), NEW target, \A c \in Range(s.charts) : ChartOk(c, target, TRUE),
           NEW t, \E c \in Range(s.charts) : IsSource(c.query) /\ c.query.table = t,
           ~Collides(SourceInputs(s, t)),
           IsInjective(Map(LAMBDA j : j.table, SourceInputs(s, t).joins))
    PROVE  Plannable(SourceSql(SourceInputs(s, t)))
<1> DEFINE inputs == SourceInputs(s, t)
           joins == inputs.joins
           mart(n) == ColumnExpr(IF joins # <<>> THEN Ref(t, n) ELSE Bare(n))
           cols == MartColumns(t)
           refs == inputs.joined_refs
           own == [i \in DOMAIN cols |-> Item(cols[i], mart(cols[i]))]
           joined == [i \in DOMAIN refs |-> Item(source_column_alias(refs[i], t), ColumnExpr(refs[i]))]
           names == [i \in DOMAIN refs |-> source_column_alias(refs[i], t)]
           items == own \o joined
           stmt == SourceSql(inputs)
<1>1. inputs.table = t /\ inputs.columns = cols
    BY DEF SourceInputs
<1>2. /\ stmt.table = t /\ stmt.joins = joins /\ stmt.sub = <<>> /\ stmt.items = items
      /\ stmt.where = <<>> /\ stmt.group = <<>> /\ stmt.order = <<>>
    BY <1>1 DEF SourceSql, From, Map
<1>3. ASSUME NEW c \in Range(s.charts), IsSource(c.query), c.query.table = t
      PROVE  Joinable(t, c.query.joins) /\ \A r \in Range(Roles(c.query)) : Reads(c.query, r)
    <2>1. IsQuery(c.query) /\ ~IsRaw(c.query) /\ ChartOk(c, target, TRUE)
        BY <1>3 DEF IsSpec, IsChart, IsSource
    <2> QED  BY <1>3, <2>1, ValidReads
<1>4. Joinable(t, joins)
    <2>1. IsList(joins)
        BY SourceJoins
    <2>2. t # NoTable
        BY <1>3 DEF Joinable
    <2>3. \A j \in Range(joins) : \E c \in Range(s.charts) :
             IsSource(c.query) /\ c.query.table = t /\ j \in Range(c.query.joins)
        BY SourceJoins
    <2> HIDE DEF joins
    <2> QED  BY <1>3, <2>1, <2>2, <2>3 DEF Joinable
<1>5. \A r \in Range(refs) : Qualified(r) /\ HasColumn(r.table, r.col) /\ \E j \in Range(joins) : j.table = r.table
    <2> SUFFICES ASSUME NEW r \in Range(refs)
                 PROVE  Qualified(r) /\ HasColumn(r.table, r.col) /\ \E j \in Range(joins) : j.table = r.table
        OBVIOUS
    <2>1. PICK c \in Range(s.charts) : /\ IsSource(c.query) /\ c.query.table = t
                                      /\ r \in Range(Roles(c.query)) /\ Qualified(r)
        BY JoinedRefs
    <2>2. Reads(c.query, r)
        BY <1>3, <2>1
    <2>3. PICK j \in Range(c.query.joins) : j.table = r.table
        BY <2>1, <2>2 DEF Reads
    <2>4. j \in Range(joins)
        BY <2>1, SourceJoins
    <2> QED  BY <2>1, <2>2, <2>3, <2>4 DEF Reads
<1>6. /\ IsList(cols) /\ \A n \in Range(cols) : HasColumn(t, n)
      /\ IsList(refs)
    BY MartRange, JoinedRefs
<1>7. Keyed(items)
    <2>1. IsInjective(cols \o names)
        BY <1>1 DEF Collides, SourceAliases, Map
    <2>2. IsList(own) /\ DOMAIN own = DOMAIN cols /\ \A i \in DOMAIN cols : own[i].alias = cols[i]
        BY <1>6, Listing DEF Item
    <2>3. IsList(joined) /\ DOMAIN joined = DOMAIN refs
        BY <1>6, Listing
    <2>4. IsList(names) /\ DOMAIN names = DOMAIN refs
        BY <1>6, Listing
    <2>5. \A i \in DOMAIN refs : joined[i].alias = names[i]
        BY DEF Item
    <2> HIDE DEF own, joined, names, refs, cols
    <2> QED  BY <1>6, <2>1, <2>2, <2>3, <2>4, <2>5, MatchedConcat
<1>8. IsInjective(Sources(stmt))
    <2>1. \A j \in Range(joins) : j.table # t
        BY <1>4 DEF Joinable
    <2>2. t # NoTable /\ IsList(joins)
        BY <1>4 DEF Joinable
    <2>3. IsInjective(Map(LAMBDA j : j.table, joins))
        OBVIOUS
    <2> HIDE DEF joins, stmt
    <2> QED  BY <1>2, <2>1, <2>2, <2>3, SourcesApart
<1>9. \A j \in Range(stmt.joins) : Resolves(stmt, j.on_left) /\ Resolves(stmt, j.on_right)
    <2> HIDE DEF joins, stmt
    <2> QED  BY <1>2, <1>4, JoinsResolve
<1>10. /\ Range(Sources(stmt)) = {t} \cup {j.table : j \in Range(joins)}
       /\ joins = <<>> => Sources(stmt) = <<t>>
    <2>1. t # NoTable /\ IsList(joins)
        BY <1>4 DEF Joinable
    <2> HIDE DEF joins, stmt
    <2> QED  BY <1>2, <2>1, SourcesRange
<1>11. ASSUME NEW n \in Range(cols), NEW r \in Range(mart(n).refs) PROVE Resolves(stmt, r)
    <2>1. r = IF joins # <<>> THEN Ref(t, n) ELSE Bare(n)
        <3> DEFINE y == IF joins # <<>> THEN Ref(t, n) ELSE Bare(n)
        <3>1. mart(n).refs = <<y>>
            BY DEF ColumnExpr, Expr
        <3> HIDE DEF y, mart
        <3>2. r = y
            BY <3>1, Tuples
        <3> QED  BY <3>2 DEF y
    <2>2. HasColumn(t, n) /\ t # NoTable
        BY <1>4, <1>6 DEF Joinable
    <2>3. Range(stmt.sub) = {}
        BY <1>2, Tuples
    <2> HIDE DEF joins, stmt, mart, cols
    <2>4. CASE joins # <<>>
        <3>1. Qualified(r) /\ r.table = t /\ r.col = n
            BY <2>1, <2>2, <2>4 DEF Ref, Qualified
        <3> QED  BY <1>10, <2>2, <3>1, NamedResolves
    <2>5. CASE joins = <<>>
        <3>1. ~Qualified(r) /\ r.col = n
            BY <2>1, <2>5 DEF Bare, Qualified
        <3> QED  BY <1>10, <2>2, <2>3, <2>5, <3>1, BareResolves
    <2> QED  BY <2>4, <2>5
<1>12. ASSUME NEW n \in Range(refs), NEW r \in Range(ColumnExpr(n).refs) PROVE Resolves(stmt, r)
    <2>1. r = n
        BY Tuples DEF ColumnExpr, Expr
    <2> HIDE DEF refs, stmt, joins
    <2>2. Qualified(n) /\ n.table \in Range(Sources(stmt)) /\ HasColumn(n.table, n.col)
        BY <1>5, <1>10
    <2> QED  BY <2>1, <2>2, NamedResolves
<1>13. Range(items) = Range(own) \cup Range(joined)
    <2>1. IsList(own) /\ IsList(joined)
        BY <1>6, Listing
    <2> HIDE DEF own, joined
    <2> QED  BY <2>1, Concatenated
<1>14. ASSUME NEW i \in Range(items), NEW r \in Range(i.expr.refs) PROVE Resolves(stmt, r)
    <2>1. CASE i \in Range(own)
        <3>1. PICK k \in DOMAIN cols : i.expr = mart(cols[k])
            BY <2>1 DEF Range, Item
        <3> HIDE DEF mart, stmt, items, own
        <3> QED  BY <1>11, <3>1 DEF Range
    <2>2. CASE i \in Range(joined)
        <3>1. DOMAIN joined = DOMAIN refs
            OBVIOUS
        <3>2. \A k \in DOMAIN refs : joined[k].expr = ColumnExpr(refs[k])
            <4> HIDE DEF refs
            <4> QED  BY DEF Item
        <3> HIDE DEF stmt, items, joined, refs
        <3>3. PICK k \in DOMAIN joined : i = joined[k]
            BY <2>2 DEF Range
        <3>4. i.expr = ColumnExpr(refs[k])
            BY <3>1, <3>2, <3>3
        <3>5. refs[k] \in Range(refs)
            BY <3>1 DEF Range
        <3> QED  BY <1>12, <3>4, <3>5
    <2> HIDE DEF own, joined, items
    <2> QED  BY <1>13, <2>1, <2>2
<1> HIDE DEF items, stmt, joins
<1>15. Range(stmt.where) = {} /\ Range(stmt.group) = {} /\ Range(stmt.order) = {} /\ Range(stmt.sub) = {}
    BY <1>2, Tuples
<1>16. IsInjective(Outputs(stmt))
    BY <1>2, <1>7, KeyedOutputs
<1>17. ResolvesIn(stmt)
    BY <1>2, <1>8, <1>9, <1>14, <1>15, <1>16 DEF ResolvesIn
<1> QED  BY <1>15, <1>17 DEF Plannable, stmt

\* Whatever validates has SQL that plans, statement by statement.
LEMMA StatementPlans ==
    ASSUME IsSpec(spec), Valid(spec, TRUE), NEW step \in Range(Statements(spec)), ~Excused(step)
    PROVE  ~StatementRaises(step, spec) /\ Plannable(StatementOf(step, spec))
<1>1. \A c \in Range(spec.charts) : IsQuery(c.query) /\ ChartOk(c, spec.target_bi, TRUE)
    BY DEF IsSpec, IsChart, Valid
<1>2. \/ \E c \in Range(spec.charts) : step = <<"chart", c.id>>
      \/ \E t \in Range(source_tables(spec)) : step = <<"source", t>>
    BY StatementsCover
<1>3. ASSUME NEW c \in Range(spec.charts), step = <<"chart", c.id>>
      PROVE  ~StatementRaises(step, spec) /\ Plannable(StatementOf(step, spec))
    <2>1. step[1] # "source" /\ step[2] = c.id
        BY <1>3
    <2>2. ChartOf(spec, step[2]) = c
        BY <2>1, ChartIs DEF IsSpec
    <2>3. /\ ~LeavesTable(c.query) /\ ~JoinsTwice(c.query)
          /\ ~ListForScalar(c.query) /\ ~TakesGivenName(c.query)
        BY <2>1, <2>2 DEF Excused
    <2>4. ~ChartSqlRaises(c.query) /\ Plannable(ChartSql(c.query, TRUE))
        BY <1>1, <2>3, ChartPlans
    <2> QED  BY <2>1, <2>2, <2>4 DEF StatementRaises, StatementOf
<1>4. ASSUME NEW t \in Range(source_tables(spec)), step = <<"source", t>>
      PROVE  ~StatementRaises(step, spec) /\ Plannable(StatementOf(step, spec))
    <2>1. step[1] = "source" /\ step[2] = t
        BY <1>4
    <2>2. /\ ~Collides(SourceInputs(spec, t))
          /\ IsInjective(Map(LAMBDA j : j.table, SourceInputs(spec, t).joins))
        BY <2>1 DEF Excused
    <2>3. \E c \in Range(spec.charts) : IsSource(c.query) /\ c.query.table = t
        BY SourceTables
    <2>4. \A c \in Range(spec.charts) : ChartOk(c, spec.target_bi, TRUE)
        BY <1>1
    <2>5. Plannable(SourceSql(SourceInputs(spec, t)))
        BY <2>2, <2>3, <2>4, SourcePlans
    <2> QED  BY <2>1, <2>2, <2>5 DEF StatementRaises, StatementOf
<1> QED  BY <1>2, <1>3, <1>4

\* Nothing a warehouse resolves depends on the LIMIT.
LEMMA LimitBlind ==
    ASSUME NEW a, NEW b, a.table = b.table, a.sub = b.sub, a.joins = b.joins, a.items = b.items,
           a.where = b.where, a.group = b.group, a.order = b.order, a.raw = b.raw
    PROVE  /\ Outputs(a) = Outputs(b)
           /\ ResolvesIn(a) => ResolvesIn(b)
           /\ Plannable(a) => Plannable(b)
<1>1. Outputs(a) = Outputs(b)
    BY DEF Outputs
<1>2. Sources(a) = Sources(b)
    BY DEF Sources
<1>3. \A r : Resolves(a, r) <=> Resolves(b, r)
    BY <1>2 DEF Resolves
<1>4. \A r : Shadowed(a, r) <=> Shadowed(b, r)
    BY DEF Shadowed
<1>5. ResolvesIn(a) => ResolvesIn(b)
    BY <1>1, <1>2, <1>3, <1>4 DEF ResolvesIn
<1> QED  BY <1>1, <1>5 DEF Plannable

ClauseNames == {"table", "sub", "joins", "items", "where", "group", "order", "raw"}

\* A statement of a chart has every clause, and only a raw one is raw.
LEMMA ChartClauses ==
    ASSUME NEW q, NEW b \in BOOLEAN
    PROVE  /\ ClauseNames \subseteq DOMAIN ChartSql(q, b)
           /\ ~IsRaw(q) => ChartSql(q, b).raw = FALSE
<1>1. ASSUME NEW ms PROVE /\ ClauseNames \subseteq DOMAIN GroupedSelect(q, ms)
                          /\ GroupedSelect(q, ms).raw = FALSE
    BY DEF ClauseNames, GroupedSelect, From
<1>2. ClauseNames \subseteq DOMAIN WindowedSelect(q) /\ WindowedSelect(q).raw = FALSE
    BY DEF ClauseNames, WindowedSelect, From
<1>3. ASSUME NEW s, ClauseNames \subseteq DOMAIN s, s.raw = FALSE, NEW flat
      PROVE  ClauseNames \subseteq DOMAIN OrderAndLimit(s, q, flat, b) /\ OrderAndLimit(s, q, flat, b).raw = FALSE
    BY <1>3 DEF ClauseNames, OrderAndLimit
<1>4. ClauseNames \subseteq DOMAIN FlatSql(q, b) /\ FlatSql(q, b).raw = FALSE
    BY <1>1, <1>3 DEF FlatSql
<1>5. ClauseNames \subseteq DOMAIN WindowedSql(q, b) /\ WindowedSql(q, b).raw = FALSE
    BY <1>2, <1>3 DEF WindowedSql
<1>6. ClauseNames \subseteq DOMAIN HistogramSql(q, b) /\ HistogramSql(q, b).raw = FALSE
    BY DEF ClauseNames, HistogramSql, From
<1>7. ClauseNames \subseteq DOMAIN CompareSql(q) /\ CompareSql(q).raw = FALSE
    BY DEF ClauseNames, CompareSql, From
<1>8. ClauseNames \subseteq DOMAIN RawSql(q)
    BY DEF ClauseNames, RawSql, From
<1> QED  BY <1>4, <1>5, <1>6, <1>7, <1>8 DEF ChartSql

\* So a chart's statement plans without its LIMIT when it plans with it.
LEMMA UnlimitedPlans ==
    ASSUME NEW q, NEW b \in BOOLEAN
    PROVE  /\ Outputs(ChartSql(q, TRUE)) = Outputs(ChartSql(q, b))
           /\ ResolvesIn(ChartSql(q, TRUE)) => ResolvesIn(ChartSql(q, b))
           /\ Plannable(ChartSql(q, TRUE)) => Plannable(ChartSql(q, b))
<1>1. \A y \in BOOLEAN : ClauseNames \subseteq DOMAIN ChartSql(q, y)
    BY ChartClauses
<1>2. Unlimited(ChartSql(q, b)) = Unlimited(ChartSql(q, TRUE))
    BY LimitOnly
<1>3. ASSUME NEW y \in BOOLEAN, NEW n \in ClauseNames
      PROVE  Unlimited(ChartSql(q, y))[n] = ChartSql(q, y)[n]
    BY <1>1, <1>3 DEF Unlimited, ClauseNames
<1>4. \A n \in ClauseNames : ChartSql(q, TRUE)[n] = ChartSql(q, b)[n]
    BY <1>2, <1>3
<1> DEFINE x == ChartSql(q, TRUE)
           y == ChartSql(q, b)
<1> HIDE DEF x, y
<1>5. /\ x.table = y.table /\ x.sub = y.sub /\ x.joins = y.joins /\ x.items = y.items
      /\ x.where = y.where /\ x.group = y.group /\ x.order = y.order /\ x.raw = y.raw
    BY <1>4 DEF ClauseNames, x, y
<1> QED  BY <1>5, LimitBlind DEF x, y

-----------------------------------------------------------------------------
(* What is known to plan: what is remembered to, and what passed the gate. *)

PlanInv ==
    /\ phase = "gating" => Range(todo) \subseteq Range(Statements(spec))
    /\ \A p \in plans : p.ok = TRUE => Plannable(p.sql)
    /\ \A sql \in gated : Plannable(sql)

\* Nothing is known of a proposal.
LEMMA PlansInit == Init => PlanInv
BY DEF Init, PlanInv

\* A statement is remembered to plan, or passes the gate, only when it plans.
LEMMA PlansNext ==
    ASSUME GateInv, PlanInv, [Next]_vars
    PROVE  PlanInv'
<1>1. CASE UNCHANGED vars
    BY <1>1 DEF vars, PlanInv
<1>2. CASE Validate \/ Operator \/ ShowPreview
    BY <1>2 DEF Validate, Operator, ShowPreview, Fail, PlanInv
<1>3. CASE OneShot
    <2>1. CASE Fail("failed")
        BY <2>1 DEF Fail, PlanInv
    <2>2. CASE ~Fail("failed")
        <3>1. phase' = "approved" /\ gated' = gated
            BY <1>3, <2>2 DEF OneShot
        <3>2. PICK answers \in BOOLEAN :
                 plans' = {[sql |-> ChartSql(q, TRUE),
                            ok  |-> answers /\ Plannable(ChartSql(q, TRUE))] : q \in Reviewed}
            BY <1>3, <2>2 DEF OneShot
        <3>3. ASSUME NEW p \in plans', p.ok = TRUE PROVE Plannable(p.sql)
            <4>1. PICK q \in Reviewed :
                     p = [sql |-> ChartSql(q, TRUE), ok |-> answers /\ Plannable(ChartSql(q, TRUE))]
                BY <3>2, <3>3
            <4>2. p.sql = ChartSql(q, TRUE) /\ p.ok = (answers /\ Plannable(ChartSql(q, TRUE)))
                BY <4>1
            <4> QED  BY <3>3, <4>2
        <3> QED  BY <3>1, <3>3 DEF PlanInv
    <2> QED  BY <2>1, <2>2
<1>4. CASE Normalise
    <2>1. CASE Fail("failed")
        BY <2>1 DEF Fail, PlanInv
    <2>2. CASE ~Fail("failed")
        <3>1. todo' = Statements(spec') /\ plans' = plans /\ gated' = gated
            BY <1>4, <2>2 DEF Normalise
        <3> QED  BY <3>1 DEF PlanInv
    <2> QED  BY <2>1, <2>2
<1>5. CASE Gate
    <2>1. CASE Fail("failed")
        BY <2>1 DEF Fail, PlanInv
    <2>2. CASE ~Fail("failed")
        <3> DEFINE sql == StatementOf(Head(todo), spec)
        <3>1. /\ phase = "gating" /\ todo # <<>>
              /\ planned_ok(sql) \/ Plannable(sql)
              /\ gated' = gated \cup {sql}
              /\ todo' = Tail(todo)
              /\ spec' = spec /\ phase' = phase /\ plans' = plans
            BY <1>5, <2>2 DEF Gate
        <3> HIDE DEF sql
        <3>2. Plannable(sql)
            BY <3>1 DEF planned_ok, PlanInv
        <3>3. Range(Tail(todo)) \subseteq Range(todo)
            <4>1. todo \in Seq(Range(todo))
                BY <3>1 DEF GateInv, Passing, IsList
            <4>2. Tail(todo) \in Seq(Range(todo))
                BY <3>1, <4>1, HeadTailProperties
            <4> QED  BY <4>2, RangeOfSeq
        <3> QED  BY <3>1, <3>2, <3>3 DEF PlanInv
    <2> QED  BY <2>1, <2>2
<1>6. CASE Build
    BY <1>6 DEF Build, PlanInv
<1> QED  BY <1>1, <1>2, <1>3, <1>4, <1>5, <1>6 DEF Next, Done

\* What plans stays known to plan.
THEOREM Planned == Spec => [](GateInv /\ PlanInv)
<1>1. Init => GateInv /\ PlanInv
    BY GateInit, PlansInit
<1>2. GateInv /\ PlanInv /\ [Next]_vars => GateInv' /\ PlanInv'
    BY GateNext, PlansNext
<1> QED  BY <1>1, <1>2, PTL DEF Spec

\* A dataset is a statement that passed the gate, without its LIMIT or scaled.
LEMMA DatasetPlans ==
    ASSUME GateInv, PlanInv, IsBuilt, NEW id \in Ids
    PROVE  Plannable(Dataset(id))
<1>1. /\ Passing(spec, <<>>, gated)
      /\ IsSpec(spec)
    BY DEF GateInv, IsBuilt
<1>2. PICK large \in BOOLEAN : built = <<Compiled(spec, trials, large)>>
    BY DEF GateInv, IsBuilt
<1>3. PICK c \in Range(spec.charts) : c.id = id
    BY DEF Ids
<1>4. ChartOf(spec, id) = c
    BY <1>1, <1>3, ChartIs DEF Passing, IsSpec
<1>5. Plannable(StatementOf(StepOf(spec, c), spec))
    BY <1>1, StatementsCover DEF Passing, Range, PlanInv
<1>6. CASE spec.target_bi = "superset"
    <2>1. Dataset(id) = DatasetOf(spec, c)
        BY <1>2, <1>3, <1>4, <1>6 DEF Dataset, TheBuild, Compiled, SupersetBuild
    <2>2. CASE IsSource(c.query)
        <3>1. StatementOf(StepOf(spec, c), spec) = DatasetOf(spec, c)
            BY <1>6, <2>2 DEF StepOf, StatementOf, DatasetOf
        <3> QED  BY <1>5, <2>1, <3>1
    <2>3. CASE ~IsSource(c.query)
        <3>1. StatementOf(StepOf(spec, c), spec) = ChartSql(c.query, TRUE)
            BY <1>3, <1>4, <2>3 DEF StepOf, StatementOf
        <3>2. Dataset(id) = ChartSql(c.query, c.id \notin participating_chart_ids(spec))
            BY <2>1, <2>3 DEF DatasetOf
        <3> QED  BY <1>5, <3>1, <3>2, UnlimitedPlans
    <2> QED  BY <2>2, <2>3
<1>7. CASE spec.target_bi # "superset"
    <2> DEFINE limited == c.id \notin selector_scope_chart_ids(spec)
               sql == ChartSql(c.query, limited)
    <2>1. Dataset(id) = IF Scaled(c, large) THEN ScaleMeasures(sql, c.query) ELSE sql
        BY <1>2, <1>3, <1>4, <1>7 DEF Dataset, TheBuild, Compiled, DataLensBuild
    <2>2. StatementOf(StepOf(spec, c), spec) = ChartSql(c.query, TRUE)
        BY <1>3, <1>4, <1>7 DEF StepOf, StatementOf
    <2>3. IsQuery(c.query) /\ ChartOk(c, spec.target_bi, TRUE) /\ ~IsRaw(c.query)
        BY <1>1, <1>7 DEF IsSpec, IsChart, Passing, Valid, ChartOk, RawChartOk
    <2>4. limited \in BOOLEAN
        OBVIOUS
    <2> HIDE DEF limited
    <2>5. Plannable(sql) /\ ResolvesIn(sql)
        <3>1. ChartSql(c.query, TRUE).raw = FALSE
            BY <2>3, ChartClauses
        <3>2. ResolvesIn(ChartSql(c.query, TRUE))
            BY <1>5, <2>2, <3>1 DEF Plannable
        <3> QED  BY <1>5, <2>2, <2>4, <3>2, UnlimitedPlans
    <2>6. /\ IsList(Outputs(sql))
          /\ Range(Outputs(sql)) = Range(GroupAliases(c.query)) \cup Range(MeasureAliases(c.query))
        BY <2>3, <2>4, ChartItems, OutputsRange
    <2> HIDE DEF sql
    <2>7. Plannable(ScaleMeasures(sql, c.query))
        BY <2>3, <2>5, <2>6, ScaledPlans
    <2> QED  BY <2>1, <2>5, <2>7
<1> QED  BY <1>6, <1>7

\* Every statement of an accepted specification plans, and so does every
\* dataset that is built.
LEMMA AllPlan == GateInv /\ PlanInv => EveryStatementPlans
<1> SUFFICES ASSUME GateInv, PlanInv PROVE EveryStatementPlans
    OBVIOUS
<1>1. ASSUME phase = "gating", NEW step \in Range(todo), ~Excused(step)
      PROVE  ~StatementRaises(step, spec) /\ Plannable(StatementOf(step, spec))
    <2>1. IsSpec(spec) /\ Valid(spec, TRUE) /\ step \in Range(Statements(spec))
        BY <1>1 DEF GateInv, Passing, PlanInv
    <2> QED  BY <1>1, <2>1, StatementPlans
<1>2. ASSUME IsBuilt, NEW id \in Ids PROVE Plannable(Dataset(id))
    BY <1>2, DatasetPlans
<1> QED  BY <1>1, <1>2 DEF EveryStatementPlans

\* Whatever validates has SQL the warehouse can plan, for any specification
\* and any semantic model: each name resolves once, what is selected is grouped
\* or aggregated, an order names an output (sqlgen.py, dataset_plan.py); and a
\* dataset still plans without the LIMIT it was gated with, or scaled.
THEOREM StatementsPlan == Spec => []EveryStatementPlans
BY Planned, AllPlan, PTL

-----------------------------------------------------------------------------
(* What a categorical chart is ranked by. *)

\* A set of naturals has its least element.
LEMMA LeastIn ==
    ASSUME NEW S, S \subseteq Nat, S # {}
    PROVE  Min(S) \in S
<1>1. PICK n \in S : \A j \in S : ~(<<j, n>> \in OpToRel(<, Nat))
    BY NatLessThanWellFounded, WFMin
<1>2. ASSUME NEW j \in S PROVE n <= j
    <2>1. j \in Nat /\ n \in Nat
        OBVIOUS
    <2>2. ~(j < n)
        BY Zenon, <1>1, <2>1 DEF OpToRel
    <2> QED  BY <2>1, <2>2
<1> QED  BY <1>2 DEF Min

\* The label of an entity is one of its dimensions (_label_column).
LEMMA LabelOf ==
    ASSUME NEW t, Known(t), NEW id, LabelColumn(t, id) # <<>>
    PROVE  \E k \in Range(TheTable(t).columns) : LabelColumn(t, id) = <<k.name>> /\ k.role = "dimension"
<1> DEFINE columns == TheTable(t).columns
           card(c) == CHOOSE n \in {k.card : k \in Columns(t, c)} : TRUE
           id_card == IF HasColumn(t, id) /\ card(id) > 0 THEN card(id) ELSE TheTable(t).rows
           unique(k) == k.card > 0 /\ id_card > 0 /\ 100 * k.card >= 99 * id_card
           candidates == {i \in DOMAIN columns :
               LET k == columns[i] IN k.name # id /\ k.role = "dimension" /\ k.labels /\ unique(k)}
           named == {i \in candidates : columns[i].name = <<"name">>}
           pool == IF named # {} THEN named ELSE candidates
<1>1. candidates # {} /\ LabelColumn(t, id) = <<columns[Min(pool)].name>>
    BY Zenon DEF LabelColumn, FirstNamed
<1>2. \A i \in candidates : i \in DOMAIN columns /\ columns[i].role = "dimension"
    OBVIOUS
<1>3. pool \subseteq candidates /\ pool # {}
    BY Zenon, <1>1
<1> HIDE DEF pool, candidates
<1>4. IsList(columns)
    BY TablesAssumption DEF Known, TheTable, SemanticModel
<1>5. DOMAIN columns \subseteq Nat
    <2> HIDE DEF columns
    <2> QED  BY <1>4, LenProperties DEF IsList
<1>6. Min(pool) \in pool
    BY <1>2, <1>3, <1>5, LeastIn
<1>7. Min(pool) \in DOMAIN columns /\ columns[Min(pool)].role = "dimension"
    BY <1>2, <1>3, <1>6
<1>8. columns[Min(pool)] \in Range(columns)
    BY <1>7 DEF Range
<1> QED  BY <1>1, <1>7, <1>8

\* What a label join puts in the place of a key names its table and is no time.
LEMMA LabelIsNoTime ==
    ASSUME NEW r, NEW base, LabelJoinFor(r, base) # <<>>, NEW b
    PROVE  /\ Qualified(LabelJoinFor(r, base)[1].label)
           /\ ~HasRole(LabelJoinFor(r, base)[1].label, b, "time")
<1> DEFINE keys == {k \in Columns(base, r.col) : k.role = "dimension" /\ k.fk # <<>>}
           fk == (CHOOSE k \in keys : TRUE).fk[1]
           t == fk.table
           found == IF Known(t) THEN LabelColumn(t, fk.col) ELSE <<>>
           label == LabelJoinFor(r, base)[1].label
<1>1. found # <<>> /\ label = Ref(t, found[1])
    BY Zenon DEF LabelJoinFor
<1> HIDE DEF fk, label
<1>2. Known(t) /\ found = LabelColumn(t, fk.col)
    BY <1>1
<1>3. PICK k \in Range(TheTable(t).columns) : found = <<k.name>> /\ k.role = "dimension"
    BY <1>1, <1>2, LabelOf
<1>4. label.table = t /\ label.col = k.name
    BY <1>1, <1>3 DEF Ref
<1> HIDE DEF found, t
<1>5. Qualified(label)
    BY <1>2, <1>4, TablesAssumption DEF Qualified, Known, SemanticModel
<1>6. \A x \in Columns(t, k.name) : x = k
    <2> DEFINE cols == TheTable(t).columns
    <2>1. IsInjective([i \in DOMAIN cols |-> cols[i].name])
        BY <1>2, TablesAssumption DEF Known, TheTable, SemanticModel, Map
    <2>2. \A i, j \in DOMAIN cols : cols[i].name = cols[j].name => i = j
        BY <2>1 DEF IsInjective
    <2>3. PICK j \in DOMAIN cols : cols[j] = k
        BY DEF Range
    <2>4. \A x \in Columns(t, k.name) : \E i \in DOMAIN cols : x = cols[i] /\ cols[i].name = k.name
        BY <1>2 DEF Columns
    <2> QED  BY <2>2, <2>3, <2>4
<1>7. Resolved(label, b) = Columns(t, k.name)
    BY <1>4, <1>5 DEF Resolved, Qualify
<1>8. ~HasRole(label, b, "time")
    BY <1>3, <1>6, <1>7 DEF HasRole
<1> QED  BY <1>5, <1>8 DEF label

\* Label joins leave a chart that needs a ranking one.
LEMMA StillUnranked ==
    ASSUME NEW c, IsChart(c), NeedsTopN(c)
    PROVE  NeedsTopN(LabelJoins(c)) /\ LabelJoins(c).query.measures = c.query.measures
<1> DEFINE q == c.query
           found == [r \in Range(Roles(q)) |-> LabelJoinFor(r, q.table)]
           swap(r) == IF r \in DOMAIN found /\ found[r] # <<>> THEN found[r][1].label ELSE r
           roles == [n \in {"dimensions", "series", "rows", "columns"} |-> [i \in DOMAIN q[n] |-> swap(q[n][i])]]
           swapped == Only(group_columns(q), LAMBDA r : found[r] # <<>>)
           edge(j) == {j.on_left, j.on_right}
           added == Only(Map(LAMBDA r : found[r][1].join, swapped),
                         LAMBDA j : \A x \in Range(q.joins) : edge(x) # edge(j))
           joins == Distinct(q.joins) \o added
           order == [i \in DOMAIN q.order_by |-> [q.order_by[i] EXCEPT !.by = swap(q.order_by[i].by)]]
           query == [q EXCEPT !.dimensions = roles.dimensions, !.series = roles.series,
                              !.rows = roles.rows, !.columns = roles.columns,
                              !.joins = joins, !.order_by = order]
           joined == [c EXCEPT !.query = query]
<1>1. LabelJoins(c) = c \/ LabelJoins(c) = joined
    BY Zenon DEF LabelJoins, Relabelled, Map
<1>2. CASE LabelJoins(c) = c
    BY <1>2
<1>3. CASE LabelJoins(c) = joined
    <2>1. QueryLists \cup {"table", "raw"} \subseteq DOMAIN q
        BY DEF IsChart, IsQuery
    <2> DEFINE dims == roles.dimensions
    <2>2. dims = [i \in DOMAIN q.dimensions |-> swap(q.dimensions[i])]
        OBVIOUS
    <2>3. \A r : swap(r) = r \/ (Qualified(swap(r)) /\ ~HasRole(swap(r), q.table, "time"))
        BY LabelIsNoTime
    <2> HIDE DEF swap, joins, roles, order
    <2>4. /\ query.dimensions = roles.dimensions /\ query.order_by = order /\ query.table = q.table
          /\ query.measures = q.measures /\ query.raw = q.raw
        BY <2>1 DEF QueryLists
    <2> HIDE DEF query
    <2>5. joined.query = query /\ joined.viz = c.viz
        BY DEF IsChart
    <2> HIDE DEF joined
    <2>6. dims # <<>> /\ dims[1] = swap(q.dimensions[1])
        <3>1. q.dimensions # <<>> /\ IsList(q.dimensions)
            BY DEF NeedsTopN, IsChart, IsQuery, QueryLists
        <3>2. 1 \in DOMAIN q.dimensions
            BY <3>1 DEF IsList
        <3> HIDE DEF dims
        <3>3. 1 \in DOMAIN dims
            BY <2>2, <3>2
        <3> QED  BY <2>2, <3>2, <3>3
    <2>7. ~is_time_dimension(dims[1], q.table)
        BY <2>3, <2>6 DEF NeedsTopN, is_time_dimension
    <2>8. ~orders_by_measure(query)
        <3> SUFFICES ASSUME NEW i \in DOMAIN order, NEW m \in Range(q.measures),
                            order[i].by \in {Bare(m.column), Bare(measure_alias(m))}
                     PROVE  FALSE
            BY <2>4 DEF orders_by_measure, Range
        <3>1. i \in DOMAIN q.order_by /\ q.order_by[i] \in Range(q.order_by)
            BY DEF order, Range
        <3>2. q.order_by[i] = [by |-> q.order_by[i].by, desc |-> q.order_by[i].desc]
            BY <3>1 DEF IsChart, IsQuery
        <3>3. order[i].by = swap(q.order_by[i].by)
            <4>1. order[i] = [q.order_by[i] EXCEPT !.by = swap(q.order_by[i].by)]
                BY <3>1 DEF order
            <4> QED  BY <3>2, <4>1
        <3>4. \A a : ~Qualified(Bare(a))
            BY DEF Qualified, Bare
        <3>5. swap(q.order_by[i].by) = q.order_by[i].by
            BY <2>3, <3>3, <3>4
        <3> QED  BY <3>1, <3>3, <3>5 DEF NeedsTopN, orders_by_measure
    <2> HIDE DEF dims
    <2>9. NeedsTopN(joined)
        BY <2>4, <2>5, <2>6, <2>7, <2>8 DEF NeedsTopN, IsRaw, dims
    <2> QED  BY <1>3, <2>4, <2>5, <2>9
<1> QED  BY Zenon, <1>1, <1>2, <1>3

\* The alias of the first measure binds to the first measure, unless it is
\* also the column another measure reads.
LEMMA PrimaryTarget ==
    ASSUME NEW q, IsQuery(q), q.measures # <<>>, ~SharesName(q)
    PROVE  OrderTarget(q, Bare(measure_alias(q.measures[1]))) = measure_alias(q.measures[1])
<1> DEFINE a == measure_alias(q.measures[1])
           by == Bare(a)
<1>1. q.measures[1] \in Range(q.measures)
    <2>1. IsList(q.measures)
        BY DEF IsQuery, QueryLists
    <2> QED  BY <2>1 DEF IsList, Range
<1>2. \A m \in Range(q.measures) : m.column = a => measure_alias(m) = a
    BY DEF SharesName
<1>3. \A x, y : Bare(x) = Bare(y) => x = y
    BY DEF Bare
<1>4. ~Qualified(by) /\ by.col = a
    BY DEF Qualified, Bare
<1> HIDE DEF a
<1>5. \A m \in Range(q.measures) : NamesMeasure(by, m) => measure_alias(m) = a
    BY <1>2, <1>3 DEF NamesMeasure
<1> HIDE DEF by
<1> QED  BY <1>4, <1>5, TargetOf DEF a, by

\* A step into the gate ranks each chart that needs it.
LEMMA RankedStep ==
    ASSUME GateInv, [Next]_vars, phase' = "gating", phase # "gating",
           NEW i \in DOMAIN spec.charts, NeedsTopN(spec.charts[i]), ~SharesName(spec.charts[i].query)
    PROVE  RanksFirst(spec'.charts[i].query)
<1> DEFINE c == spec.charts[i]
           d == LabelJoins(c)
           q == d.query
           primary == q.measures[1]
           cap == IF d.viz = "pie" THEN PieTopN ELSE DefaultTopN
           order == <<[by |-> Bare(measure_alias(primary)), desc |-> primary.transform # "running_share"]>>
           limit == Smaller(q.limit, cap)
           query == [q EXCEPT !.order_by = order, !.limit = limit]
<1>1. Normalise
    BY DEF Next, vars, Validate, Operator, ShowPreview, OneShot, Gate, Build, Done, Fail
<1>2. spec' = apply_chart_defaults(apply_label_joins(spec))
    BY <1>1 DEF Normalise, Fail
<1>3. spec'.charts[i] = TopN(d)
    <2>1. spec'.charts = [j \in DOMAIN spec.charts |-> TopN(LabelJoins(spec.charts[j]))]
        BY <1>2, NormalisedShape DEF GateInv
    <2> QED  BY <2>1
<1>4. IsChart(c)
    BY DEF GateInv, IsSpec, Range
<1>5. IsChart(d) /\ NeedsTopN(d) /\ q.measures = c.query.measures
    BY <1>4, JoinedShape, StillUnranked
<1> HIDE DEF c, d
<1>6. TopN(d) = [d EXCEPT !.query = query]
    BY <1>5 DEF TopN
<1>7. QueryLists \cup {"limit"} \subseteq DOMAIN q /\ "query" \in DOMAIN d
    BY <1>5 DEF IsChart, IsQuery
<1> HIDE DEF order, limit
<1>8. query.order_by = order /\ query.measures = q.measures
    BY <1>7 DEF QueryLists
<1> HIDE DEF query
<1>9. spec'.charts[i].query = query
    BY <1>3, <1>6, <1>7
<1>10. /\ Len(order) = 1 /\ order[1].by = Bare(measure_alias(primary))
       /\ order[1].desc = (primary.transform # "running_share")
    BY DEF order
<1>11. IsQuery(query) /\ query.measures # <<>>
    <2>1. IsChart(TopN(d))
        BY <1>5, TopNShape
    <2>2. q.measures # <<>>
        BY <1>5 DEF NeedsTopN, IsChart, IsQuery, WellFormedQuery
    <2> QED  BY <1>3, <1>8, <1>9, <2>1, <2>2 DEF IsChart
<1>12. ~SharesName(query)
    BY <1>5, <1>8 DEF SharesName, c
<1>13. OrderTarget(query, Bare(measure_alias(query.measures[1]))) = measure_alias(query.measures[1])
    BY <1>11, <1>12, PrimaryTarget
<1> QED  BY <1>8, <1>9, <1>10, <1>13 DEF RanksFirst

\* A categorical chart nobody ordered goes to the gate cut to its largest by
\* the first measure it draws (normalize.py, _normalize_chart), for any
\* specification and any semantic model.
THEOREM RanksPrimary == Spec => RankedByPrimary
<1>1. GateInv /\ [Next]_vars =>
        [phase' = "gating" /\ phase # "gating" =>
          \A i \in DOMAIN spec.charts :
              NeedsTopN(spec.charts[i]) /\ ~SharesName(spec.charts[i].query)
                  => RanksFirst(spec'.charts[i].query)]_vars
    BY RankedStep
<1> QED  BY <1>1, Gated, PTL DEF Spec, RankedByPrimary

-----------------------------------------------------------------------------
(* The overview of a mart. *)

\* A column is the only one of its name.
LEMMA OneColumn ==
    ASSUME NEW t, Known(t), NEW k \in Range(TheTable(t).columns)
    PROVE  Columns(t, k.name) = {k}
<1> DEFINE cols == TheTable(t).columns
<1>1. IsInjective([i \in DOMAIN cols |-> cols[i].name])
    BY TablesAssumption DEF Known, TheTable, SemanticModel, Map
<1>2. \A i, j \in DOMAIN cols : cols[i].name = cols[j].name => i = j
    BY <1>1 DEF IsInjective
<1>3. PICK j \in DOMAIN cols : cols[j] = k
    BY DEF Range
<1>4. \A x : x \in Columns(t, k.name) <=> \E i \in DOMAIN cols : x = cols[i] /\ cols[i].name = k.name
    BY DEF Columns
<1> QED  BY <1>2, <1>3, <1>4

\* A column of a mart has the role the mart gives it.
LEMMA ColumnRole ==
    ASSUME NEW t, Known(t), NEW k \in Range(TheTable(t).columns), NEW role
    PROVE  HasRole(Bare(k.name), t, role) <=> k.role = role
<1>1. Columns(t, k.name) = {k}
    BY OneColumn
<1>2. Resolved(Bare(k.name), t) = Columns(t, k.name)
    BY DEF Resolved, Qualify, Qualified, Bare, Ref
<1> QED  BY <1>1, <1>2 DEF HasRole

\* What is neither a dimension nor a key has no label.
LEMMA NoLabel ==
    ASSUME NEW t, Known(t), NEW k \in Range(TheTable(t).columns), k.role # "dimension" \/ k.fk = <<>>
    PROVE  LabelJoinFor(Bare(k.name), t) = <<>>
<1>1. Bare(k.name).col = k.name
    BY DEF Bare
<1>2. {x \in Columns(t, k.name) : x.role = "dimension" /\ x.fk # <<>>} = {}
    BY OneColumn
<1> QED  BY <1>1, <1>2 DEF LabelJoinFor

\* The selection of a list by a test.
LEMMA Chosen ==
    ASSUME NEW seq, IsList(seq), NEW K
    PROVE  /\ IsList(At(seq, K))
           /\ \A x : x \in Range(At(seq, K)) <=> \E i \in DOMAIN seq : i \in K /\ x = seq[i]
<1>1. /\ At(seq, K) \in Seq(Range(seq))
      /\ \A x : x \in Range(At(seq, K)) <=> \E i \in DOMAIN seq : i \in K /\ x = seq[i]
    BY Kept DEF IsList
<1> QED  BY <1>1, SeqOfRange DEF IsList

\* The first elements of a list.
LEMMA Prefix ==
    ASSUME NEW seq, IsList(seq), NEW k \in 0 .. Len(seq)
    PROVE  /\ IsList(SubSeq(seq, 1, k)) /\ Len(SubSeq(seq, 1, k)) = k
           /\ Range(SubSeq(seq, 1, k)) \subseteq Range(seq)
           /\ \A i \in 1 .. k : SubSeq(seq, 1, k)[i] = seq[i]
<1>1. Len(seq) \in Nat /\ DOMAIN seq = 1 .. Len(seq)
    BY LenProperties DEF IsList
<1>2. k \in Int /\ \A i \in 1 .. k : seq[i] \in Range(seq)
    BY <1>1 DEF Range
<1>3. /\ SubSeq(seq, 1, k) \in Seq(Range(seq))
      /\ Len(SubSeq(seq, 1, k)) = IF 1 <= k THEN k - 1 + 1 ELSE 0
      /\ \A i \in 1 .. k - 1 + 1 : SubSeq(seq, 1, k)[i] = seq[1 + i - 1]
    BY <1>2, SubSeqProperties
<1>4. Len(SubSeq(seq, 1, k)) = k
    BY <1>3
<1>5. \A i \in 1 .. k : SubSeq(seq, 1, k)[i] = seq[i]
    BY <1>3
<1> QED  BY <1>3, <1>4, <1>5, SeqOfRange, RangeOfSeq DEF IsList

\* The columns of a role.
LEMMA OfRole ==
    ASSUME NEW t, Known(t), NEW role
    PROVE  /\ IsList(WithRole(t, role))
           /\ \A k \in Range(WithRole(t, role)) : k \in Range(TheTable(t).columns) /\ k.role = role
<1> DEFINE cols == TheTable(t).columns
           K == {i \in DOMAIN cols : cols[i].role = role}
<1>1. WithRole(t, role) = At(cols, K)
    BY DEF WithRole, Only, At
<1>2. IsList(cols)
    BY TablesAssumption DEF Known, TheTable, SemanticModel
<1>3. \A i \in K : cols[i].role = role
    OBVIOUS
<1> HIDE DEF K, cols
<1>4. /\ IsList(At(cols, K))
      /\ \A x : x \in Range(At(cols, K)) <=> \E i \in DOMAIN cols : i \in K /\ x = cols[i]
    BY <1>2, Chosen
<1>5. \A x \in Range(At(cols, K)) : x \in Range(cols) /\ x.role = role
    BY <1>3, <1>4 DEF Range
<1> QED  BY <1>1, <1>4, <1>5 DEF cols

\* The first and the last element of a list.
LEMMA FirstOf ==
    ASSUME NEW seq, IsList(seq), seq # <<>>
    PROVE  Len(seq) \in Nat \ {0} /\ DOMAIN seq = 1 .. Len(seq) /\ seq[1] \in Range(seq)
               /\ Last(seq) \in Range(seq)
<1>1. Len(seq) \in Nat /\ DOMAIN seq = 1 .. Len(seq)
    BY LenProperties DEF IsList
<1>2. Len(seq) # 0
    BY EmptySeq DEF IsList
<1>3. 1 \in DOMAIN seq /\ Len(seq) \in DOMAIN seq
    BY <1>1, <1>2
<1> QED  BY <1>1, <1>2, <1>3 DEF Range, Last

\* What an overview measures: an aggregate of a measure of the mart or a
\* count, as it is, as a share, or as its change over the year.
Plain(t, m) ==
    /\ m.denominator = <<>> /\ m.lag = <<>>
    /\ m.agg = "count" \/ \A k \in Columns(t, m.column) : k.role = "measure"
Base(t, m) == Plain(t, m) /\ m.transform = "none" /\ m.compare = <<>>
ShareOf(t, m) == Plain(t, m) /\ m.transform = "share_of_total" /\ m.compare = <<>>
Change(t, m) ==
    /\ Plain(t, m) /\ m.transform = "none"
    /\ m.compare # <<>> /\ m.compare[1].output = "pct" /\ m.compare[1].grain # "day"
    /\ HasRole(m.compare[1].column, t, "time")

\* A measure of the mart keeps to it when it becomes a share or a change.
LEMMA Derived ==
    ASSUME NEW t, NEW column, NEW agg, NEW label,
           agg = "count" \/ \A k \in Columns(t, column) : k.role = "measure"
    PROVE  LET m == [Aggregated(column, agg) EXCEPT !.label = label]
           IN  /\ Base(t, m) /\ ShareOf(t, share_of(m))
               /\ \A time : auto_time_grain(time.card) # "day" /\ HasRole(Bare(time.name), t, "time") =>
                     Change(t, year_over_year(m, time))
<1> DEFINE m == [Aggregated(column, agg) EXCEPT !.label = label]
<1>1. /\ m.column = column /\ m.agg = agg /\ m.denominator = <<>> /\ m.lag = <<>>
      /\ m.transform = "none" /\ m.compare = <<>>
    BY DEF Aggregated
<1>2. LET x == share_of(m)
      IN  /\ x.column = column /\ x.agg = agg /\ x.denominator = <<>> /\ x.lag = <<>>
          /\ x.transform = "share_of_total" /\ x.compare = <<>>
    BY DEF Aggregated, share_of
<1>3. ASSUME NEW time
      PROVE  LET x == year_over_year(m, time)
             IN  /\ x.column = column /\ x.agg = agg /\ x.denominator = <<>> /\ x.lag = <<>>
                 /\ x.transform = "none"
                 /\ x.compare = <<[column |-> Bare(time.name), grain |-> auto_time_grain(time.card),
                                    kind |-> "yoy", output |-> "pct"]>>
    BY DEF Aggregated, year_over_year
<1> HIDE DEF m
<1>4. Base(t, m)
    BY <1>1 DEF Base, Plain
<1>5. ShareOf(t, share_of(m))
    BY <1>2 DEF ShareOf, Plain
<1>6. ASSUME NEW time, auto_time_grain(time.card) # "day", HasRole(Bare(time.name), t, "time")
      PROVE  Change(t, year_over_year(m, time))
    <2> DEFINE x == year_over_year(m, time)
               c == [column |-> Bare(time.name), grain |-> auto_time_grain(time.card),
                     kind |-> "yoy", output |-> "pct"]
    <2>1. Plain(t, x) /\ x.transform = "none" /\ x.compare = <<c>>
        BY <1>3 DEF Plain
    <2>2. c.output = "pct" /\ c.grain # "day" /\ HasRole(c.column, t, "time")
        BY <1>6
    <2> HIDE DEF c, x
    <2>3. Change(t, x)
        BY <2>1, <2>2 DEF Change
    <2> QED  BY <2>3 DEF x
<1> QED  BY <1>4, <1>5, <1>6 DEF m

\* The measures of a mart.
Measured(t, ms) ==
    /\ IsList(ms) /\ ms # <<>>
    /\ \A m \in Range(ms) :
          /\ Base(t, m) /\ ShareOf(t, share_of(m))
          /\ \A time : auto_time_grain(time.card) # "day" /\ HasRole(Bare(time.name), t, "time") =>
                Change(t, year_over_year(m, time))

\* Every measure of an overview is one of the mart.
LEMMA MeasuresPlain == ASSUME NEW t, Known(t) PROVE Measured(t, MeasuresOf(t))
<1> DEFINE Usable(m) == /\ Base(t, m) /\ ShareOf(t, share_of(m))
                        /\ \A time : auto_time_grain(time.card) # "day" /\ HasRole(Bare(time.name), t, "time") =>
                              Change(t, year_over_year(m, time))
<1>1. \A column, agg : Aggregated(column, agg) = [Aggregated(column, agg) EXCEPT !.label = <<>>]
    BY DEF Aggregated
<1>2. ASSUME NEW k \in Range(TheTable(t).columns), k.role = "measure" PROVE Usable(to_measure(k))
    <2> DEFINE agg == IF k.agg # "none" THEN k.agg ELSE IF k.additive THEN "sum" ELSE "avg"
    <2>1. to_measure(k) = [Aggregated(k.name, agg) EXCEPT !.label = <<>>]
        BY <1>1 DEF to_measure
    <2>2. \A x \in Columns(t, k.name) : x.role = "measure"
        BY <1>2, OneColumn
    <2> HIDE DEF agg
    <2> DEFINE m == [Aggregated(k.name, agg) EXCEPT !.label = <<>>]
    <2>3. Usable(m)
        BY <2>2, Derived
    <2> HIDE DEF m, Usable
    <2>4. to_measure(k) = m
        BY <2>1 DEF m
    <2> QED  BY <2>3, <2>4
<1>3. Usable(synthetic_count(t))
    BY Derived DEF synthetic_count
<1> HIDE DEF Usable
<1>4. CASE WithRole(t, "measure") = <<>>
    <2>1. MeasuresOf(t) = <<synthetic_count(t)>>
        BY <1>4 DEF MeasuresOf
    <2>2. \A x : IsList(<<x>>) /\ Range(<<x>>) = {x} /\ <<x>> # <<>>
        BY Tuples
    <2> QED  BY <1>3, <2>1, <2>2 DEF Usable, Measured
<1>5. CASE WithRole(t, "measure") # <<>>
    <2> DEFINE cols == WithRole(t, "measure")
               ms == [i \in DOMAIN cols |-> to_measure(cols[i])]
    <2>1. MeasuresOf(t) = ms
        BY <1>5 DEF MeasuresOf, Map
    <2>2. IsList(cols) /\ \A k \in Range(cols) : k \in Range(TheTable(t).columns) /\ k.role = "measure"
        BY OfRole
    <2>3. cols # <<>>
        BY <1>5
    <2> HIDE DEF cols
    <2>4. IsList(ms) /\ DOMAIN ms = DOMAIN cols /\ Len(ms) = Len(cols)
        BY <2>2, Listing
    <2>5. Len(cols) # 0
        BY <2>2, <2>3, FirstOf
    <2>6. ASSUME NEW i \in DOMAIN cols PROVE Usable(ms[i])
        <3>1. cols[i] \in Range(TheTable(t).columns) /\ cols[i].role = "measure"
            BY <2>2 DEF Range
        <3> QED  BY <1>2, <3>1
    <2> HIDE DEF ms
    <2>7. \A m \in Range(ms) : Usable(m)
        BY <2>4, <2>6 DEF Range
    <2>8. ms # <<>>
        BY <2>4, <2>5
    <2> QED  BY <2>1, <2>4, <2>7, <2>8 DEF Usable, Measured
<1> QED  BY <1>4, <1>5

\* A column a breakdown may take: one of the mart that is no key, or one of a
\* mart that a key of the model reaches.
AxisOf(t, b) ==
    /\ LabelJoinFor(b.ref, t) = <<>> /\ ~HasRole(b.ref, t, "time")
    /\ \/ \E name : b.ref = Bare(name) /\ HasColumn(t, name) /\ b.join = <<>>
       \/ \E u, name, key, fk :
             /\ Known(u) /\ b.ref = Ref(u, name) /\ HasColumn(u, name)
             /\ HasColumn(t, key) /\ fk.table = u /\ {Ref(t, key), fk} \in SemanticModel.joins
             /\ b.join = <<[table |-> u, on_left |-> Ref(t, key), on_right |-> fk]>>

\* The breakdowns of a mart are such columns.
LEMMA BreakdownAxes ==
    ASSUME NEW t, Known(t)
    PROVE  /\ IsList(good_breakdowns(t))
           /\ \A b \in Range(good_breakdowns(t)) : AxisOf(t, b)
<1> DEFINE cols == TheTable(t).columns
           O == {i \in DOMAIN cols : Categorical(cols[i]) /\ cols[i].fk = <<>>}
           own == At(cols, O)
           axes == [i \in DOMAIN own |-> Axis(Bare(own[i].name), <<>>, own[i])]
           dims == WithRole(t, "dimension")
           F == {i \in DOMAIN dims : dims[i].fk # <<>>}
           keys == At(dims, F)
           over == [i \in DOMAIN keys |-> AttributesOver(t, keys[i])]
           all == axes \o FlattenSeq(over)
           Free(b) == AxisOf(t, b)
<1>1. good_breakdowns(t) = ByCard(all)
    BY DEF good_breakdowns, OwnBreakdowns, Map, Only, At
<1>2. IsList(cols)
    BY TablesAssumption DEF Known, TheTable, SemanticModel
<1>3. IsList(dims) /\ \A k \in Range(dims) : k \in Range(cols)
    BY OfRole
<1>4. IsList(axes) /\ \A b \in Range(axes) : Free(b)
    <2>1. \A i \in O : cols[i].fk = <<>> /\ cols[i].role # "time"
        BY DEF Categorical
    <2> HIDE DEF O, cols
    <2>2. /\ IsList(own)
          /\ \A x : x \in Range(own) <=> \E i \in DOMAIN cols : i \in O /\ x = cols[i]
        BY <1>2, Chosen
    <2>3. \A k \in Range(own) : k \in Range(cols) /\ k.fk = <<>> /\ k.role # "time"
        BY <2>1, <2>2 DEF Range
    <2> HIDE DEF own
    <2>4. IsList(axes)
        BY <2>2, Listing
    <2>5. ASSUME NEW i \in DOMAIN own PROVE Free(axes[i])
        <3>1. own[i] \in Range(cols) /\ own[i].fk = <<>> /\ own[i].role # "time"
            BY <2>3 DEF Range
        <3>2. LabelJoinFor(Bare(own[i].name), t) = <<>>
            BY <3>1, NoLabel DEF cols
        <3>3. axes[i].ref = Bare(own[i].name) /\ axes[i].join = <<>>
            BY DEF Axis
        <3>4. HasColumn(t, own[i].name)
            BY <3>1, OneColumn DEF HasColumn, cols
        <3>5. ~HasRole(Bare(own[i].name), t, "time")
            BY <3>1, ColumnRole DEF cols
        <3> HIDE DEF axes
        <3> QED  BY <3>2, <3>3, <3>4, <3>5 DEF AxisOf
    <2>6. DOMAIN axes = DOMAIN own
        OBVIOUS
    <2> HIDE DEF axes, Free
    <2> QED  BY <2>4, <2>5, <2>6 DEF Range
<1>5. ASSUME NEW key \in Range(cols)
      PROVE  IsList(AttributesOver(t, key)) /\ \A b \in Range(AttributesOver(t, key)) : Free(b)
    <2> DEFINE fk == key.fk[1]
               u == fk.table
               join == [table |-> u, on_left |-> Ref(t, key.name), on_right |-> fk]
               there == TheTable(u).columns
               A == {i \in DOMAIN there : Categorical(there[i]) /\ ~Contains(TheTable(u).grain, there[i].name)}
               attributes == At(there, A)
               reached == [i \in DOMAIN attributes |-> Axis(Ref(u, attributes[i].name), <<join>>, attributes[i])]
    <2>1. \/ AttributesOver(t, key) = <<>>
          \/ /\ Known(u) /\ {Ref(t, key.name), fk} \in SemanticModel.joins
             /\ AttributesOver(t, key) = reached
        BY Zenon DEF AttributesOver, Map, Only, At
    <2>2. CASE AttributesOver(t, key) = <<>>
        BY <2>2, Tuples
    <2>3. CASE /\ Known(u) /\ {Ref(t, key.name), fk} \in SemanticModel.joins
               /\ AttributesOver(t, key) = reached
        <3>1. IsList(there)
            BY Zenon, <2>3, TablesAssumption DEF Known, TheTable, SemanticModel
        <3>2. \A i \in DOMAIN reached : reached[i].ref = Ref(u, attributes[i].name) /\ reached[i].join = <<join>>
            BY Zenon DEF Axis
        <3>3. u # NoTable
            BY Zenon, <2>3, TablesAssumption DEF Known, SemanticModel
        <3>0. \A i \in A : there[i].role # "time"
            BY DEF Categorical
        <3>4. /\ IsList(attributes) /\ Range(attributes) \subseteq Range(there)
              /\ \A x \in Range(attributes) : x.role # "time"
            <4> HIDE DEF A, there
            <4>1. IsList(At(there, A))
                  /\ \A x : x \in Range(At(there, A)) <=> \E i \in DOMAIN there : i \in A /\ x = there[i]
                BY <3>1, Chosen
            <4>2. \A x \in Range(At(there, A)) : x.role # "time"
                BY <4>1, <3>0
            <4> QED  BY <4>1, <4>2 DEF Range
        <3>5. \A x \in Range(attributes) : HasColumn(u, x.name) /\ ~HasRole(Ref(u, x.name), t, "time")
            <4> SUFFICES ASSUME NEW x \in Range(attributes)
                         PROVE  HasColumn(u, x.name) /\ ~HasRole(Ref(u, x.name), t, "time")
                OBVIOUS
            <4>1. x \in Range(TheTable(u).columns) /\ Known(u) /\ x.role # "time"
                BY Zenon, <2>3, <3>4
            <4> HIDE DEF u, there, attributes
            <4>2. Columns(u, x.name) = {x}
                BY <4>1, OneColumn
            <4>3. ~HasRole(Ref(u, x.name), t, "time")
                BY <3>3, <4>1, <4>2 DEF HasRole, Resolved, Qualify, Qualified, Ref
            <4> QED  BY <4>2, <4>3 DEF HasColumn
        <3>6. HasColumn(t, key.name)
            BY OneColumn DEF HasColumn
        <3> HIDE DEF u, A, there, fk
        <3> HIDE DEF attributes
        <3>7. IsList(reached) /\ DOMAIN reached = DOMAIN attributes
            BY <3>4, Listing
        <3>8. \A x : LabelJoinFor(Ref(u, x), t) = <<>>
            BY <3>3 DEF LabelJoinFor, Ref, Qualified
        <3> HIDE DEF reached
        <3>9. ASSUME NEW i \in DOMAIN attributes PROVE Free(reached[i])
            <4> DEFINE b == reached[i]
                       name == attributes[i].name
            <4>1. /\ b.ref = Ref(u, name) /\ b.join = <<join>> /\ HasColumn(u, name)
                  /\ ~HasRole(Ref(u, name), t, "time")
                BY <3>2, <3>5, <3>7 DEF Range
            <4>2. fk.table = u
                BY DEF u
            <4> HIDE DEF b, name
            <4>3. AxisOf(t, b)
                BY <2>3, <3>6, <3>8, <4>1, <4>2 DEF AxisOf
            <4> QED  BY <4>3 DEF b
        <3>10. \A b \in Range(reached) : Free(b)
            BY <3>7, <3>9 DEF Range
        <3> QED  BY <2>3, <3>7, <3>10
    <2> QED  BY Zenon, <2>1, <2>2, <2>3
<1>6. IsList(FlattenSeq(over)) /\ \A b \in Range(FlattenSeq(over)) : Free(b)
    <2> DEFINE S == UNION {Range(AttributesOver(t, keys[i])) : i \in DOMAIN keys}
    <2> HIDE DEF F, dims, Free, cols
    <2>1. IsList(keys) /\ \A i \in DOMAIN keys : keys[i] \in Range(cols)
        <3>1. IsList(keys) /\ \A x : x \in Range(keys) <=> \E i \in DOMAIN dims : i \in F /\ x = dims[i]
            BY <1>3, Chosen
        <3>2. \A i \in DOMAIN dims : dims[i] \in Range(cols)
            BY <1>3 DEF Range
        <3> HIDE DEF keys
        <3> QED  BY <3>1, <3>2 DEF Range
    <2> HIDE DEF keys
    <2>2. Len(keys) \in Nat /\ DOMAIN keys = 1 .. Len(keys)
        BY <2>1, LenProperties DEF IsList
    <2>3. \A i \in DOMAIN keys : over[i] = AttributesOver(t, keys[i])
        OBVIOUS
    <2>4. \A i \in DOMAIN keys : over[i] \in Seq(S)
        <3> SUFFICES ASSUME NEW i \in DOMAIN keys PROVE over[i] \in Seq(S)
            OBVIOUS
        <3>1. IsList(AttributesOver(t, keys[i]))
            BY <1>5, <2>1
        <3>2. Range(AttributesOver(t, keys[i])) \subseteq S
            OBVIOUS
        <3> HIDE DEF S
        <3> QED  BY <3>1, <3>2, SeqMonotonic DEF IsList
    <2> HIDE DEF S
    <2>5. over \in [1 .. Len(keys) -> Seq(S)]
        BY <2>2, <2>4
    <2>6. over \in Seq(Seq(S)) /\ Len(over) = Len(keys)
        BY <2>2, <2>5
    <2> HIDE DEF over
    <2>7. /\ FlattenSeq(over) \in Seq(S)
          /\ \A x : x \in Range(FlattenSeq(over)) <=> \E i \in 1 .. Len(over) : x \in Range(over[i])
        BY <2>6, FlattenRange
    <2>8. IsList(FlattenSeq(over))
        BY <2>7, SeqOfRange DEF IsList
    <2> QED  BY <1>5, <2>1, <2>2, <2>3, <2>6, <2>7, <2>8
<1> HIDE DEF axes, over, Free
<1>7. IsList(all) /\ \A b \in Range(all) : Free(b)
    BY <1>4, <1>6, Concatenated
<1> HIDE DEF all
<1>8. IsList(ByCard(all)) /\ Range(ByCard(all)) \subseteq Range(all)
    <2> DEFINE C(n) == {i \in DOMAIN all : all[i].card = n}
               ss == [n \in 1 .. CardMax |-> At(all, C(n))]
    <2>1. ByCard(all) = FlattenSeq(ss)
        BY DEF ByCard, Only, At
    <2> HIDE DEF C
    <2>2. \A n : At(all, C(n)) \in Seq(Range(all))
        BY <1>7, Kept DEF IsList
    <2>3. CardMax \in Nat
        BY DEF CardMax
    <2> HIDE DEF CardMax
    <2>4. ss \in [1 .. CardMax -> Seq(Range(all))]
        BY <2>2
    <2>5. ss \in Seq(Seq(Range(all)))
        BY <2>3, <2>4
    <2> HIDE DEF ss
    <2>6. FlattenSeq(ss) \in Seq(Range(all))
        BY <2>5, FlattenRange
    <2> QED  BY <2>1, <2>6, SeqOfRange, RangeOfSeq DEF IsList
<1> QED  BY <1>1, <1>7, <1>8 DEF Free

\* The time column an overview takes: the first of its mart.
FirstTime(t, k) ==
    /\ k \in Range(TheTable(t).columns) /\ k.role = "time"
    /\ WithRole(t, "time") # <<>> /\ k = WithRole(t, "time")[1]

\* A query of an overview: one measure of the mart, alone, over time, or
\* along a breakdown that it ranks; limited to a period or not at all.
Period(name) == [column |-> Bare(name), op |-> ">=", value |-> "token"]

OfMart(q, t, m) ==
    /\ QueryLists \cup {"table", "raw", "bins", "time_grain"} \subseteq DOMAIN q
    /\ q.table = t /\ q.raw = "none" /\ q.bins = FALSE
    /\ q.series = <<>> /\ q.rows = <<>> /\ q.columns = <<>> /\ q.measures = <<m>>
    /\ q.filters = <<>> \/ \E name : HasColumn(t, name) /\ q.filters = <<Period(name)>>
Alone(q) == q.dimensions = <<>> /\ q.joins = <<>> /\ q.order_by = <<>> /\ q.time_grain = "none"
OverTime(q, t) ==
    /\ \E k \in Range(TheTable(t).columns) :
          /\ FirstTime(t, k) /\ k.role = "time" /\ q.dimensions = <<Bare(k.name)>>
          /\ q.order_by = <<[by |-> Bare(k.name), desc |-> FALSE]>>
    /\ q.joins = <<>>
Along(q, t, m) ==
    /\ \E b : AxisOf(t, b) /\ q.dimensions = <<b.ref>> /\ q.joins = b.join
    /\ q.order_by = <<[by |-> Bare(measure_alias(m)), desc |-> TRUE]>>
    /\ q.time_grain = "none"
Shows(viz, q, t, m) ==
    \/ viz = "big_number" /\ Alone(q) /\ (Base(t, m) \/ Change(t, m))
    \/ viz = "line" /\ OverTime(q, t) /\ Base(t, m)
    \/ viz = "bar" /\ Along(q, t, m) /\ (Base(t, m) \/ ShareOf(t, m))
    \/ viz = "table" /\ Along(q, t, m) /\ Base(t, m)
Drawn(c, t) ==
    /\ {"id", "viz", "query", "w", "row"} \subseteq DOMAIN c
    /\ c.w \in 1 .. GridCols /\ c.row = 0
    /\ \E m : OfMart(c.query, t, m) /\ Shows(c.viz, c.query, t, m)

\* A chart of an overview shows what it is given.
LEMMA CellDrawn ==
    ASSUME NEW t, NEW q, NEW m, OfMart(q, t, m), NEW viz, Shows(viz, q, t, m),
           NEW w \in 1 .. GridCols, NEW h
    PROVE  Drawn(Cell(viz, q, w, h), t)
<1> DEFINE c == Cell(viz, q, w, h)
<1>1. /\ {"id", "viz", "query", "w", "row"} \subseteq DOMAIN c
      /\ c.query = q /\ c.viz = viz /\ c.w = w /\ c.row = 0
    BY DEF Cell
<1> HIDE DEF c
<1>2. Drawn(c, t)
    BY <1>1 DEF Drawn
<1> QED  BY <1>2 DEF c

\* What a chart reads before it is ordered.
LEMMA ReadingIs ==
    ASSUME NEW t, NEW dims, NEW m
    PROVE  LET q == Reading(t, dims, m)
           IN  /\ OfMart(q, t, m) /\ q.dimensions = dims
               /\ q.joins = <<>> /\ q.order_by = <<>> /\ q.time_grain = "none"
               /\ "limit" \in DOMAIN q
BY DEF Reading, OfMart, QueryLists

\* A change of what a chart reads leaves the rest.
LEMMA StillOfMart ==
    ASSUME NEW t, NEW q, NEW m, OfMart(q, t, m), NEW p, DOMAIN p = DOMAIN q,
           \A n \in DOMAIN q \ {"joins", "order_by", "limit", "time_grain"} : p[n] = q[n]
    PROVE  OfMart(p, t, m) /\ p.dimensions = q.dimensions
<1>1. QueryLists \cup {"table", "raw", "bins", "time_grain"} \subseteq DOMAIN q
    BY DEF OfMart
<1>2. /\ p.table = q.table /\ p.raw = q.raw /\ p.bins = q.bins /\ p.dimensions = q.dimensions
      /\ p.series = q.series /\ p.rows = q.rows /\ p.columns = q.columns /\ p.measures = q.measures
      /\ p.filters = q.filters
    BY <1>1 DEF QueryLists
<1> QED  BY <1>1, <1>2 DEF OfMart

\* A ranked breakdown reads one measure of the mart along an axis of it.
LEMMA RankedAlong ==
    ASSUME NEW t, NEW m, NEW b, AxisOf(t, b), NEW cap
    PROVE  OfMart(Ranked(t, m, b, cap), t, m) /\ Along(Ranked(t, m, b, cap), t, m)
<1> DEFINE q == Reading(t, <<b.ref>>, m)
           j == b.join
           o == <<[by |-> Bare(measure_alias(m)), desc |-> TRUE]>>
           l == Least(b.card, cap)
           x == [q EXCEPT !.joins = j, !.order_by = o, !.limit = l]
<1>1. /\ OfMart(q, t, m) /\ q.dimensions = <<b.ref>> /\ q.time_grain = "none"
      /\ "limit" \in DOMAIN q
    BY ReadingIs
<1>2. Ranked(t, m, b, cap) = x
    BY DEF Ranked
<1>3. QueryLists \cup {"time_grain"} \subseteq DOMAIN q
    BY <1>1 DEF OfMart
<1> HIDE DEF q, o, l, j
<1>4. /\ DOMAIN x = DOMAIN q
      /\ \A n \in DOMAIN q \ {"joins", "order_by", "limit", "time_grain"} : x[n] = q[n]
      /\ x.joins = j /\ x.order_by = o /\ x.time_grain = q.time_grain
    BY <1>3 DEF QueryLists
<1> HIDE DEF x
<1>5. OfMart(x, t, m) /\ x.dimensions = <<b.ref>>
    BY <1>1, <1>4, StillOfMart
<1>6. Along(x, t, m)
    BY <1>1, <1>4, <1>5 DEF Along, o, j
<1> QED  BY <1>2, <1>5, <1>6

\* The indicators are drawn from the mart.
LEMMA KpisDrawn ==
    ASSUME NEW t, NEW ms, Measured(t, ms), NEW time, NEW yoy,
           yoy => HasRole(Bare(time[1].name), t, "time") /\ auto_time_grain(time[1].card) # "day"
    PROVE  IsList(Kpis(t, ms, time, yoy)) /\ \A c \in Range(Kpis(t, ms, time, yoy)) : Drawn(c, t)
<1> DEFINE y == year_over_year(ms[1], time[1])
           more == <<ms[1], y>> \o Tail(ms)
           cells == IF yoy THEN more ELSE ms
           n == Least(MaxKpis, Len(cells))
           kept == SubSeq(cells, 1, n)
           w == GridCols \div Len(kept)
           kpis == [i \in DOMAIN kept |-> Cell("big_number", Reading(t, <<>>, kept[i]), w, 4)]
           Usable(m) == Base(t, m) \/ Change(t, m)
<1>1. Kpis(t, ms, time, yoy) = kpis
    BY DEF Kpis, Map
<1>2. ms[1] \in Range(ms) /\ IsList(ms) /\ ms # <<>>
    BY FirstOf DEF Measured
<1>3. \A m \in Range(ms) : Usable(m)
    BY DEF Measured
<1>4. ASSUME yoy PROVE IsList(more) /\ \A m \in Range(more) : Usable(m)
    <2>1. Usable(y)
        BY <1>2, <1>4 DEF Measured
    <2>2. IsList(Tail(ms)) /\ Range(Tail(ms)) \subseteq Range(ms)
        BY <1>2, Rest
    <2> HIDE DEF y, Usable
    <2>3. IsList(<<ms[1], y>>) /\ Range(<<ms[1], y>>) = {ms[1], y}
        BY Tuples
    <2>4. /\ IsList(<<ms[1], y>> \o Tail(ms))
          /\ Range(<<ms[1], y>> \o Tail(ms)) = Range(<<ms[1], y>>) \cup Range(Tail(ms))
        BY <2>2, <2>3, Concatenated
    <2> QED  BY <1>2, <1>3, <2>1, <2>2, <2>3, <2>4
<1> HIDE DEF more, Usable
<1>5. IsList(cells) /\ \A m \in Range(cells) : Usable(m)
    BY <1>2, <1>3, <1>4
<1> HIDE DEF cells
<1>6. Len(cells) \in Nat
    BY <1>5, LenProperties DEF IsList
<1>7. n \in 0 .. Len(cells) /\ n <= 4
    BY <1>6 DEF Least, MaxKpis
<1> HIDE DEF n
<1>8. IsList(kept) /\ Range(kept) \subseteq Range(cells) /\ Len(kept) = n
    BY <1>5, <1>7, Prefix
<1>9. Len(kept) \in Nat /\ DOMAIN kept = 1 .. Len(kept)
    BY <1>8, LenProperties DEF IsList
<1>10. ASSUME NEW i \in DOMAIN kept PROVE w \in 1 .. GridCols
    <2>1. n \in {1, 2, 3, 4}
        BY <1>7, <1>8, <1>9
    <2> QED  BY <1>8, <2>1 DEF GridCols
<1> HIDE DEF kept, w
<1>11. IsList(kpis) /\ DOMAIN kpis = DOMAIN kept
    BY <1>8, Listing
<1>12. ASSUME NEW i \in DOMAIN kept PROVE Drawn(kpis[i], t)
    <2> DEFINE q == Reading(t, <<>>, kept[i])
    <2>1. Usable(kept[i])
        BY <1>5, <1>8 DEF Range
    <2>2. OfMart(q, t, kept[i]) /\ Alone(q)
        BY ReadingIs DEF Alone
    <2>3. kpis[i] = Cell("big_number", q, w, 4)
        OBVIOUS
    <2> HIDE DEF q
    <2>4. Shows("big_number", q, t, kept[i])
        BY <2>1, <2>2 DEF Shows, Usable
    <2> QED  BY <1>10, <2>2, <2>3, <2>4, CellDrawn
<1> HIDE DEF kpis
<1> QED  BY <1>1, <1>11, <1>12 DEF Range

\* The charts over time are drawn from the mart.
LEMMA DynamicsDrawn ==
    ASSUME NEW t, NEW m, Base(t, m), NEW time, IsList(time),
           \A k \in Range(time) : FirstTime(t, k)
    PROVE  IsList(Dynamics(t, m, time)) /\ \A c \in Range(Dynamics(t, m, time)) : Drawn(c, t)
<1> DEFINE grain(k) == auto_time_grain(k.card)
           x(k) == [Reading(t, <<Bare(k.name)>>, m) EXCEPT
                      !.order_by = <<[by |-> Bare(k.name), desc |-> FALSE]>>,
                      !.time_grain = IF grain(k) = "day" THEN "none" ELSE grain(k)]
           lines == [i \in DOMAIN time |-> Cell("line", x(time[i]), GridCols, 6)]
<1>1. Dynamics(t, m, time) = lines
    BY DEF Dynamics, Map
<1>2. IsList(lines) /\ DOMAIN lines = DOMAIN time
    BY Listing
<1>3. ASSUME NEW k \in Range(time) PROVE OfMart(x(k), t, m) /\ OverTime(x(k), t)
    <2> DEFINE o == <<[by |-> Bare(k.name), desc |-> FALSE]>>
               g == IF grain(k) = "day" THEN "none" ELSE grain(k)
               p == Reading(t, <<Bare(k.name)>>, m)
               y == [p EXCEPT !.order_by = o, !.time_grain = g]
    <2>1. x(k) = y
        OBVIOUS
    <2>2. OfMart(p, t, m) /\ p.dimensions = <<Bare(k.name)>> /\ p.joins = <<>>
        BY ReadingIs
    <2>3. QueryLists \cup {"time_grain"} \subseteq DOMAIN p
        BY <2>2 DEF OfMart
    <2> HIDE DEF o, g, p, x
    <2>4. /\ DOMAIN y = DOMAIN p
          /\ \A n \in DOMAIN p \ {"joins", "order_by", "limit", "time_grain"} : y[n] = p[n]
          /\ y.joins = p.joins /\ y.order_by = o
        BY <2>3 DEF QueryLists
    <2> HIDE DEF y
    <2>5. OfMart(y, t, m) /\ y.dimensions = <<Bare(k.name)>>
        BY <2>2, <2>4, StillOfMart
    <2>6. OverTime(y, t)
        BY <2>2, <2>4, <2>5 DEF OverTime, FirstTime, o
    <2> QED  BY <2>1, <2>5, <2>6
<1>4. GridCols \in 1 .. GridCols
    BY DEF GridCols
<1> HIDE DEF x
<1>5. ASSUME NEW i \in DOMAIN time PROVE Drawn(lines[i], t)
    <2>1. OfMart(x(time[i]), t, m) /\ OverTime(x(time[i]), t)
        BY <1>3 DEF Range
    <2>2. Shows("line", x(time[i]), t, m)
        BY <2>1 DEF Shows
    <2> QED  BY <1>4, <2>1, <2>2, CellDrawn
<1> HIDE DEF lines
<1> QED  BY <1>1, <1>2, <1>5 DEF Range

\* A breakdown is ranked by what its chart shows of each category.
LEMMA BarDrawn ==
    ASSUME NEW t, NEW m, NEW viz, \/ viz \in {"bar", "table"} /\ Base(t, m)
                                  \/ viz = "bar" /\ ShareOf(t, m),
           NEW b, AxisOf(t, b), NEW cap, NEW w \in 1 .. GridCols, NEW h
    PROVE  Drawn(Cell(viz, Ranked(t, m, b, cap), w, h), t)
<1> DEFINE q == Ranked(t, m, b, cap)
<1>1. OfMart(q, t, m) /\ Along(q, t, m)
    BY RankedAlong
<1> HIDE DEF q
<1>2. Shows(viz, q, t, m)
    BY <1>1 DEF Shows
<1>3. Drawn(Cell(viz, q, w, h), t)
    BY <1>1, <1>2, CellDrawn
<1> QED  BY <1>3 DEF q

\* The breakdowns are drawn from the mart.
LEMMA StructureDrawn ==
    ASSUME NEW t, NEW m, Base(t, m), ShareOf(t, share_of(m)), NEW yoy,
           NEW bs, IsList(bs), \A b \in Range(bs) : AxisOf(t, b)
    PROVE  IsList(Structure(t, m, bs, yoy)) /\ \A c \in Range(Structure(t, m, bs, yoy)) : Drawn(c, t)
<1> DEFINE share == bs # <<>> /\ bs[1].card <= StructureCardMax
           rest == IF share THEN Tail(bs) ELSE bs
           n == Least(Len(rest), IF yoy THEN MaxBarBreakdowns - 1 ELSE MaxBarBreakdowns)
           bars == SubSeq(rest, 1, n)
           cells == [i \in DOMAIN bars |-> Cell("bar", Ranked(t, m, bars[i], 25), 6, 6)]
           head == Cell("bar", Ranked(t, share_of(m), bs[1], StructureCardMax), 6, 6)
           last == IF share /\ is_additive_agg(m.agg) THEN <<head>> ELSE <<>>
<1>1. Structure(t, m, bs, yoy) = cells \o last
    BY DEF Structure, Map
<1>2. IsList(rest) /\ Range(rest) \subseteq Range(bs)
    BY Rest
<1>3. 6 \in 1 .. GridCols
    BY DEF GridCols
<1>4. IsList(last) /\ \A c \in Range(last) : Drawn(c, t)
    <2>1. CASE share /\ is_additive_agg(m.agg)
        <3>1. bs[1] \in Range(bs)
            BY <2>1, FirstOf
        <3>2. Drawn(head, t)
            BY <1>3, <3>1, BarDrawn
        <3> HIDE DEF head
        <3>3. IsList(<<head>>) /\ Range(<<head>>) = {head}
            BY Tuples
        <3> QED  BY <2>1, <3>2, <3>3
    <2>2. CASE ~(share /\ is_additive_agg(m.agg))
        BY <2>2, Tuples
    <2> QED  BY <2>1, <2>2
<1> HIDE DEF rest, last
<1>5. Len(rest) \in Nat
    BY <1>2, LenProperties DEF IsList
<1>6. n \in 0 .. Len(rest)
    BY <1>5 DEF Least, MaxBarBreakdowns
<1> HIDE DEF n
<1>7. IsList(bars) /\ Range(bars) \subseteq Range(rest)
    BY <1>2, <1>6, Prefix
<1> HIDE DEF bars
<1>8. IsList(cells) /\ DOMAIN cells = DOMAIN bars
    BY <1>7, Listing
<1>9. ASSUME NEW i \in DOMAIN bars PROVE Drawn(cells[i], t)
    <2>1. AxisOf(t, bars[i])
        BY <1>2, <1>7 DEF Range
    <2>2. Drawn(Cell("bar", Ranked(t, m, bars[i], 25), 6, 6), t)
        BY <1>3, <2>1, BarDrawn
    <2> QED  BY <2>2
<1> HIDE DEF cells
<1>10. \A c \in Range(cells) : Drawn(c, t)
    BY <1>8, <1>9 DEF Range
<1>11. IsList(cells \o last) /\ Range(cells \o last) = Range(cells) \cup Range(last)
    BY <1>4, <1>8, Concatenated
<1> QED  BY <1>1, <1>4, <1>10, <1>11

\* The table of details is drawn from the mart.
LEMMA DetailDrawn ==
    ASSUME NEW t, NEW m, Base(t, m), NEW bs, IsList(bs), \A b \in Range(bs) : AxisOf(t, b)
    PROVE  IsList(Detail(t, m, bs)) /\ \A c \in Range(Detail(t, m, bs)) : Drawn(c, t)
<1>1. CASE bs = <<>>
    BY <1>1, Tuples DEF Detail
<1>2. CASE bs # <<>>
    <2> DEFINE c == Cell("table", Ranked(t, m, Last(bs), 25), GridCols, 8)
    <2>1. Detail(t, m, bs) = <<c>>
        BY <1>2 DEF Detail
    <2>2. Last(bs) \in Range(bs)
        BY <1>2, FirstOf
    <2>3. GridCols \in 1 .. GridCols
        BY DEF GridCols
    <2>4. Drawn(c, t)
        BY <2>2, <2>3, BarDrawn
    <2> HIDE DEF c
    <2>5. IsList(<<c>>) /\ Range(<<c>>) = {c}
        BY Tuples
    <2> QED  BY <2>1, <2>4, <2>5
<1> QED  BY <1>1, <1>2

Limited(c, name) == [c EXCEPT !.query.filters = <<Period(name)>>]

\* The width of a chart, its id and its period may be set afterwards.
LEMMA StillDrawn ==
    ASSUME NEW t, NEW c, Drawn(c, t)
    PROVE  /\ \A w \in 1 .. GridCols : Drawn([c EXCEPT !.w = w], t) /\ [c EXCEPT !.w = w].w = w
           /\ \A id : /\ Drawn([c EXCEPT !.id = id], t)
                      /\ [c EXCEPT !.id = id].id = id /\ [c EXCEPT !.id = id].w = c.w
           /\ \A name : HasColumn(t, name) =>
                 LET x == Limited(c, name)
                 IN  Drawn(x, t) /\ x.query.filters = <<Period(name)>> /\ x.id = c.id /\ x.w = c.w
<1>1. {"id", "viz", "query", "w", "row"} \subseteq DOMAIN c
    BY DEF Drawn
<1>2. ASSUME NEW w \in 1 .. GridCols PROVE Drawn([c EXCEPT !.w = w], t) /\ [c EXCEPT !.w = w].w = w
    <2> DEFINE x == [c EXCEPT !.w = w]
    <2>1. DOMAIN x = DOMAIN c /\ x.viz = c.viz /\ x.query = c.query /\ x.w = w /\ x.row = c.row
        BY <1>1
    <2> HIDE DEF x
    <2>2. Drawn(x, t)
        BY <2>1 DEF Drawn
    <2> QED  BY <2>1, <2>2 DEF x
<1>3. ASSUME NEW id
      PROVE  Drawn([c EXCEPT !.id = id], t) /\ [c EXCEPT !.id = id].id = id /\ [c EXCEPT !.id = id].w = c.w
    <2> DEFINE x == [c EXCEPT !.id = id]
    <2>1. DOMAIN x = DOMAIN c /\ x.viz = c.viz /\ x.query = c.query /\ x.w = c.w /\ x.row = c.row /\ x.id = id
        BY <1>1
    <2> HIDE DEF x
    <2>2. Drawn(x, t)
        BY <2>1 DEF Drawn
    <2> QED  BY <2>1, <2>2 DEF x
<1>4. ASSUME NEW name, HasColumn(t, name)
      PROVE  LET x == Limited(c, name)
             IN  Drawn(x, t) /\ x.query.filters = <<Period(name)>> /\ x.id = c.id /\ x.w = c.w
    <2> DEFINE q == c.query
               fs == <<Period(name)>>
               p == [q EXCEPT !.filters = fs]
               x == [c EXCEPT !.query = p]
    <2>1. Limited(c, name) = x
        BY <1>1 DEF Limited
    <2>2. PICK m : OfMart(q, t, m) /\ Shows(c.viz, q, t, m)
        BY DEF Drawn
    <2>3. QueryLists \cup {"table", "raw", "bins", "time_grain"} \subseteq DOMAIN q
        BY <2>2 DEF OfMart
    <2>4. /\ x.query = p /\ x.viz = c.viz /\ x.id = c.id /\ x.w = c.w /\ x.row = c.row
          /\ DOMAIN x = DOMAIN c
        BY <1>1
    <2> HIDE DEF q, fs
    <2>5. /\ DOMAIN p = DOMAIN q /\ \A n \in DOMAIN q \ {"filters"} : p[n] = q[n]
          /\ p.filters = fs
        BY <2>3 DEF QueryLists
    <2> HIDE DEF p, x
    <2>6. /\ p.table = q.table /\ p.raw = q.raw /\ p.bins = q.bins /\ p.dimensions = q.dimensions
          /\ p.series = q.series /\ p.rows = q.rows /\ p.columns = q.columns
          /\ p.measures = q.measures /\ p.order_by = q.order_by /\ p.joins = q.joins
          /\ p.time_grain = q.time_grain
        BY <2>3, <2>5 DEF QueryLists
    <2>7. OfMart(p, t, m)
        BY <1>4, <2>2, <2>5, <2>6 DEF OfMart, fs
    <2>8. Shows(c.viz, p, t, m)
        BY <2>2, <2>6 DEF Shows, Alone, OverTime, Along
    <2>9. Drawn(x, t)
        BY <1>1, <2>4, <2>7, <2>8 DEF Drawn
    <2> QED  BY <2>1, <2>4, <2>5, <2>9 DEF fs
<1> QED  BY <1>2, <1>3, <1>4

\* A tile left alone in the last row is given all of it.
LEMMA FilledDrawn ==
    ASSUME NEW t, NEW cs, IsList(cs), \A c \in Range(cs) : Drawn(c, t)
    PROVE  LET f == fill_trailing_row(cs)
           IN  /\ IsList(f) /\ Len(f) = Len(cs) /\ \A i \in DOMAIN f : Drawn(f[i], t)
               /\ cs # <<>> /\ PackWidth(f)[Len(f)].n = 1 => f[Len(f)].w = GridCols
<1> DEFINE wide == [Last(cs) EXCEPT !.w = GridCols]
           f == [cs EXCEPT ![Len(cs)] = wide]
<1>1. \A i \in DOMAIN cs : Drawn(cs[i], t)
    BY DEF Range
<1>2. DOMAIN f = DOMAIN cs /\ \A i \in DOMAIN cs : f[i] = IF i = Len(cs) THEN wide ELSE cs[i]
    OBVIOUS
<1>3. GridCols \in 1 .. GridCols
    BY DEF GridCols
<1>4. Len(cs) \in DOMAIN cs => Drawn(wide, t) /\ wide.w = GridCols
    BY <1>1, <1>3, StillDrawn DEF Last
<1>5. fill_trailing_row(cs) = IF PackWidth(cs)[Len(cs)].n = 1 THEN f ELSE cs
    BY DEF fill_trailing_row
<1>6. IsList(f) /\ Len(f) = Len(cs)
    <2>1. f = [i \in DOMAIN cs |-> f[i]]
        OBVIOUS
    <2> HIDE DEF f
    <2> QED  BY <2>1, Listing
<1>7. cs # <<>> => Len(cs) \in DOMAIN cs
    BY FirstOf
<1> HIDE DEF f, wide
<1>8. CASE PackWidth(cs)[Len(cs)].n = 1
    BY <1>1, <1>2, <1>4, <1>5, <1>6, <1>7, <1>8
<1>9. CASE PackWidth(cs)[Len(cs)].n # 1
    BY <1>1, <1>5, <1>9
<1> QED  BY <1>8, <1>9

\* No column such a chart groups by has a label.
LEMMA DrawnGroups ==
    ASSUME NEW t, Known(t), NEW q, NEW m, OfMart(q, t, m), NEW viz, Shows(viz, q, t, m)
    PROVE  /\ IsList(q.dimensions)
           /\ q.dimensions = <<>> \/ \E r : q.dimensions = <<r>> /\ LabelJoinFor(r, t) = <<>>
<1>1. CASE Alone(q)
    BY <1>1, Tuples DEF Alone
<1>2. CASE OverTime(q, t)
    <2>1. PICK k \in Range(TheTable(t).columns) : k.role = "time" /\ q.dimensions = <<Bare(k.name)>>
        BY <1>2 DEF OverTime
    <2>2. LabelJoinFor(Bare(k.name), t) = <<>>
        BY <2>1, NoLabel
    <2> QED  BY <2>1, <2>2, Tuples
<1>3. CASE Along(q, t, m)
    <2>1. PICK b : AxisOf(t, b) /\ q.dimensions = <<b.ref>>
        BY <1>3 DEF Along
    <2> QED  BY <2>1, Tuples DEF AxisOf
<1> QED  BY <1>1, <1>2, <1>3 DEF Shows

\* Normalisation leaves such a chart as it is.
LEMMA DrawnStays ==
    ASSUME NEW t, Known(t), NEW c, Drawn(c, t)
    PROVE  LabelJoins(c) = c /\ TopN(c) = c
<1> DEFINE q == c.query
           gc == group_columns(q)
           found == [r \in Range(Roles(q)) |-> LabelJoinFor(r, q.table)]
           K == {i \in DOMAIN gc : found[gc[i]] # <<>>}
<1>1. PICK m : OfMart(q, t, m) /\ Shows(c.viz, q, t, m)
    BY DEF Drawn
<1>2. Only(gc, LAMBDA r : found[r] # <<>>) = <<>>
    <2>1. q.series = <<>> /\ q.rows = <<>> /\ q.columns = <<>> /\ q.table = t
        BY <1>1 DEF OfMart
    <2>2. IsList(q.dimensions) /\ \A r \in Range(q.dimensions) : LabelJoinFor(r, t) = <<>>
        <3>1. /\ IsList(q.dimensions)
              /\ q.dimensions = <<>> \/ \E r : q.dimensions = <<r>> /\ LabelJoinFor(r, t) = <<>>
            BY <1>1, DrawnGroups
        <3> HIDE DEF q
        <3>2. CASE q.dimensions = <<>>
            BY <3>1, <3>2, Tuples
        <3>3. ASSUME NEW r, q.dimensions = <<r>>, LabelJoinFor(r, t) = <<>>
              PROVE  \A x \in Range(q.dimensions) : LabelJoinFor(x, t) = <<>>
            <4>1. Range(q.dimensions) = {r}
                BY <3>3, Tuples
            <4> QED  BY <3>3, <4>1
        <3> QED  BY <3>1, <3>2, <3>3
    <2> HIDE DEF q
    <2>3. \A n \in {"dimensions", "series", "rows", "columns"} : IsList(q[n])
        BY <2>1, <2>2, Tuples
    <2>4. /\ IsList(gc) /\ Range(gc) = Range(Roles(q))
          /\ Range(Roles(q)) = Range(q.dimensions) \cup Range(q.series)
                                  \cup Range(q.rows) \cup Range(q.columns)
        BY <2>3, RolesRange
    <2>5. \A r \in Range(Roles(q)) : found[r] = <<>>
        BY <2>1, <2>2, <2>4, Tuples
    <2> HIDE DEF found, gc
    <2>6. \A i \in DOMAIN gc : gc[i] \in Range(gc)
        BY DEF Range
    <2>7. K = {}
        BY <2>4, <2>5, <2>6
    <2>8. Only(gc, LAMBDA r : found[r] # <<>>) = At(gc, K)
        BY DEF Only, At
    <2> HIDE DEF K
    <2>9. IsList(At(gc, K)) /\ Range(At(gc, K)) = {}
        BY <2>4, <2>7, Chosen
    <2>10. At(gc, K) = <<>>
        BY <2>9, FirstOf
    <2> QED  BY <2>8, <2>10
<1>3. Relabelled(c, found) = c
    BY <1>2 DEF Relabelled
<1>4. LabelJoins(c) = c
    BY <1>3 DEF LabelJoins
<1>5. ~NeedsTopN(c)
    <2>1. CASE c.viz \in {"big_number", "line", "table"}
        BY <2>1 DEF NeedsTopN
    <2>2. CASE Along(q, t, m)
        <3> DEFINE o == [by |-> Bare(measure_alias(m)), desc |-> TRUE]
        <3>1. q.measures = <<m>> /\ q.order_by = <<o>>
            BY <1>1, <2>2 DEF OfMart, Along
        <3>2. o \in Range(q.order_by) /\ m \in Range(q.measures)
            BY <3>1, Tuples
        <3>3. o.by = Bare(measure_alias(m))
            OBVIOUS
        <3> HIDE DEF o
        <3>4. orders_by_measure(q)
            BY <3>2, <3>3 DEF orders_by_measure
        <3> QED  BY <3>4 DEF NeedsTopN
    <2> QED  BY <1>1, <2>1, <2>2 DEF Shows
<1> QED  BY <1>4, <1>5 DEF TopN

\* An overview: its charts are drawn from the mart and named by their places,
\* a last row of one tile is filled by it, and every chart is limited to the
\* period of the board when the board has one.
FilledRow(charts) ==
    \E cs : /\ IsList(cs) /\ Len(cs) = Len(charts)
            /\ \A i \in DOMAIN cs : cs[i].w = charts[i].w
            /\ cs # <<>> /\ PackWidth(cs)[Len(cs)].n = 1 => cs[Len(cs)].w = GridCols
HasPeriod(s, t, k) ==
    /\ FirstTime(t, k) /\ k.role = "time"
    /\ s.filters = <<[column |-> Ref(t, k.name), default |-> "token"]>>
    /\ \A i \in DOMAIN s.charts : s.charts[i].query.filters = <<Period(k.name)>>
Board(s, t) ==
    /\ IsList(s.charts) /\ Len(s.charts) <= Len(AutoIds)
    /\ \A i \in DOMAIN s.charts : Drawn(s.charts[i], t) /\ s.charts[i].id = AutoIds[i]
    /\ FilledRow(s.charts)
    /\ s.filters = <<>> \/ \E k \in Range(TheTable(t).columns) : HasPeriod(s, t, k)

\* The overview of a mart is its board, cut to any number of charts.
LEMMA OverviewDrawn ==
    ASSUME NEW t, Known(t), NEW limit \in 1 .. Len(AutoIds), NEW target
    PROVE  Board(Overview(t, limit, target), t)
<1> DEFINE ms == MeasuresOf(t)
           times == WithRole(t, "time")
           time == SubSeq(times, 1, Least(1, Len(times)))
           yoy == time # <<>> /\ yoy_applicable(time[1].card)
           bs == good_breakdowns(t)
           all == Kpis(t, ms, time, yoy) \o Dynamics(t, ms[1], time)
                    \o Structure(t, ms[1], bs, yoy) \o Detail(t, ms[1], bs)
           first == SubSeq(all, 1, Least(limit, Len(all)))
           cut == fill_trailing_row(first)
           named == [i \in DOMAIN cut |-> [cut[i] EXCEPT !.id = AutoIds[i]]]
           charts == IF time = <<>> THEN named ELSE Map(LAMBDA c : Baked(c, time), named)
           filters == Map(LAMBDA k : [column |-> Ref(t, k.name), default |-> "token"], time)
<1>1. Overview(t, limit, target) = [target_bi |-> target, filters |-> filters, charts |-> charts]
    BY DEF Overview
<1>2. Measured(t, ms)
    BY MeasuresPlain
<1>3. IsList(bs) /\ \A b \in Range(bs) : AxisOf(t, b)
    BY BreakdownAxes
<1>4. /\ IsList(times)
      /\ \A k \in Range(times) : k \in Range(TheTable(t).columns) /\ k.role = "time"
    BY OfRole
<1> HIDE DEF ms, times, bs
<1>5. Len(times) \in Nat
    BY <1>4, LenProperties DEF IsList
<1>6. Least(1, Len(times)) \in 0 .. Len(times) /\ Least(1, Len(times)) \in {0, 1}
    BY <1>5 DEF Least
<1>7. /\ IsList(time) /\ Len(time) \in {0, 1}
      /\ \A k \in Range(time) : k \in Range(TheTable(t).columns) /\ k.role = "time"
      /\ \A k \in Range(time) : FirstTime(t, k)
    <2> DEFINE n == Least(1, Len(times))
    <2> HIDE DEF n
    <2>1. n \in 0 .. Len(times) /\ n \in {0, 1}
        BY <1>6 DEF n
    <2>2. time = SubSeq(times, 1, n)
        BY DEF n
    <2> HIDE DEF time
    <2>3. /\ IsList(time) /\ Len(time) = n /\ Range(time) \subseteq Range(times)
          /\ \A i \in 1 .. n : time[i] = times[i]
        BY <1>4, <2>1, <2>2, Prefix
    <2>4. ASSUME NEW k \in Range(time) PROVE times # <<>> /\ k = times[1]
        <3>1. DOMAIN time = 1 .. n
            BY <2>3, LenProperties DEF IsList
        <3>2. PICK i \in DOMAIN time : k = time[i]
            BY DEF Range
        <3>3. i = 1 /\ n = 1
            BY <2>1, <3>1, <3>2
        <3>4. Len(times) # 0
            BY <1>5, <2>1, <3>3
        <3>5. times # <<>>
            BY <3>4, EmptySeq DEF IsList
        <3>6. 1 \in 1 .. n
            BY <3>3
        <3>7. \A j \in 1 .. n : time[j] = times[j]
            BY <2>3
        <3>8. time[1] = times[1]
            BY Zenon, <3>6, <3>7
        <3> QED  BY <3>2, <3>3, <3>5, <3>8
    <2>5. \A k \in Range(time) : FirstTime(t, k)
        BY <1>4, <2>3, <2>4 DEF FirstTime, times
    <2> QED  BY <1>4, <2>1, <2>3, <2>5
<1> HIDE DEF time
<1>8. Base(t, ms[1]) /\ ShareOf(t, share_of(ms[1]))
    BY <1>2, FirstOf DEF Measured
<1>9. \A k \in Range(time) : HasRole(Bare(k.name), t, "time") /\ HasColumn(t, k.name)
    <2> SUFFICES ASSUME NEW k \in Range(time)
                 PROVE  HasRole(Bare(k.name), t, "time") /\ HasColumn(t, k.name)
        OBVIOUS
    <2>1. Columns(t, k.name) = {k} /\ k.role = "time"
        BY <1>7, OneColumn
    <2>2. Resolved(Bare(k.name), t) = Columns(t, k.name)
        BY DEF Resolved, Qualify, Qualified, Bare, Ref
    <2> QED  BY <2>1, <2>2 DEF HasRole, HasColumn
<1>10. yoy => HasRole(Bare(time[1].name), t, "time") /\ auto_time_grain(time[1].card) # "day"
    <2>1. yoy => time[1] \in Range(time)
        BY <1>7, FirstOf
    <2>2. yoy => auto_time_grain(time[1].card) = "month"
        BY DEF yoy_applicable
    <2> HIDE DEF yoy
    <2> QED  BY <1>9, <2>1, <2>2
<1> HIDE DEF yoy
<1>11. IsList(all) /\ \A c \in Range(all) : Drawn(c, t)
    <2> DEFINE a == Kpis(t, ms, time, yoy)
               b == Dynamics(t, ms[1], time)
               d == Structure(t, ms[1], bs, yoy)
               e == Detail(t, ms[1], bs)
    <2>1. IsList(a) /\ \A c \in Range(a) : Drawn(c, t)
        BY <1>2, <1>10, KpisDrawn
    <2>2. IsList(b) /\ \A c \in Range(b) : Drawn(c, t)
        BY <1>7, <1>8, DynamicsDrawn
    <2>3. IsList(d) /\ \A c \in Range(d) : Drawn(c, t)
        BY <1>3, <1>8, StructureDrawn
    <2>4. IsList(e) /\ \A c \in Range(e) : Drawn(c, t)
        BY <1>3, <1>8, DetailDrawn
    <2> HIDE DEF a, b, d, e
    <2>5. IsList(a \o b) /\ Range(a \o b) = Range(a) \cup Range(b)
        BY <2>1, <2>2, Concatenated
    <2>6. IsList(a \o b \o d) /\ Range(a \o b \o d) = Range(a \o b) \cup Range(d)
        BY <2>3, <2>5, Concatenated
    <2>7. IsList(a \o b \o d \o e) /\ Range(a \o b \o d \o e) = Range(a \o b \o d) \cup Range(e)
        BY <2>4, <2>6, Concatenated
    <2>8. all = a \o b \o d \o e
        BY DEF a, b, d, e
    <2> QED  BY <2>1, <2>2, <2>3, <2>4, <2>5, <2>6, <2>7, <2>8
<1> HIDE DEF all
<1>12. Len(all) \in Nat
    BY <1>11, LenProperties DEF IsList
<1>13. Least(limit, Len(all)) \in 0 .. Len(all) /\ Least(limit, Len(all)) <= Len(AutoIds)
    BY <1>12 DEF Least, AutoIds
<1>14. IsList(first) /\ Len(first) <= Len(AutoIds) /\ \A c \in Range(first) : Drawn(c, t)
    BY <1>11, <1>13, Prefix
<1> HIDE DEF first
<1>15. /\ IsList(cut) /\ Len(cut) = Len(first) /\ \A i \in DOMAIN cut : Drawn(cut[i], t)
       /\ first # <<>> /\ PackWidth(cut)[Len(cut)].n = 1 => cut[Len(cut)].w = GridCols
    BY <1>14, FilledDrawn
<1>16. cut # <<>> => first # <<>>
    <2> HIDE DEF cut
    <2>1. first = <<>> => Len(cut) = 0
        BY <1>15, EmptySeq
    <2> QED  BY <1>15, <2>1, EmptySeq DEF IsList
<1> HIDE DEF cut
<1>17. /\ IsList(named) /\ Len(named) = Len(cut) /\ DOMAIN named = DOMAIN cut
       /\ \A i \in DOMAIN cut : Drawn(named[i], t) /\ named[i].id = AutoIds[i] /\ named[i].w = cut[i].w
    <2>1. IsList(named) /\ Len(named) = Len(cut) /\ DOMAIN named = DOMAIN cut
        BY <1>15, Listing
    <2>2. ASSUME NEW i \in DOMAIN cut
          PROVE  Drawn(named[i], t) /\ named[i].id = AutoIds[i] /\ named[i].w = cut[i].w
        <3> DEFINE c == cut[i]
                   id == AutoIds[i]
                   x == [c EXCEPT !.id = id]
        <3>1. named[i] = x
            OBVIOUS
        <3>2. Drawn(c, t)
            BY <1>15
        <3> HIDE DEF c, id
        <3>3. Drawn(x, t) /\ x.id = id /\ x.w = c.w
            BY <3>2, StillDrawn
        <3> HIDE DEF x, named
        <3> QED  BY <3>1, <3>3 DEF c, id
    <2> HIDE DEF named
    <2> QED  BY <2>1, <2>2
<1> HIDE DEF named
<1>18. CASE time = <<>>
    <2>1. filters = <<>>
        BY <1>18 DEF Map
    <2>2. charts = named
        BY <1>18
    <2> HIDE DEF filters, charts
    <2>3. IsList(named) /\ Len(named) <= Len(AutoIds)
        BY <1>13, <1>14, <1>15, <1>17
    <2>4. FilledRow(named)
        BY <1>15, <1>16, <1>17 DEF FilledRow
    <2> QED  BY <1>1, <1>17, <2>1, <2>2, <2>3, <2>4 DEF Board
<1>19. CASE time # <<>>
    <2> DEFINE k == time[1]
               baked == [i \in DOMAIN named |-> Baked(named[i], time)]
    <2>1. k \in Range(time) /\ Len(time) = 1 /\ DOMAIN time = 1 .. Len(time)
        BY <1>7, <1>19, FirstOf
    <2>2. filters = <<[column |-> Ref(t, k.name), default |-> "token"]>>
        <3> DEFINE fs == [i \in DOMAIN time |-> [column |-> Ref(t, time[i].name), default |-> "token"]]
        <3>1. filters = fs
            BY DEF Map
        <3>2. 1 \in DOMAIN time
            BY <2>1
        <3>3. fs[1] = [column |-> Ref(t, k.name), default |-> "token"]
            BY <3>2
        <3>4. IsList(fs) /\ Len(fs) = 1
            BY <1>7, <2>1, Listing
        <3> HIDE DEF fs, filters
        <3>5. fs = <<fs[1]>>
            BY <3>4 DEF IsList
        <3> QED  BY <3>1, <3>3, <3>5
    <2>3. charts = baked
        BY <1>19 DEF Map
    <2>4. ASSUME NEW i \in DOMAIN named
          PROVE  /\ Drawn(baked[i], t) /\ baked[i].query.filters = <<Period(k.name)>>
                 /\ baked[i].id = AutoIds[i] /\ baked[i].w = cut[i].w
        <3> DEFINE x == Limited(named[i], k.name)
        <3>1. Drawn(named[i], t) /\ named[i].id = AutoIds[i] /\ named[i].w = cut[i].w
            BY <1>17
        <3>2. PICK m : OfMart(named[i].query, t, m) /\ Shows(named[i].viz, named[i].query, t, m)
            BY <3>1 DEF Drawn
        <3>3. Range(named[i].query.measures) = {m} /\ m.transform # "yoy_pct"
            BY <3>2, Tuples DEF OfMart, Shows, Base, ShareOf, Change
        <3>4. Baked(named[i], time) = x
            BY <3>3 DEF Baked, Period, Limited
        <3>5. HasColumn(t, k.name)
            BY <1>9, <2>1
        <3>6. Drawn(x, t) /\ x.query.filters = <<Period(k.name)>> /\ x.id = named[i].id /\ x.w = named[i].w
            BY <3>1, <3>5, StillDrawn
        <3> HIDE DEF x
        <3> QED  BY <3>1, <3>4, <3>6
    <2>5. IsList(baked) /\ Len(baked) = Len(named) /\ DOMAIN baked = DOMAIN named
        BY <1>17, Listing
    <2>6. k \in Range(TheTable(t).columns) /\ k.role = "time"
        BY <1>7, <2>1
    <2> HIDE DEF filters, charts, baked
    <2> DEFINE s == [target_bi |-> target, filters |-> filters, charts |-> charts]
    <2>7. s.filters = filters /\ s.charts = baked /\ Overview(t, limit, target) = s
        BY <1>1, <2>3
    <2> HIDE DEF s
    <2>8. HasPeriod(s, t, k)
        BY <1>7, <2>1, <2>2, <2>4, <2>5, <2>6, <2>7 DEF HasPeriod
    <2>9. IsList(baked) /\ Len(baked) <= Len(AutoIds)
        BY <1>13, <1>14, <1>15, <1>17, <2>5
    <2>10. FilledRow(baked)
        BY <1>15, <1>16, <1>17, <2>4, <2>5 DEF FilledRow
    <2>11. \A i \in DOMAIN baked : Drawn(baked[i], t) /\ baked[i].id = AutoIds[i]
        BY <2>4, <2>5
    <2> QED  BY <2>6, <2>7, <2>8, <2>9, <2>10, <2>11 DEF Board
<1> QED  BY <1>18, <1>19

\* What bears the ids of an overview is the board of a mart.
LEMMA OverviewOf ==
    ASSUME NEW s \in Proposals, IsOverview(s)
    PROVE  /\ s.target_bi \in {"superset", "datalens"}
           /\ s = [s EXCEPT !.charts = s.charts]
           /\ \E t : Known(t) /\ Board(s, t)
<1>1. PICK t \in DOMAIN Tables, n \in 1 .. Len(AutoIds), target \in {"superset", "datalens"} :
         s = Overview(t, n, target)
    BY OverviewsAssumption
<1>2. s.target_bi = target /\ s = [s EXCEPT !.charts = s.charts]
    BY Zenon, <1>1 DEF Overview
<1>3. Known(t) /\ Board(s, t)
    BY <1>1, OverviewDrawn DEF Known, SemanticModel
<1> QED  BY <1>2, <1>3

\* An overview is its own normal form.
LEMMA OverviewNormal ==
    ASSUME NEW s \in Proposals, IsOverview(s)
    PROVE  apply_chart_defaults(apply_label_joins(s)) = s
<1> DEFINE n == apply_chart_defaults(apply_label_joins(s))
           charts == [i \in DOMAIN s.charts |-> TopN(LabelJoins(s.charts[i]))]
<1>1. PICK t : Known(t) /\ Board(s, t)
    BY OverviewOf
<1>2. IsList(s.charts) /\ \A i \in DOMAIN s.charts : Drawn(s.charts[i], t)
    BY <1>1 DEF Board
<1>3. charts = s.charts
    <2>1. \A i \in DOMAIN s.charts : TopN(LabelJoins(s.charts[i])) = s.charts[i]
        BY <1>1, <1>2, DrawnStays
    <2>2. s.charts = [i \in DOMAIN s.charts |-> s.charts[i]]
        BY <1>2 DEF IsList
    <2> QED  BY <2>1, <2>2
<1>4. n = [s EXCEPT !.charts = charts]
    BY DEF apply_chart_defaults, apply_label_joins, Map
<1>5. s = [s EXCEPT !.charts = s.charts]
    BY OverviewOf
<1> QED  BY <1>3, <1>4, <1>5

\* An overview on its way is the proposal it came from.
OriginInv == IsOverview(spec) => spec \in Proposals

\* No step of the pipeline makes an overview of what was none, or changes one.
LEMMA OriginNext ==
    ASSUME GateInv, OriginInv, [Next]_vars
    PROVE  OriginInv'
<1>1. CASE spec' = spec
    BY <1>1 DEF OriginInv, IsOverview
<1>2. CASE Normalise
    <2> DEFINE n == apply_chart_defaults(apply_label_joins(spec))
    <2>1. CASE Valid(n, TRUE)
        <3>1. spec' = n
            BY <1>2, <2>1 DEF Normalise
        <3>2. n.charts = [i \in DOMAIN spec.charts |-> TopN(LabelJoins(spec.charts[i]))]
            BY NormalisedShape DEF GateInv
        <3>3. IsList(spec.charts) /\ \A c \in Range(spec.charts) : IsChart(c)
            BY DEF GateInv, IsSpec
        <3>4. ASSUME IsOverview(n) PROVE IsOverview(spec)
            <4>1. n.charts # <<>> /\ n.charts[1].id = AutoIds[1]
                BY <3>4 DEF IsOverview
            <4> HIDE DEF n
            <4>2. spec.charts # <<>>
                BY <3>2, <4>1
            <4>3. 1 \in DOMAIN spec.charts /\ spec.charts[1] \in Range(spec.charts)
                BY <3>3, <4>2, FirstOf
            <4> DEFINE c == spec.charts[1]
                       d == LabelJoins(c)
            <4>4. IsChart(c)
                BY <3>3, <4>3
            <4>5. n.charts[1] = TopN(d)
                BY <3>2, <4>3
            <4> HIDE DEF c
            <4>6. \A x : "id" \in DOMAIN x => \A y : [x EXCEPT !.query = y].id = x.id
                OBVIOUS
            <4>7. IsChart(d)
                BY <4>4, JoinedShape
            <4>8. d.id = c.id
                <5>1. d = c \/ \E y : d = [c EXCEPT !.query = y]
                    BY Zenon DEF LabelJoins, Relabelled
                <5> HIDE DEF d
                <5> QED  BY <4>4, <4>6, <5>1 DEF IsChart
            <4> HIDE DEF d
            <4>9. TopN(d).id = d.id
                <5>1. TopN(d) = d \/ \E y : TopN(d) = [d EXCEPT !.query = y]
                    BY DEF TopN
                <5> QED  BY <4>6, <4>7, <5>1 DEF IsChart
            <4> QED  BY <4>1, <4>2, <4>5, <4>8, <4>9 DEF IsOverview, c
        <3>5. ASSUME IsOverview(n) PROVE n \in Proposals
            <4>1. spec \in Proposals /\ IsOverview(spec)
                BY <3>4, <3>5 DEF OriginInv
            <4> QED  BY <4>1, OverviewNormal
        <3> HIDE DEF n
        <3> QED  BY <3>1, <3>5 DEF OriginInv, IsOverview
    <2>2. CASE ~Valid(n, TRUE)
        <3>1. spec' = spec
            BY <1>2, <2>2 DEF Normalise, Fail
        <3> QED  BY <1>1, <3>1
    <2> QED  BY <2>1, <2>2
<1>3. CASE Validate \/ Operator \/ ShowPreview \/ OneShot \/ Gate \/ Build \/ Done
    <2>1. spec' = spec
        BY <1>3 DEF Validate, Operator, ShowPreview, OneShot, Accepted, Gate, Build, Done, Fail, vars
    <2> QED  BY <1>1, <2>1
<1>4. CASE UNCHANGED vars
    BY <1>1, <1>4 DEF vars
<1> QED  BY <1>2, <1>3, <1>4 DEF Next

\* The statement of such a chart is limited to the period of its filter, also
\* inside the scaling of its measure.
PeriodOf(stmt) == \E e \in Range(stmt.where) : e.f = ">=" /\ e.k[1] = "token"

\* A filter of a period is a condition on what it compares.
LEMMA FiltersPeriod ==
    ASSUME NEW q, NEW name, q.filters = <<Period(name)>>
    PROVE  \E e \in Range(Filters(q)) : e.f = ">=" /\ e.k[1] = "token"
<1> DEFINE e == FilterExpr(q, Period(name))
<1>1. e.f = ">=" /\ e.k[1] = "token"
    BY DEF FilterExpr, Expr, Period
<1>2. 1 \in DOMAIN q.filters /\ q.filters[1] = Period(name)
    OBVIOUS
<1>3. 1 \in DOMAIN Filters(q) /\ Filters(q)[1] = e
    BY <1>2 DEF Filters, Map
<1> HIDE DEF e
<1>4. e \in Range(Filters(q))
    BY <1>3 DEF Range
<1> QED  BY <1>1, <1>4

\* The statement of a chart limited to a period has that condition, baked or not.
LEMMA PeriodWhere ==
    ASSUME NEW t, NEW c, Drawn(c, t), NEW name, c.query.filters = <<Period(name)>>, NEW b \in BOOLEAN
    PROVE  /\ PeriodOf(Grouped(ChartSql(c.query, b)))
           /\ is_compact_number(c.query.measures[1]) => PeriodOf(ChartSql(c.query, b))
<1> DEFINE q == c.query
<1>1. PICK m : OfMart(q, t, m) /\ Shows(c.viz, q, t, m)
    BY DEF Drawn
<1>2. /\ q.raw = "none" /\ q.bins = FALSE /\ q.measures = <<m>>
      /\ m.compare # <<>> => m.compare[1].output = "pct"
      /\ m.denominator = <<>> /\ m.transform \in {"none", "share_of_total"}
    BY <1>1 DEF OfMart, Shows, Base, ShareOf, Change, Plain
<1> HIDE DEF q
<1>3. Range(q.measures) = {m} /\ q.measures[1] = m
    BY <1>2, Tuples
<1>4. \E e \in Range(Filters(q)) : e.f = ">=" /\ e.k[1] = "token"
    BY FiltersPeriod DEF q
<1>5. CASE m.compare # <<>>
    <2>1. ChartSql(q, b) = CompareSql(q)
        BY <1>2, <1>3, <1>5 DEF ChartSql, IsRaw
    <2>2. ~is_compact_number(m)
        BY <1>2, <1>5 DEF is_compact_number, is_percent_measure
    <2>3. PeriodOf(CompareSql(q)) /\ CompareSql(q).sub # <<>> /\ CompareSql(q).sub[1].as = <<"b">>
        <3> DEFINE s == CompareSql(q)
                   f == Period(name)
        <3>1. s.sub # <<>> /\ s.sub[1].as = <<"b">>
            BY DEF CompareSql, From
        <3>2. DOMAIN s.where = DOMAIN q.filters
            BY DEF CompareSql, From, Map
        <3>3. 1 \in DOMAIN q.filters /\ q.filters[1] = f
            BY DEF q
        <3>4. \E x : /\ s.where[1] = x
                     /\ x \in {FilterExpr(q, f), [FilterExpr(q, f) EXCEPT !.k = <<f.value, "less one period">>]}
            BY <3>3 DEF CompareSql, From, Map
        <3>5. FilterExpr(q, f).f = ">=" /\ FilterExpr(q, f).k[1] = "token"
            BY DEF FilterExpr, Expr, Period
        <3> DEFINE x == FilterExpr(q, f)
                   k == <<f.value, "less one period">>
        <3>6. [x EXCEPT !.k = k].f = ">=" /\ [x EXCEPT !.k = k].k = k
            BY DEF FilterExpr, Expr, Period
        <3>7. k[1] = "token"
            BY DEF Period
        <3> HIDE DEF s, x, k
        <3>8. s.where[1] \in Range(s.where)
            BY <3>2, <3>3 DEF Range
        <3>9. s.where[1] \in {x, [x EXCEPT !.k = k]}
            BY <3>4 DEF x, k
        <3>10. s.where[1].f = ">=" /\ s.where[1].k[1] = "token"
            BY <3>5, <3>6, <3>7, <3>9 DEF x
        <3>11. PeriodOf(s)
            BY <3>8, <3>10 DEF PeriodOf
        <3> QED  BY <3>1, <3>11 DEF s
    <2> QED  BY <1>3, <2>1, <2>2, <2>3 DEF Grouped, q
<1>6. CASE m.compare = <<>> /\ is_derived(m)
    <2>1. ChartSql(q, b) = WindowedSql(q, b)
        BY <1>2, <1>3, <1>6 DEF ChartSql, IsRaw
    <2>2. ~is_compact_number(m)
        BY <1>2, <1>6 DEF is_compact_number, is_percent_measure, is_derived
    <2>3. \E items : WindowedSql(q, b).sub = <<[as |-> <<"t">>, stmt |-> GroupedSelect(q, items)]>>
        BY DEF WindowedSql, OrderAndLimit, WindowedSelect, From
    <2>4. PICK items : WindowedSql(q, b).sub = <<[as |-> <<"t">>, stmt |-> GroupedSelect(q, items)]>>
        BY <2>3
    <2> DEFINE s == WindowedSql(q, b)
               g == GroupedSelect(q, items)
    <2>5. g.where = Filters(q)
        BY DEF GroupedSelect, From
    <2> HIDE DEF s, g
    <2>6. s.sub = <<[as |-> <<"t">>, stmt |-> g]>>
        BY <2>4 DEF s, g
    <2>7. Grouped(s) = g
        BY <2>6 DEF Grouped
    <2> QED  BY <1>3, <1>4, <2>1, <2>2, <2>5, <2>7 DEF PeriodOf, s, q
<1>7. CASE m.compare = <<>> /\ ~is_derived(m)
    <2>1. ChartSql(q, b) = FlatSql(q, b)
        BY <1>2, <1>3, <1>7 DEF ChartSql, IsRaw
    <2>2. FlatSql(q, b).sub = <<>> /\ FlatSql(q, b).where = Filters(q)
        BY DEF FlatSql, OrderAndLimit, GroupedSelect, From
    <2> QED  BY <1>4, <2>1, <2>2 DEF PeriodOf, Grouped, q
<1> QED  BY <1>5, <1>6, <1>7

\* What a chart with no role but its dimension groups by.
LEMMA OneGroup ==
    ASSUME NEW q, q.series = <<>>, q.rows = <<>>, q.columns = <<>>, NEW r, q.dimensions = <<r>>
    PROVE  group_columns(q) = <<r>>
<1> DEFINE one == <<r>>
           ss == [i \in DOMAIN one |-> IF \E j \in 1 .. i - 1 : one[j] = one[i] THEN <<>> ELSE <<one[i]>>]
<1>1. Roles(q) = one
    <2>1. one \in Seq({r}) /\ <<>> \in Seq({r})
        OBVIOUS
    <2> HIDE DEF one
    <2>2. one \o <<>> = one
        BY <2>1, ConcatEmptySeq
    <2>3. q.dimensions = one
        BY DEF one
    <2> QED  BY <2>2, <2>3 DEF Roles
<1>2. DOMAIN one = {1} /\ one[1] = r /\ 1 .. 1 - 1 = {}
    OBVIOUS
<1>3. ss = <<one>>
    <2>1. ss = [i \in DOMAIN one |-> <<r>>]
        BY <1>2
    <2>2. <<<<r>>>> = [i \in {1} |-> <<r>>]
        OBVIOUS
    <2> QED  BY <1>2, <2>1, <2>2
<1>4. FlattenSeq(<<one>>) = one
    <2>1. <<>> \in Seq(Seq({r})) /\ one \in Seq({r})
        OBVIOUS
    <2>2. <<one>> = Append(<<>>, one)
        OBVIOUS
    <2> HIDE DEF one
    <2>3. FlattenSeq(<<one>>) = FlattenSeq(<<>>) \o one
        BY <2>1, <2>2, FlattenAppend
    <2>4. FlattenSeq(<<>>) = <<>>
        BY DEF FlattenSeq
    <2>5. <<>> \o one = one
        BY <2>1, ConcatEmptySeq
    <2> QED  BY <2>3, <2>4, <2>5
<1>5. group_columns(q) = FlattenSeq(ss)
    BY <1>1 DEF group_columns, Distinct
<1> QED  BY <1>3, <1>4, <1>5

\* The groups of a chart of an overview.
LEMMA DrawnColumns ==
    ASSUME NEW t, NEW q, NEW m, OfMart(q, t, m), NEW viz, Shows(viz, q, t, m)
    PROVE  \/ q.dimensions = <<>> /\ q.joins = <<>> /\ Range(Roles(q)) = {}
              /\ group_columns(q) = <<>> /\ GroupAliases(q) = <<>>
           \/ \E r : /\ q.dimensions = <<r>> /\ Range(Roles(q)) = {r}
                     /\ group_columns(q) = <<r>> /\ GroupAliases(q) = <<r.col>>
<1>1. q.series = <<>> /\ q.rows = <<>> /\ q.columns = <<>>
    BY DEF OfMart
<1>2. ASSUME q.dimensions = <<>>
      PROVE  Range(Roles(q)) = {} /\ group_columns(q) = <<>> /\ GroupAliases(q) = <<>>
    <2>1. \A n \in {"dimensions", "series", "rows", "columns"} : q[n] = <<>>
        BY <1>1, <1>2
    <2>2. \A n \in {"dimensions", "series", "rows", "columns"} : IsList(q[n])
        BY <2>1, Tuples
    <2>3. IsList(group_columns(q)) /\ Range(group_columns(q)) = Range(Roles(q)) /\ Range(Roles(q)) = {}
        BY <2>1, <2>2, RolesRange, Tuples
    <2>4. group_columns(q) = <<>>
        BY <2>3, FirstOf
    <2> QED  BY <2>3, <2>4 DEF GroupAliases, Map
<1>3. ASSUME NEW r, q.dimensions = <<r>>
      PROVE  Range(Roles(q)) = {r} /\ group_columns(q) = <<r>> /\ GroupAliases(q) = <<r.col>>
    <2>1. group_columns(q) = <<r>>
        BY <1>1, <1>3, OneGroup
    <2>2. \A n \in {"dimensions", "series", "rows", "columns"} : IsList(q[n])
        BY <1>1, <1>3, Tuples
    <2>3. Range(group_columns(q)) = Range(Roles(q))
        BY <2>2, RolesRange
    <2>4. Range(<<r>>) = {r}
        BY Tuples
    <2>5. GroupAliases(q) = <<r.col>>
        <3> DEFINE one == <<r>>
                   names == [i \in DOMAIN one |-> one[i].col]
        <3>1. GroupAliases(q) = names
            BY <2>1 DEF GroupAliases, Map, column_alias
        <3>2. names = <<r.col>>
            OBVIOUS
        <3> QED  BY <3>1, <3>2
    <2> QED  BY <2>1, <2>3, <2>4, <2>5
<1>4. CASE Alone(q)
    BY <1>2, <1>4 DEF Alone
<1>5. CASE OverTime(q, t) \/ Along(q, t, m)
    <2>1. \E r : q.dimensions = <<r>>
        BY <1>5 DEF OverTime, Along
    <2> QED  BY <1>3, <2>1
<1> QED  BY <1>4, <1>5 DEF Shows

\* A chart of an overview moves by the time column the overview took.
LEMMA DrawnMoves ==
    ASSUME NEW t, Known(t), NEW c, Drawn(c, t), NEW k, FirstTime(t, k), NEW fs
    PROVE  Range(TemporalAlias(c.query, fs)) \subseteq {k.name}
<1> DEFINE q == c.query
           g == group_columns(q)
           cols == TheTable(t).columns
           n == MartColumns(t)
           K == {i \in DOMAIN g : HasRole(g[i], t, "time")}
           J == {i \in DOMAIN n : HasRole(Bare(n[i]), t, "time")}
           T == {i \in DOMAIN cols : cols[i].role = "time"}
           inGrain == At(g, K)
           ofMart == At(n, J)
           times == At(cols, T)
<1>1. PICK m : OfMart(q, t, m) /\ Shows(c.viz, q, t, m)
    BY DEF Drawn
<1>2. q.table = t
    BY <1>1 DEF OfMart
<1>3. /\ inGrain = Only(g, LAMBDA r : HasRole(r, q.table, "time"))
      /\ ofMart = Only(MartColumns(q.table), LAMBDA x : HasRole(Bare(x), q.table, "time"))
    BY <1>2 DEF At, Only
<1>4. TemporalAlias(q, fs) = CASE inGrain # <<>>                          -> <<column_alias(inGrain[1])>>
                               [] inGrain = <<>> /\ fs /\ ofMart # <<>>    -> <<ofMart[1]>>
                               [] OTHER                                   -> <<>>
    BY <1>3 DEF TemporalAlias
<1>5. times = WithRole(t, "time")
    BY DEF WithRole, Only, At
<1>6. /\ IsList(cols) /\ n = [i \in DOMAIN cols |-> cols[i].name]
      /\ \A i \in DOMAIN cols : HasRole(Bare(cols[i].name), t, "time") <=> cols[i].role = "time"
    <2>1. IsList(cols)
        BY TablesAssumption DEF Known, TheTable, SemanticModel
    <2>2. n = [i \in DOMAIN cols |-> cols[i].name]
        BY DEF MartColumns, Map
    <2>3. ASSUME NEW i \in DOMAIN cols
          PROVE  HasRole(Bare(cols[i].name), t, "time") <=> cols[i].role = "time"
        <3>1. cols[i] \in Range(TheTable(t).columns)
            BY DEF Range
        <3> HIDE DEF cols
        <3> QED  BY <3>1, ColumnRole
    <2> QED  BY <2>1, <2>2, <2>3
<1>7. IsList(n) /\ DOMAIN n = DOMAIN cols /\ J = T /\ \A i \in DOMAIN cols : n[i] = cols[i].name
    <2> HIDE DEF cols
    <2>1. IsList(n) /\ DOMAIN n = DOMAIN cols
        BY <1>6, Listing
    <2>2. \A i \in DOMAIN cols : n[i] = cols[i].name
        BY <1>6
    <2> HIDE DEF n
    <2> QED  BY <1>6, <2>1, <2>2
<1>8. times # <<>> /\ k = times[1]
    BY <1>5 DEF FirstTime
<1>9. ofMart # <<>> => ofMart[1] = k.name
    <2> HIDE DEF n, cols, J
    <2> HIDE DEF T
    <2>1. CASE T = {}
        <3>1. Range(times) = {} /\ IsList(times)
            BY <1>6, <2>1, Chosen
        <3>2. times = <<>>
            BY <3>1, FirstOf
        <3> QED  BY <1>8, <3>2
    <2>2. CASE T # {}
        <3>1. T \subseteq DOMAIN cols
            BY DEF T
        <3>2. PICK i \in T : (\A j \in T : i <= j) /\ times[1] = cols[i]
            BY <1>6, <2>2, <3>1, FirstKept DEF IsList
        <3>3. PICK j \in T : (\A x \in T : j <= x) /\ ofMart[1] = n[j]
            BY <1>7, <2>2, <3>1, FirstKept DEF IsList
        <3>4. i \in Nat /\ j \in Nat
            <4>1. DOMAIN cols = 1 .. Len(cols) /\ Len(cols) \in Nat
                BY <1>6, LenProperties DEF IsList
            <4> QED  BY <3>1, <4>1
        <3>5. i = j
            BY <3>2, <3>3, <3>4
        <3> QED  BY <1>7, <1>8, <3>1, <3>2, <3>3, <3>5
    <2> QED  BY <2>1, <2>2
<1> HIDE DEF ofMart, times, n, cols, J, T
<1>10. inGrain # <<>> => inGrain[1] = Bare(k.name)
    <2> SUFFICES ASSUME inGrain # <<>> PROVE inGrain[1] = Bare(k.name)
        OBVIOUS
    <2>1. g = <<>> \/ \E r : q.dimensions = <<r>> /\ g = <<r>>
        BY <1>1, DrawnColumns
    <2>2. IsList(g)
        BY <2>1, Tuples
    <2>3. \A i \in K : HasRole(g[i], t, "time")
        OBVIOUS
    <2> HIDE DEF K
    <2> HIDE DEF g
    <2>4. IsList(inGrain) /\ \A x : x \in Range(inGrain) <=> \E i \in DOMAIN g : i \in K /\ x = g[i]
        BY <2>2, Chosen
    <2> HIDE DEF inGrain
    <2>5. inGrain[1] \in Range(inGrain)
        BY <2>4, FirstOf
    <2>6. inGrain[1] \in Range(g) /\ HasRole(inGrain[1], t, "time")
        BY <2>3, <2>4, <2>5 DEF Range
    <2>7. PICK r : q.dimensions = <<r>> /\ g = <<r>>
        BY <2>1, <2>6, Tuples
    <2>8. inGrain[1] = r
        BY <2>6, <2>7, Tuples
    <2>9. CASE Alone(q)
        <3>1. q.dimensions = <<>> /\ <<r>> # <<>>
            BY <2>9 DEF Alone
        <3> QED  BY <2>7, <3>1
    <2>10. CASE OverTime(q, t)
        <3>1. PICK x : FirstTime(t, x) /\ q.dimensions = <<Bare(x.name)>>
            BY <2>10 DEF OverTime
        <3>2. x = k
            BY <3>1 DEF FirstTime
        <3>3. \A a, b : <<a>> = <<b>> => a = b
            OBVIOUS
        <3>4. r = Bare(x.name)
            BY <2>7, <3>1, <3>3
        <3> QED  BY <2>8, <3>2, <3>4
    <2>11. CASE Along(q, t, m)
        <3>1. PICK b : AxisOf(t, b) /\ q.dimensions = <<b.ref>>
            BY <2>11 DEF Along
        <3>2. \A a, d : <<a>> = <<d>> => a = d
            OBVIOUS
        <3>3. r = b.ref
            BY <2>7, <3>1, <3>2
        <3> QED  BY <2>6, <2>8, <3>1, <3>3 DEF AxisOf
    <2> QED  BY <1>1, <2>9, <2>10, <2>11 DEF Shows
<1> HIDE DEF inGrain, g
<1>11. Bare(k.name).col = k.name
    BY DEF Bare
<1>12. TemporalAlias(q, fs) \in {<<k.name>>, <<>>}
    BY <1>4, <1>9, <1>10, <1>11 DEF column_alias
<1> QED  BY <1>12, Tuples

\* Every chart of a built overview with a period shows it.
LEMMA BuildShows ==
    ASSUME GateInv, OriginInv, IsOverview(spec), IsBuilt, spec.filters # <<>>,
           NEW c \in Range(spec.charts)
    PROVE  ShowsPeriod(c)
<1>1. PICK t : Known(t) /\ Board(spec, t)
    BY OverviewOf DEF OriginInv
<1>2. PICK i \in DOMAIN spec.charts : c = spec.charts[i]
    BY DEF Range
<1>3. Drawn(c, t) /\ c.query.table = t
    BY <1>1, <1>2 DEF Board, Drawn, OfMart
<1>4. PICK k \in Range(TheTable(t).columns) :
          /\ k.role = "time" /\ FirstTime(t, k)
          /\ spec.filters = <<[column |-> Ref(t, k.name), default |-> "token"]>>
          /\ c.query.filters = <<Period(k.name)>>
    BY <1>1, <1>2 DEF Board, HasPeriod
<1> DEFINE f == [column |-> Ref(t, k.name), default |-> "token"]
<1>5. f \in Range(spec.filters)
    BY <1>4, Tuples
<1>6. IsSpec(spec) /\ Valid(spec, TRUE)
    BY DEF GateInv, IsBuilt, Passing
<1>7. PICK large \in BOOLEAN : built = <<Compiled(spec, trials, large)>>
    BY DEF GateInv, IsBuilt
<1>8. \A d \in Range(spec.charts) : ChartOf(spec, d.id) = d
    BY <1>6, ChartIs DEF IsSpec
<1>9. \A b \in BOOLEAN : /\ PeriodOf(Grouped(ChartSql(c.query, b)))
                         /\ is_compact_number(c.query.measures[1]) => PeriodOf(ChartSql(c.query, b))
    BY <1>3, <1>4, PeriodWhere
<1>10. PeriodOf(Grouped(Dataset(c.id))) => ShowsPeriod(c)
    BY DEF PeriodOf, ShowsPeriod
<1>11. CASE OnSuperset /\ ~IsSource(c.query)
    <2> DEFINE b == c.id \notin participating_chart_ids(spec)
    <2>1. Dataset(c.id) = ChartSql(c.query, b)
        BY <1>7, <1>8, <1>11 DEF OnSuperset, Dataset, TheBuild, Compiled, SupersetBuild, DatasetOf
    <2>2. b \in BOOLEAN
        OBVIOUS
    <2> QED  BY <1>9, <1>10, <2>1, <2>2
<1>12. CASE OnSuperset /\ IsSource(c.query)
    <2>1. TheBuild.controls = native_filter_configuration(spec)
        BY <1>7, <1>12 DEF OnSuperset, TheBuild, Compiled, SupersetBuild
    <2>2. c.query.table = t
        BY <1>3
    <2>3. HasColumn(t, k.name)
        BY <1>1, OneColumn DEF HasColumn
    <2>4. Contains(SourceInputs(spec, t).columns, k.name)
        BY <2>3, MartRange, ContainsRange DEF SourceInputs
    <2>5. f.column.table = t /\ f.column.col = k.name
        BY DEF Ref
    <2> HIDE DEF f
    <2>6. source_exposes_column(spec, t, f.column)
        BY <2>4, <2>5 DEF source_exposes_column
    <2>7. chart_accepts_filter(c, f, spec)
        BY <1>12, <2>2, <2>6 DEF chart_accepts_filter
    <2>8. c.id \in ScopeOf(f, spec)
        BY <2>7 DEF ScopeOf
    <2>9. NativeFilter(spec, f) \in Range(TheBuild.controls)
        BY <1>5, <1>6, <2>1, <2>8, SupersetControls
    <2>10. NativeFilter(spec, f).scope = ScopeOf(f, spec) /\ NativeFilter(spec, f).column = f.column
        BY DEF NativeFilter
    <2>11. TheBuild.charts[c.id] = build_form_data(c, large)
        BY <1>7, <1>8, <1>12 DEF OnSuperset, TheBuild, Compiled, SupersetBuild
    <2>12. Range(TheBuild.charts[c.id].granularity) \subseteq {column_alias(f.column)}
        <3>1. Range(TemporalAlias(c.query, IsSource(c.query))) \subseteq {k.name}
            BY <1>1, <1>3, <1>4, DrawnMoves
        <3>2. build_form_data(c, large).granularity \in {<<>>, TemporalAlias(c.query, IsSource(c.query))}
            BY FormTime
        <3> QED  BY <2>5, <2>11, <3>1, <3>2, Tuples DEF column_alias
    <2> QED  BY <2>8, <2>9, <2>10, <2>12 DEF ShowsPeriod
<1>13. CASE ~OnSuperset
    <2> DEFINE b == c.id \notin selector_scope_chart_ids(spec)
               sql == ChartSql(c.query, b)
               w == ScaleMeasures(sql, c.query)
    <2>1. Dataset(c.id) = IF Scaled(c, large) THEN w ELSE sql
        BY <1>7, <1>8, <1>13 DEF OnSuperset, Dataset, TheBuild, Compiled, DataLensBuild
    <2>2. b \in BOOLEAN
        OBVIOUS
    <2> HIDE DEF b
    <2>3. PeriodOf(Grouped(sql)) /\ (is_compact_number(c.query.measures[1]) => PeriodOf(sql))
        BY <1>9, <2>2
    <2> HIDE DEF sql
    <2>4. w.sub # <<>> /\ w.sub[1].as = <<"auto_bi_scaled">> /\ w.sub[1].stmt = sql
        BY DEF ScaleMeasures, From
    <2> HIDE DEF w
    <2>5. Grouped(w) = sql
        BY <2>4 DEF Grouped
    <2>6. Scaled(c, large) => is_compact_number(c.query.measures[1])
        BY DEF Scaled
    <2> QED  BY <1>10, <2>1, <2>3, <2>5, <2>6
<1> QED  BY <1>11, <1>12, <1>13

\* What the semantic model must not say for a chart to be valid.
Buildable(q) ==
    /\ \A m \in Range(q.measures) :
          /\ \E k \in Columns(q.table, m.column) : k.role # "time"
          /\ m.agg = "sum" => \A k \in Columns(q.table, m.column) : k.additive
    /\ \A j \in Range(q.joins) : j.table # q.table /\ HasColumn(j.table, j.on_right.col)
    /\ Range(GroupAliases(q)) \cap Range(MeasureAliases(q)) = {}

\* The column a chart groups by is one it can read.
LEMMA DrawnReads ==
    ASSUME NEW t, Known(t), NEW q, NEW m, OfMart(q, t, m), NEW viz, Shows(viz, q, t, m), Buildable(q)
    PROVE  /\ \A j \in Range(q.joins) : JoinOk(q, j) /\ j.table \in UsedTables(q)
           /\ \A r \in Range(Roles(q)) : RefOk(q, r)
<1>1. q.table = t
    BY DEF OfMart
<1>2. CASE q.dimensions = <<>>
    <2>1. <<>> # <<1>> /\ \A r : <<>> # <<r>>
        OBVIOUS
    <2>2. q.joins = <<>> /\ Range(Roles(q)) = {}
        BY <1>2, <2>1, DrawnColumns
    <2> QED  BY <2>2, Tuples
<1>3. ASSUME NEW r, q.dimensions = <<r>>
      PROVE  Range(Roles(q)) = {r} /\ group_columns(q) = <<r>>
    <2>1. \A x : <<x>> # <<>> /\ (<<x>> = <<r>> => x = r)
        OBVIOUS
    <2> QED  BY <1>3, <2>1, DrawnColumns
<1>4. ASSUME NEW name, q.dimensions = <<Bare(name)>>, HasColumn(t, name), q.joins = <<>>
      PROVE  /\ \A j \in Range(q.joins) : JoinOk(q, j) /\ j.table \in UsedTables(q)
             /\ \A r \in Range(Roles(q)) : RefOk(q, r)
    <2>1. ~Qualified(Bare(name)) /\ Bare(name).col = name
        BY DEF Qualified, Bare
    <2>2. RefOk(q, Bare(name))
        BY <1>1, <1>4, <2>1 DEF RefOk
    <2>3. Range(Roles(q)) = {Bare(name)} /\ Range(q.joins) = {}
        BY <1>3, <1>4, Tuples
    <2> QED  BY <2>2, <2>3
<1>5. ASSUME NEW u, NEW name, NEW key, NEW fk, Known(u), q.dimensions = <<Ref(u, name)>>, HasColumn(u, name),
             HasColumn(t, key), fk.table = u, {Ref(t, key), fk} \in SemanticModel.joins,
             q.joins = <<[table |-> u, on_left |-> Ref(t, key), on_right |-> fk]>>
      PROVE  /\ \A j \in Range(q.joins) : JoinOk(q, j) /\ j.table \in UsedTables(q)
             /\ \A r \in Range(Roles(q)) : RefOk(q, r)
    <2> DEFINE j == [table |-> u, on_left |-> Ref(t, key), on_right |-> fk]
               r == Ref(u, name)
    <2>1. j.table = u /\ j.on_left = Ref(t, key) /\ j.on_right = fk
        OBVIOUS
    <2>2. u # NoTable
        BY <1>5, TablesAssumption DEF Known, SemanticModel
    <2>3. r.table = u /\ r.col = name /\ Qualified(r)
        BY <2>2 DEF Ref, Qualified
    <2>4. Range(Roles(q)) = {r} /\ group_columns(q) = <<r>> /\ Range(<<r>>) = {r}
        BY <1>3, <1>5, Tuples
    <2>5. q.joins = <<j>>
        BY <1>5
    <2> HIDE DEF j, r
    <2>6. Range(q.joins) = {j}
        BY <2>5, Tuples
    <2>7. j.table # q.table /\ HasColumn(j.table, j.on_right.col)
        BY <2>6 DEF Buildable
    <2>8. Ref(t, key).table = t /\ Ref(t, key).col = key
        BY DEF Ref
    <2>9. JoinOk(q, j)
        BY <1>1, <1>5, <2>1, <2>7, <2>8 DEF JoinOk
    <2>10. u \in UsedTables(q)
        BY <2>3, <2>4 DEF UsedTables
    <2>11. u \in Joined(q)
        BY <2>1, <2>6, <2>9 DEF Joined
    <2>12. RefOk(q, r)
        BY <1>5, <2>1, <2>3, <2>7, <2>11 DEF RefOk
    <2> QED  BY <2>1, <2>4, <2>6, <2>9, <2>10, <2>12
<1>6. CASE Alone(q)
    BY <1>2, <1>6 DEF Alone
<1>7. CASE OverTime(q, t)
    <2>1. PICK k \in Range(TheTable(t).columns) : q.dimensions = <<Bare(k.name)>>
        BY <1>7 DEF OverTime
    <2>2. HasColumn(t, k.name)
        BY OneColumn DEF HasColumn
    <2> QED  BY <1>4, <1>7, <2>1, <2>2 DEF OverTime
<1>8. CASE Along(q, t, m)
    <2>1. PICK b : AxisOf(t, b) /\ q.dimensions = <<b.ref>> /\ q.joins = b.join
        BY <1>8 DEF Along
    <2>2. CASE \E name : b.ref = Bare(name) /\ HasColumn(t, name) /\ b.join = <<>>
        BY <1>4, <2>1, <2>2
    <2>3. CASE \E u, name, key, fk :
                 /\ Known(u) /\ b.ref = Ref(u, name) /\ HasColumn(u, name)
                 /\ HasColumn(t, key) /\ fk.table = u /\ {Ref(t, key), fk} \in SemanticModel.joins
                 /\ b.join = <<[table |-> u, on_left |-> Ref(t, key), on_right |-> fk]>>
        BY <1>5, <2>1, <2>3
    <2> QED  BY <2>1, <2>2, <2>3 DEF AxisOf
<1> QED  BY <1>6, <1>7, <1>8 DEF Shows

\* A chart of an overview is valid when the semantic model allows it.
LEMMA DrawnOk ==
    ASSUME NEW t, Known(t), NEW c, Drawn(c, t), IsChart(c), Buildable(c.query), NEW target
    PROVE  ChartOk(c, target, FALSE)
<1> DEFINE q == c.query
<1>1. PICK m : OfMart(q, t, m) /\ Shows(c.viz, q, t, m)
    BY DEF Drawn
<1>2. /\ q.table = t /\ q.raw = "none" /\ q.bins = FALSE /\ q.measures = <<m>>
      /\ q.series = <<>> /\ q.rows = <<>> /\ q.columns = <<>>
      /\ q.filters = <<>> \/ \E name : HasColumn(t, name) /\ q.filters = <<Period(name)>>
    BY <1>1 DEF OfMart
<1>3. Range(q.measures) = {m} /\ Len(q.measures) = 1 /\ IsMeasure(m)
    <2>1. Range(q.measures) = {m} /\ Len(<<m>>) = 1
        BY <1>2, Tuples
    <2> QED  BY <1>2, <2>1 DEF IsChart, IsQuery
<1>4. c.viz \in {"big_number", "line", "bar", "table"}
    BY <1>1 DEF Shows
<1>5. Plain(t, m) /\ m.transform \in {"none", "share_of_total"}
    BY <1>1 DEF Shows, Base, ShareOf, Change
<1>6. \/ q.dimensions = <<>> /\ group_columns(q) = <<>> /\ GroupAliases(q) = <<>>
      \/ \E r : q.dimensions = <<r>> /\ group_columns(q) = <<r>> /\ GroupAliases(q) = <<r.col>>
    BY <1>1, DrawnColumns
<1>7. (q.dimensions = <<>>) = (c.viz = "big_number")
    <2>1. \A r : <<r>> # <<>>
        OBVIOUS
    <2> QED  BY <1>1, <2>1 DEF Shows, Alone, OverTime, Along
<1> HIDE DEF q
<1>8. \A j \in Range(q.joins) : JoinOk(q, j) /\ j.table \in UsedTables(q)
    BY <1>1, DrawnReads DEF q
<1>9. \A r \in Range(Roles(q)) : RefOk(q, r)
    BY <1>1, DrawnReads DEF q
<1>10. AliasesOk(q)
    <2>1. \A x : IsInjective(<<x>>)
        BY DEF IsInjective
    <2>2. IsInjective(<<>>)
        BY DEF IsInjective
    <2>3. MeasureAliases(q) = <<measure_alias(m)>>
        <3> DEFINE one == <<m>>
                   names == [i \in DOMAIN one |-> measure_alias(one[i])]
        <3>1. MeasureAliases(q) = names
            BY <1>2 DEF MeasureAliases, Map
        <3>2. names = <<measure_alias(m)>>
            OBVIOUS
        <3> QED  BY <3>1, <3>2
    <2>4. IsInjective(GroupAliases(q))
        BY <1>6, <2>1, <2>2
    <2> QED  BY <2>1, <2>3, <2>4 DEF AliasesOk, Buildable, q
<1>11. MeasureColOk(q, m.column, m.agg) /\ Range(m.denominator) = {}
    <2>1. /\ \E k \in Columns(t, m.column) : k.role # "time"
          /\ m.agg = "sum" => \A k \in Columns(t, m.column) : k.additive
        BY <1>2, <1>3 DEF Buildable, q
    <2>2. m.denominator = <<>> /\ (m.agg = "count" \/ \A k \in Columns(t, m.column) : k.role = "measure")
        BY <1>5 DEF Plain
    <2> QED  BY <1>2, <2>1, <2>2, Tuples DEF MeasureColOk
<1>12. \A f \in Range(q.filters) : RefOk(q, f.column) /\ ~(f.op = "in" /\ f.value = "empty")
    <2>1. CASE q.filters = <<>>
        BY <2>1, Tuples
    <2>2. ASSUME NEW name, HasColumn(t, name), q.filters = <<Period(name)>>
          PROVE  \A f \in Range(q.filters) : RefOk(q, f.column) /\ ~(f.op = "in" /\ f.value = "empty")
        <3>1. Range(q.filters) = {Period(name)}
            BY <2>2, Tuples
        <3>2. ~Qualified(Bare(name)) /\ Bare(name).col = name
            BY DEF Qualified, Bare
        <3>3. RefOk(q, Bare(name))
            BY <1>2, <2>2, <3>2 DEF RefOk
        <3>4. Period(name).column = Bare(name) /\ Period(name).op = ">="
            BY DEF Period
        <3> QED  BY <3>1, <3>3, <3>4
    <2> QED  BY <1>2, <2>1, <2>2
<1>13. \A o \in Range(q.order_by) : o.by \in Orderable(q)
    <2>1. CASE Alone(q)
        BY <2>1, Tuples DEF Alone
    <2>2. CASE OverTime(q, t)
        <3>1. PICK k : q.dimensions = <<Bare(k.name)>> /\ q.order_by = <<[by |-> Bare(k.name), desc |-> FALSE]>>
            BY <2>2 DEF OverTime
        <3>2. \A x, y : <<x>> # <<>> /\ (<<x>> = <<y>> => x = y)
            OBVIOUS
        <3>3. group_columns(q) = <<Bare(k.name)>>
            BY <1>6, <3>1, <3>2
        <3>4. Range(group_columns(q)) = {Bare(k.name)}
            BY <3>3, Tuples
        <3> DEFINE o == [by |-> Bare(k.name), desc |-> FALSE]
        <3>5. o.by = Bare(k.name) /\ Range(<<o>>) = {o} /\ q.order_by = <<o>>
            BY <3>1, Tuples
        <3> HIDE DEF o
        <3> QED  BY <3>4, <3>5 DEF Orderable
    <2>3. CASE Along(q, t, m)
        <3> DEFINE o == [by |-> Bare(measure_alias(m)), desc |-> TRUE]
        <3>1. o.by = Bare(measure_alias(m)) /\ Range(<<o>>) = {o} /\ q.order_by = <<o>>
            BY <2>3, Tuples DEF Along
        <3>2. measure_alias(m) \in Range(MeasureAliases(q))
            <4>1. 1 \in DOMAIN q.measures /\ q.measures[1] = m
                BY <1>2
            <4>2. 1 \in DOMAIN MeasureAliases(q) /\ MeasureAliases(q)[1] = measure_alias(m)
                BY <4>1 DEF MeasureAliases, Map
            <4> QED  BY <4>2 DEF Range
        <3> HIDE DEF o
        <3> QED  BY <3>1, <3>2 DEF Orderable
    <2> QED  BY <1>1, <2>1, <2>2, <2>3 DEF Shows, q
<1>14. TransformsOk(c)
    <2>1. m.lag = <<>>
        BY <1>5 DEF Plain
    <2>2. m.transform # "none" => c.viz = "bar"
        BY <1>1 DEF Shows, Base, Change
    <2>3. \A x \in Range(q.measures) : x = m
        BY <1>3
    <2>4. m.transform # "none" => m.transform = "share_of_total" /\ q.dimensions # <<>>
        BY <1>5, <1>7, <2>2
    <2> QED  BY <2>1, <2>2, <2>3, <2>4 DEF TransformsOk, q
<1>15. RatiosOk(q)
    BY <1>3, <1>5 DEF RatiosOk, Plain
<1>16. CompareOk(c)
    <2>1. m.compare # <<>> => /\ c.viz = "big_number" /\ Change(t, m)
        BY <1>1 DEF Shows, Base, ShareOf
    <2>2. m.compare # <<>> => /\ m.transform = "none" /\ m.denominator = <<>>
                              /\ m.compare[1].grain # "day" /\ HasRole(m.compare[1].column, t, "time")
        BY <2>1 DEF Change, Plain
    <2> QED  BY <1>2, <1>3, <2>1, <2>2 DEF CompareOk, q
<1>17. GrainOk(q)
    <2>1. CASE OverTime(q, t)
        <3>1. PICK k \in Range(TheTable(t).columns) : k.role = "time" /\ q.dimensions = <<Bare(k.name)>>
            BY <2>1 DEF OverTime
        <3>2. Columns(t, k.name) = {k}
            BY OneColumn
        <3>3. Resolved(Bare(k.name), t) = Columns(t, k.name)
            BY DEF Resolved, Qualify, Qualified, Bare, Ref
        <3>4. HasRole(Bare(k.name), t, "time")
            BY <3>1, <3>2, <3>3 DEF HasRole
        <3>5. q.dimensions[1] = Bare(k.name) /\ q.dimensions # <<>>
            BY <3>1
        <3> QED  BY <1>2, <3>4, <3>5 DEF GrainOk, FirstIsTime
    <2>2. CASE Alone(q) \/ Along(q, t, m)
        BY <2>2 DEF Alone, Along, GrainOk
    <2> QED  BY <1>1, <2>1, <2>2 DEF Shows, q
<1>18. HistogramOk(c)
    BY <1>2, <1>4 DEF HistogramOk, q
<1>19. ShapeOk(c)
    <2>1. CASE c.viz = "big_number"
        BY <1>2, <1>3, <1>7, <2>1 DEF ShapeOk, q
    <2>2. CASE c.viz \in {"line", "bar"}
        BY <1>2, <1>7, <2>2 DEF ShapeOk, q
    <2>3. CASE c.viz = "table"
        BY <1>2, <1>7, <2>3 DEF ShapeOk, q
    <2> QED  BY <1>4, <2>1, <2>2, <2>3
<1>20. ~IsRaw(q)
    BY <1>2 DEF IsRaw
<1> QED  BY <1>2, <1>3, <1>8, <1>9, <1>10, <1>11, <1>12, <1>13, <1>14, <1>15, <1>16, <1>17, <1>18, <1>19, <1>20
         DEF ChartOk, q

\* An overview passes the validation nobody runs over it, unless the semantic
\* model keeps it from it.
LEMMA OverviewValid ==
    ASSUME NEW s \in Proposals, IsOverview(s), ~Unbuildable(s)
    PROVE  Valid(s, FALSE)
<1>1. PICK t : Known(t) /\ Board(s, t)
    BY OverviewOf
<1>2. /\ IsList(s.charts) /\ Len(s.charts) <= Len(AutoIds)
      /\ \A i \in DOMAIN s.charts : Drawn(s.charts[i], t) /\ s.charts[i].id = AutoIds[i]
    BY <1>1 DEF Board
<1>3. IsInjective(Map(LAMBDA c : c.id, s.charts))
    <2> DEFINE ids == [i \in DOMAIN s.charts |-> s.charts[i].id]
    <2>1. DOMAIN s.charts = 1 .. Len(s.charts) /\ Len(s.charts) \in Nat
        BY <1>2, LenProperties DEF IsList
    <2>2. Len(AutoIds) = 10
        BY DEF AutoIds
    <2>3. \A i, j \in 1 .. 10 : AutoIds[i] = AutoIds[j] => i = j
        BY DEF AutoIds
    <2>4. \A i \in DOMAIN ids : ids[i] = AutoIds[i] /\ i \in 1 .. 10
        BY <1>2, <2>1, <2>2
    <2>5. Map(LAMBDA c : c.id, s.charts) = ids
        BY DEF Map
    <2> HIDE DEF ids
    <2>6. IsInjective(ids)
        BY <2>3, <2>4 DEF IsInjective
    <2> QED  BY <2>5, <2>6
<1>4. \A f \in Range(s.filters) : Qualified(f.column) /\ HasColumn(f.column.table, f.column.col)
    <2>1. CASE s.filters = <<>>
        BY <2>1, Tuples
    <2>2. ASSUME NEW k \in Range(TheTable(t).columns), HasPeriod(s, t, k)
          PROVE  \A f \in Range(s.filters) : Qualified(f.column) /\ HasColumn(f.column.table, f.column.col)
        <3> DEFINE f == [column |-> Ref(t, k.name), default |-> "token"]
        <3>1. f.column.table = t /\ f.column.col = k.name
            BY DEF Ref
        <3>2. s.filters = <<f>>
            BY <2>2 DEF HasPeriod
        <3> HIDE DEF f
        <3>3. Range(s.filters) = {f}
            BY <3>2, Tuples
        <3>4. t # NoTable
            BY <1>1, TablesAssumption DEF Known, SemanticModel
        <3>5. HasColumn(t, k.name)
            BY <1>1, OneColumn DEF HasColumn
        <3> QED  BY <3>1, <3>3, <3>4, <3>5 DEF Qualified
    <2> QED  BY <1>1, <2>1, <2>2 DEF Board
<1>5. ASSUME NEW c \in Range(s.charts) PROVE ChartOk(c, s.target_bi, FALSE)
    <2>1. Drawn(c, t)
        BY <1>2 DEF Range
    <2>2. IsChart(c)
        BY ProposalsAssumption DEF IsSpec
    <2>3. Buildable(c.query)
        <3>1. /\ \A m \in Range(c.query.measures) : ~(\A k \in Columns(c.query.table, m.column) : k.role = "time")
              /\ \A m \in Range(c.query.measures) :
                    ~(m.agg = "sum" /\ \E k \in Columns(c.query.table, m.column) : ~k.additive)
              /\ \A j \in Range(c.query.joins) :
                    ~(j.table = c.query.table \/ ~HasColumn(j.table, j.on_right.col))
              /\ ~(Range(GroupAliases(c.query)) \cap Range(MeasureAliases(c.query)) # {})
            BY DEF Unbuildable
        <3> QED  BY <3>1 DEF Buildable
    <2> QED  BY <1>1, <2>1, <2>2, <2>3, DrawnOk
<1> QED  BY <1>3, <1>4, <1>5 DEF Valid

-----------------------------------------------------------------------------
(* The last row. *)

\* The row of _fill_trailing_row, chart by chart.
LEMMA PackWidthIs ==
    ASSUME NEW charts, IsList(charts)
    PROVE  /\ PackWidth(charts)[0] = [used |-> 0, n |-> 0]
           /\ \A i \in 1 .. Len(charts) :
                 PackWidth(charts)[i] = PackOne(PackWidth(charts)[i - 1], charts[i].w)
<1> DEFINE N == Len(charts)
           start == [used |-> 0, n |-> 0]
           Value(h, n) == IF n = 0 THEN start ELSE PackOne(h[n - 1], charts[n].w)
           X == {m \in Nat : \E h : h = [n \in 0 .. m |-> Value(h, n)]}
           after == CHOOSE h : h = [n \in 0 .. N |-> Value(h, n)]
<1>1. N \in Nat
    BY LenProperties DEF IsList
<1>2. PackWidth(charts) = after
    BY DEF PackWidth
<1> HIDE DEF start
<1>3. 0 \in X
    <2> DEFINE h == [n \in 0 .. 0 |-> start]
    <2>1. h = [n \in 0 .. 0 |-> Value(h, n)]
        OBVIOUS
    <2> QED  BY <2>1
<1>4. ASSUME NEW m \in Nat, m \in X PROVE m + 1 \in X
    <2>1. PICK h : h = [n \in 0 .. m |-> Value(h, n)]
        BY <1>4
    <2> DEFINE g == [n \in 0 .. m + 1 |-> IF n = m + 1 THEN PackOne(h[m], charts[m + 1].w) ELSE h[n]]
    <2>2. ASSUME NEW n \in 0 .. m + 1 PROVE g[n] = Value(g, n)
        <3>1. CASE n = m + 1
            BY <3>1
        <3>2. CASE n # m + 1
            <4>1. n \in 0 .. m /\ (n # 0 => n - 1 \in 0 .. m /\ n - 1 \in 0 .. m + 1 /\ n - 1 # m + 1)
                BY <3>2
            <4>2. h[n] = Value(h, n)
                BY <2>1, <4>1
            <4>3. n # 0 => g[n - 1] = h[n - 1]
                BY <4>1
            <4> QED  BY <3>2, <4>2, <4>3
        <3> QED  BY <3>1, <3>2
    <2>3. g = [n \in 0 .. m + 1 |-> Value(g, n)]
        BY <2>2
    <2> HIDE DEF g, Value
    <2>4. \E x : x = [n \in 0 .. m + 1 |-> Value(x, n)]
        BY <2>3
    <2> QED  BY <2>4
<1> HIDE DEF X
<1>5. N \in X
    BY <1>1, <1>3, <1>4, Induct
<1>6. after = [n \in 0 .. N |-> Value(after, n)]
    BY <1>5 DEF X
<1> HIDE DEF after
<1>7. after[0] = start
    BY <1>1, <1>6
<1>8. \A n \in 1 .. N : after[n] = PackOne(after[n - 1], charts[n].w)
    BY <1>1, <1>6
<1> QED  BY <1>2, <1>7, <1>8 DEF start

\* Charts without a hint are packed in the order of the specification.
LEMMA HintStays ==
    ASSUME NEW charts, IsList(charts), \A i \in DOMAIN charts : charts[i].row = 0
    PROVE  ByHintRow(charts) = charts
<1> DEFINE N == Len(charts)
           D == DOMAIN charts
<1>1. N \in Nat /\ D = 1 .. N /\ charts = [n \in D |-> charts[n]]
    BY LenProperties DEF IsList
<1>2. ASSUME NEW i \in D PROVE Place(charts, i) = i
    <2>1. {j \in D : \/ charts[j].row < charts[i].row
                     \/ charts[j].row = charts[i].row /\ j <= i} = 1 .. i
        <3>1. ASSUME NEW j \in D
              PROVE  (\/ charts[j].row < charts[i].row
                      \/ charts[j].row = charts[i].row /\ j <= i) <=> j <= i
            <4>1. charts[j].row = 0 /\ charts[i].row = 0
                OBVIOUS
            <4> QED  BY <4>1
        <3>2. 1 .. i = {j \in D : j <= i}
            BY <1>1
        <3> QED  BY <3>1, <3>2
    <2>2. i \in Nat /\ 1 \in Int /\ i \in Int /\ ~(1 > i) /\ i - 1 + 1 = i
        BY <1>1
    <2>3. Cardinality(1 .. i) = i
        BY <2>2, FS_Interval
    <2> QED  BY <2>1, <2>3 DEF Place
<1>3. \A n \in D : (CHOOSE i \in D : Place(charts, i) = n) = n
    BY <1>2
<1> QED  BY <1>1, <1>3 DEF ByHintRow

\* The loop of _pack_rows and that of _fill_trailing_row keep the same open
\* row, when no chart has a hint: they agree on the charts' widths.
SameRow(acc, row, charts, n, S) ==
    /\ acc.rows \in Seq(Seq(S)) /\ acc.current \in Seq(S)
    /\ row.n \in Nat /\ row.used \in 0 .. GridCols
    /\ acc.used = row.used /\ Len(acc.current) = row.n
    /\ n = 0 => row.used = 0 /\ row.n = 0
    /\ n # 0 => row.used > 0 /\ row.n > 0 /\ acc.current[row.n] = charts[n]

\* One more chart keeps the rows of the two loops the same.
LEMMA SameStep ==
    ASSUME NEW S, NEW charts \in Seq(S), \A i \in DOMAIN charts : charts[i].row = 0,
           NEW n \in 1 .. Len(charts), charts[n].w \in 1 .. GridCols,
           NEW acc, NEW row, SameRow(acc, row, charts, n - 1, S)
    PROVE  SameRow(PackChart(acc, charts[n]), PackOne(row, charts[n].w), charts, n, S)
<1> DEFINE c == charts[n]
           w == c.w
           current == acc.current
           rows == acc.rows
           after == PackChart(acc, c)
           next == PackOne(row, w)
           wraps == row.used > 0 /\ row.used + w > GridCols
<1>1. /\ rows \in Seq(Seq(S)) /\ current \in Seq(S)
      /\ row.n \in Nat /\ row.used \in 0 .. 12
      /\ acc.used = row.used /\ Len(current) = row.n
      /\ n - 1 = 0 => row.used = 0 /\ row.n = 0
      /\ n - 1 # 0 => row.used > 0 /\ row.n > 0 /\ current[row.n] = charts[n - 1]
    BY DEF SameRow, GridCols
<1>2. Len(charts) \in Nat /\ DOMAIN charts = 1 .. Len(charts)
    BY LenProperties
<1>3. n \in Nat /\ n # 0 /\ c \in S /\ c.row = 0 /\ w \in 1 .. 12
    BY <1>2, ElementOfSeq DEF GridCols
<1>4. current # <<>> <=> row.n # 0
    BY <1>1, EmptySeq
<1>5. (current # <<>> /\ (Last(current).row # c.row \/ acc.used + w > GridWidth)) <=> wraps
    <2>1. CASE n - 1 = 0
        BY <1>1, <1>4, <2>1
    <2>2. CASE n - 1 # 0
        <3>1. Last(current) = charts[n - 1] /\ n - 1 \in DOMAIN charts
            BY <1>1, <1>2, <2>2 DEF Last
        <3>2. Last(current).row = c.row
            BY <1>3, <3>1
        <3>3. acc.used + w > GridWidth <=> row.used + w > GridCols
            BY <1>1 DEF GridWidth, GridCols
        <3> QED  BY <1>1, <1>4, <2>2, <3>2, <3>3
    <2> QED  BY <2>1, <2>2
<1>6. after = IF wraps THEN [rows |-> Append(rows, current), current |-> <<c>>, used |-> w]
              ELSE [rows |-> rows, current |-> Append(current, c), used |-> acc.used + w]
    BY <1>5 DEF PackChart
<1>7. next = IF wraps THEN [used |-> w, n |-> 1] ELSE [used |-> row.used + w, n |-> row.n + 1]
    BY DEF PackOne
<1>8. CASE wraps
    <2>1. /\ after.rows = Append(rows, current) /\ after.current = <<c>> /\ after.used = w
          /\ next.used = w /\ next.n = 1
        BY <1>6, <1>7, <1>8
    <2> HIDE DEF after, next, wraps
    <2>2. Append(rows, current) \in Seq(Seq(S))
        BY <1>1, AppendProperties
    <2> HIDE DEF c, w
    <2>3. <<c>> \in Seq(S) /\ Len(<<c>>) = 1 /\ <<c>>[1] = c
        BY <1>3
    <2>4. w > 0 /\ w \in 0 .. GridCols
        BY <1>3 DEF GridCols
    <2>5. after.rows \in Seq(Seq(S)) /\ after.current \in Seq(S) /\ Len(after.current) = next.n
        BY <2>1, <2>2, <2>3
    <2>6. next.n \in Nat /\ next.used \in 0 .. GridCols /\ after.used = next.used
          /\ next.used > 0 /\ next.n > 0
        BY <2>1, <2>4
    <2>7. after.current[next.n] = c
        BY <2>1, <2>3
    <2> QED  BY <1>3, <2>5, <2>6, <2>7 DEF SameRow, after, next, c, w
<1>9. CASE ~wraps
    <2>1. /\ after.rows = rows /\ after.current = Append(current, c) /\ after.used = acc.used + w
          /\ next.used = row.used + w /\ next.n = row.n + 1
        BY <1>6, <1>7, <1>9
    <2> DEFINE U == row.used
    <2>a. U \in 0 .. 12 /\ w \in 1 .. 12 /\ ~(U > 0 /\ U + w > 12)
        BY <1>1, <1>3, <1>9 DEF GridCols
    <2> HIDE DEF after, next, wraps, c, U, w
    <2>b. U + w \in 1 .. 12
        BY <2>a
    <2>2. row.used + w \in 1 .. 12
        BY <2>b DEF U
    <2>3. /\ Append(current, c) \in Seq(S) /\ Len(Append(current, c)) = row.n + 1
          /\ Append(current, c)[row.n + 1] = c
        BY <1>1, <1>3, AppendProperties
    <2> DEFINE k == row.n
    <2>c. k \in Nat
        BY <1>1
    <2>d. next.used = U + w /\ next.n = k + 1 /\ after.used = U + w
        BY <1>1, <2>1 DEF U
    <2> HIDE DEF k
    <2>4. next.n \in Nat /\ next.used \in 0 .. GridCols /\ after.used = next.used
          /\ next.used > 0 /\ next.n > 0
        BY <2>b, <2>c, <2>d DEF GridCols
    <2>5. after.rows \in Seq(Seq(S)) /\ after.current \in Seq(S) /\ Len(after.current) = next.n
        BY <1>1, <2>1, <2>3
    <2>6. after.current[next.n] = c
        BY <2>1, <2>3
    <2> QED  BY <1>3, <2>4, <2>5, <2>6 DEF SameRow, after, next, c, w
<1> QED  BY <1>8, <1>9

\* The widths alone decide the row of _fill_trailing_row.
LEMMA RowOfWidths ==
    ASSUME NEW charts, IsList(charts), NEW cs, IsList(cs), Len(cs) = Len(charts),
           \A i \in DOMAIN cs : cs[i].w = charts[i].w
    PROVE  /\ PackWidth(cs)[0] = [used |-> 0, n |-> 0]
           /\ \A i \in 1 .. Len(charts) :
                 PackWidth(cs)[i] = PackOne(PackWidth(cs)[i - 1], charts[i].w)
<1>1. DOMAIN cs = 1 .. Len(charts)
    BY LenProperties DEF IsList
<1> DEFINE P == PackWidth(cs)
<1>2. /\ P[0] = [used |-> 0, n |-> 0]
      /\ \A i \in 1 .. Len(cs) : P[i] = PackOne(P[i - 1], cs[i].w)
    BY PackWidthIs
<1> HIDE DEF P
<1> QED  BY <1>1, <1>2 DEF P

\* The last row of Superset's grid.
LEMMA LastOfRows ==
    ASSUME NEW charts, IsList(charts), charts # <<>>, FilledRow(charts),
           \A i \in DOMAIN charts : charts[i].w \in 1 .. GridCols /\ charts[i].row = 0
    PROVE  LET row == Last(PackRows(charts)) IN Len(row) = 1 => row[1].w = GridWidth
<1>1. PICK cs : /\ IsList(cs) /\ Len(cs) = Len(charts)
                /\ \A i \in DOMAIN cs : cs[i].w = charts[i].w
                /\ cs # <<>> /\ PackWidth(cs)[Len(cs)].n = 1 => cs[Len(cs)].w = GridCols
    BY DEF FilledRow
<1> DEFINE N == Len(charts)
           S == Range(charts)
           after == Packing(charts)
           upto == PackWidth(cs)
           X == {n \in Nat : n <= N => SameRow(after[n], upto[n], charts, n, S)}
<1>2. /\ N \in Nat /\ N # 0 /\ charts \in Seq(S) /\ DOMAIN charts = 1 .. N
      /\ cs # <<>> /\ N \in DOMAIN cs
    BY <1>1, LenProperties, EmptySeq DEF IsList
<1>3. /\ after[0] = [rows |-> <<>>, current |-> <<>>, used |-> 0]
      /\ \A n \in 1 .. N : after[n] = PackChart(after[n - 1], charts[n])
    BY PackingIs
<1>4. /\ upto[0] = [used |-> 0, n |-> 0]
      /\ \A n \in 1 .. N : upto[n] = PackOne(upto[n - 1], charts[n].w)
    BY <1>1, RowOfWidths
<1>5. N > 0 /\ (upto[N].n = 1 => charts[N].w = GridCols)
    BY <1>1, <1>2
<1>6. PackRows(charts) = IF after[N].current = <<>> THEN after[N].rows
                         ELSE Append(after[N].rows, after[N].current)
    BY HintStays DEF PackRows
<1> HIDE DEF N, S, after, upto
<1>7. 0 \in X
    <2>1. /\ after[0].rows = <<>> /\ after[0].current = <<>> /\ after[0].used = 0
          /\ upto[0].used = 0 /\ upto[0].n = 0
        BY <1>3, <1>4
    <2>2. Len(<<>>) = 0 /\ <<>> \in Seq(S) /\ <<>> \in Seq(Seq(S))
        BY EmptySeq
    <2>3. SameRow(after[0], upto[0], charts, 0, S)
        BY <2>1, <2>2 DEF SameRow, GridCols
    <2> QED  BY <2>3
<1>8. ASSUME NEW n \in Nat, n \in X PROVE n + 1 \in X
    <2>1. CASE n + 1 <= N
        <3>1. /\ n + 1 \in 1 .. Len(charts) /\ n + 1 \in 1 .. N /\ (n + 1) - 1 = n /\ n <= N
              /\ n + 1 \in DOMAIN charts
            BY <1>2, <2>1 DEF N
        <3>2. SameRow(after[(n + 1) - 1], upto[(n + 1) - 1], charts, (n + 1) - 1, S)
            BY <1>8, <3>1
        <3>3. SameRow(PackChart(after[(n + 1) - 1], charts[n + 1]),
                      PackOne(upto[(n + 1) - 1], charts[n + 1].w), charts, n + 1, S)
            BY <1>2, <3>1, <3>2, SameStep
        <3>4. SameRow(after[n + 1], upto[n + 1], charts, n + 1, S)
            BY <1>3, <1>4, <3>1, <3>3
        <3> QED  BY <3>4
    <2>2. CASE ~(n + 1 <= N)
        BY <2>2
    <2> QED  BY <2>1, <2>2
<1> HIDE DEF X
<1>9. N \in X
    BY <1>2, <1>7, <1>8, Induct
<1> DEFINE rows == after[N].rows
           current == after[N].current
<1>10. /\ rows \in Seq(Seq(S)) /\ current \in Seq(S) /\ Len(current) = upto[N].n
       /\ upto[N].n > 0 /\ current[upto[N].n] = charts[N]
    BY <1>2, <1>9 DEF X, SameRow
<1>11. upto[N].n \in Nat
    BY <1>2, <1>9 DEF X, SameRow
<1>12. PackRows(charts) = IF current = <<>> THEN rows ELSE Append(rows, current)
    BY <1>6
<1> HIDE DEF rows, current
<1>13. current # <<>>
    BY <1>10, <1>11, EmptySeq
<1>14. /\ Append(rows, current) \in Seq(Seq(S)) /\ Len(Append(rows, current)) = Len(rows) + 1
       /\ Append(rows, current)[Len(rows) + 1] = current
    BY <1>10, AppendProperties
<1>15. Last(PackRows(charts)) = current
    BY <1>12, <1>13, <1>14 DEF Last
<1>16. Len(current) = 1 => current[1].w = GridWidth
    BY <1>5, <1>10 DEF GridWidth, GridCols
<1> QED  BY <1>15, <1>16

\* The loop of build_dashboard_data and that of _fill_trailing_row keep the
\* same open row, when no chart has a hint: its tiles are at the cursor's
\* height, those of the rows before it are above.
SameShelf(acc, row, charts, y0, n) ==
    /\ row.n \in Nat /\ row.used \in 0 .. GridCols
    /\ acc.x = 2 * row.used /\ acc.y \in Nat /\ y0 <= acc.y /\ acc.shelf \in Nat
    /\ IsList(acc.tiles) /\ Len(acc.tiles) = n
    /\ n = 0 => row.used = 0 /\ row.n = 0
    /\ n # 0 => /\ row.used > 0 /\ row.n \in 1 .. n /\ acc.shelf > 0 /\ acc.row = <<0>>
                /\ acc.tiles[n].w = 2 * charts[n].w
    /\ \A i \in 1 .. n : /\ i <= n - row.n => acc.tiles[i].y < acc.y
                         /\ i > n - row.n => acc.tiles[i].y = acc.y

\* One more chart keeps the shelf and the row the same.
LEMMA ShelfSame ==
    ASSUME NEW charts, NEW y0 \in Nat, NEW n \in Nat, n # 0,
           charts[n].w \in 1 .. GridCols, charts[n].h \in 1 .. 12, charts[n].row = 0,
           NEW acc, NEW row, Shelved(acc, y0, n - 1), SameShelf(acc, row, charts, y0, n - 1)
    PROVE  SameShelf(PlaceTile(acc, charts[n]), PackOne(row, charts[n].w), charts, y0, n)
<1> DEFINE c == charts[n]
           w == Smaller(c.w * HintWScale, DashCols)
           h == MinHeight(c.viz) + (IF c.h > HintDefaultH THEN (c.h - HintDefaultH) * HintHScale ELSE 0)
           wraps == acc.x > 0 /\ ((acc.row # <<>> /\ acc.row # <<c.row>>) \/ acc.x + w > DashCols)
           over == row.used > 0 /\ row.used + c.w > GridCols
           x == IF wraps THEN 0 ELSE acc.x
           y == IF wraps THEN acc.y + acc.shelf ELSE acc.y
           shelf == Shelf(acc, c, wraps, h)
           tile == Tile(<<"chart", c.id>>, x, y, w, h)
           tiles == acc.tiles
           after == PlaceTile(acc, c)
           next == PackOne(row, c.w)
<1>1. /\ after.tiles = Append(tiles, tile) /\ after.x = x + w /\ after.y = y
      /\ after.shelf = shelf /\ after.row = <<c.row>>
    BY DEF PlaceTile
<1>2. tile.y = y /\ tile.w = w
    BY DEF Tile
<1>3. /\ row.n \in Nat /\ row.used \in 0 .. 12
      /\ acc.x = 2 * row.used /\ acc.y \in Nat /\ y0 <= acc.y /\ acc.shelf \in Nat
      /\ IsList(tiles) /\ Len(tiles) = n - 1
      /\ n - 1 = 0 => row.used = 0 /\ row.n = 0
      /\ n - 1 # 0 => row.used > 0 /\ row.n \in 1 .. n - 1 /\ acc.shelf > 0 /\ acc.row = <<0>>
    BY DEF SameShelf, GridCols
<1>4. \A i \in 1 .. n - 1 : /\ i <= (n - 1) - row.n => tiles[i].y < acc.y
                            /\ i > (n - 1) - row.n => tiles[i].y = acc.y
    BY DEF SameShelf
<1>5. w = 2 * c.w /\ c.w \in 1 .. 12 /\ c.row = 0
    BY DEF Smaller, HintWScale, DashCols, GridCols
<1>6. h \in Nat \ {0}
    <2>1. MinHeight(c.viz) \in Nat \ {0}
        BY DEF MinHeight
    <2> QED  BY <2>1 DEF HintDefaultH, HintHScale
<1>7. <<c.row>> = <<0>>
    BY <1>5
<1> HIDE DEF w, h
<1>8. wraps <=> over
    <2>1. CASE n - 1 = 0
        BY <1>3, <2>1
    <2>2. CASE n - 1 # 0
        <3>1. acc.row = <<c.row>>
            BY <1>3, <1>7, <2>2
        <3> DEFINE X == acc.x
                   U == row.used
                   W == c.w
        <3>2. X = 2 * U /\ U \in 0 .. 12 /\ W \in 1 .. 12 /\ w = 2 * W /\ U > 0
            BY <1>3, <1>5, <2>2
        <3> HIDE DEF X, U, W
        <3>3. (X > 0 /\ X + w > 24) <=> (U > 0 /\ U + W > 12)
            BY <3>2
        <3>4. wraps <=> (X > 0 /\ X + w > 24)
            BY <3>1 DEF X, DashCols
        <3> QED  BY <3>3, <3>4 DEF U, W, GridCols
    <2> QED  BY <2>1, <2>2
<1>9. shelf \in Nat \ {0}
    BY <1>3, <1>6 DEF Shelf, Larger
<1>10. /\ IsList(Append(tiles, tile)) /\ Len(Append(tiles, tile)) = n
       /\ \A i \in 1 .. n - 1 : Append(tiles, tile)[i] = tiles[i]
       /\ Append(tiles, tile)[n] = tile
    <2> DEFINE S == Range(tiles) \cup {tile}
    <2>1. tiles \in Seq(S) /\ tile \in S
        BY <1>3, SeqMonotonic DEF IsList
    <2> HIDE DEF S, tile, tiles
    <2>2. /\ Append(tiles, tile) \in Seq(S) /\ Len(Append(tiles, tile)) = Len(tiles) + 1
          /\ \A i \in 1 .. Len(tiles) : Append(tiles, tile)[i] = tiles[i]
          /\ Append(tiles, tile)[Len(tiles) + 1] = tile
        BY <2>1, AppendProperties
    <2>3. Len(tiles) = n - 1 /\ Len(tiles) + 1 = n
        BY <1>3
    <2>4. IsList(Append(tiles, tile))
        BY <2>2, SeqOfRange DEF IsList
    <2> QED  BY <2>2, <2>3, <2>4
<1> HIDE DEF tile, shelf
<1>11. next = IF over THEN [used |-> c.w, n |-> 1] ELSE [used |-> row.used + c.w, n |-> row.n + 1]
    BY DEF PackOne
<1>12. CASE over
    <2>1. /\ y = acc.y + acc.shelf /\ x = 0 /\ next.used = c.w /\ next.n = 1
        BY <1>8, <1>11, <1>12
    <2>2. n - 1 # 0 /\ acc.shelf > 0 /\ acc.shelf \in Nat /\ acc.y \in Nat
        BY <1>3, <1>12
    <2> HIDE DEF x, y, wraps, over, next, after, tiles
    <2>3. after.x = 2 * next.used /\ after.y = acc.y + acc.shelf /\ after.row = <<0>>
        BY <1>1, <1>5, <1>7, <2>1
    <2>4. next.n \in Nat /\ next.used \in 0 .. GridCols /\ next.used > 0 /\ next.n \in 1 .. n
        BY <1>5, <2>1 DEF GridCols
    <2>5. after.y \in Nat /\ y0 <= after.y /\ after.shelf \in Nat /\ after.shelf > 0
        BY <1>1, <1>3, <1>9, <2>3
    <2>6. IsList(after.tiles) /\ Len(after.tiles) = n /\ after.tiles[n].w = 2 * c.w
        BY <1>1, <1>2, <1>5, <1>10
    <2>8. \A i \in 1 .. n - 1 : tiles[i].y \in Nat
        BY DEF Shelved, IsTile, tiles
    <2>7. ASSUME NEW i \in 1 .. n
          PROVE  /\ i <= n - next.n => after.tiles[i].y < after.y
                 /\ i > n - next.n => after.tiles[i].y = after.y
        <3>1. CASE i = n
            BY <1>1, <1>2, <1>10, <2>1, <3>1
        <3>2. CASE i # n
            <4>1. i \in 1 .. n - 1
                BY <3>2
            <4>2. after.tiles[i] = tiles[i]
                BY <1>1, <1>10, <4>1
            <4>3. i <= (n - 1) - row.n \/ i > (n - 1) - row.n
                BY <1>3, <4>1
            <4>4. tiles[i].y < acc.y \/ tiles[i].y = acc.y
                BY <1>4, <4>1, <4>3
            <4>5. after.tiles[i].y < after.y
                <5> DEFINE Y == acc.y
                           s == acc.shelf
                           z == tiles[i].y
                <5>1. Y \in Nat /\ s \in Nat /\ s > 0 /\ z \in Int /\ (z < Y \/ z = Y)
                    BY <2>2, <4>1, <4>4, <2>8
                <5> HIDE DEF Y, s, z
                <5>2. z < Y + s
                    BY <5>1
                <5> QED  BY <2>3, <4>2, <5>2 DEF Y, s, z
            <4>6. i <= n - next.n
                BY <2>1, <4>1
            <4> QED  BY <2>4, <4>5, <4>6
        <3> QED  BY <3>1, <3>2
    <2> QED  BY <2>3, <2>4, <2>5, <2>6, <2>7 DEF SameShelf, after, next, c
<1>13. CASE ~over
    <2>1. /\ y = acc.y /\ x = acc.x /\ next.used = row.used + c.w /\ next.n = row.n + 1
        BY <1>8, <1>11, <1>13
    <2> DEFINE U == row.used
               W == c.w
               k == row.n
    <2>2. U \in 0 .. 12 /\ W \in 1 .. 12 /\ ~(U > 0 /\ U + W > 12) /\ w = 2 * W /\ acc.x = 2 * U
        BY <1>3, <1>5, <1>13 DEF GridCols
    <2>a. k \in Nat /\ (k = 0 \/ k \in 1 .. n - 1)
        BY <1>3
    <2>b. next.used = U + W /\ next.n = k + 1 /\ after.x = acc.x + w
        BY <1>1, <2>1
    <2> HIDE DEF x, y, wraps, over, next, after, tiles, U, W, k
    <2>c. U + W \in 1 .. 12 /\ 2 * U + 2 * W = 2 * (U + W) /\ k + 1 \in 1 .. n
        BY <2>2, <2>a
    <2>3. after.x = 2 * next.used /\ after.y = acc.y /\ after.row = <<0>>
        BY <1>1, <1>7, <2>1, <2>2, <2>b, <2>c
    <2>4. next.n \in Nat /\ next.used \in 0 .. GridCols /\ next.used > 0 /\ next.n \in 1 .. n
        BY <2>b, <2>c DEF GridCols
    <2>5. after.y \in Nat /\ y0 <= after.y /\ after.shelf \in Nat /\ after.shelf > 0
        BY <1>1, <1>3, <1>9, <2>3
    <2>6. IsList(after.tiles) /\ Len(after.tiles) = n /\ after.tiles[n].w = 2 * c.w
        BY <1>1, <1>2, <1>5, <1>10
    <2>7. ASSUME NEW i \in 1 .. n
          PROVE  /\ i <= n - next.n => after.tiles[i].y < after.y
                 /\ i > n - next.n => after.tiles[i].y = after.y
        <3>0. n - next.n = (n - 1) - row.n /\ n - next.n \in Int
            <4>1. n - (k + 1) = (n - 1) - k /\ n - (k + 1) \in Int
                BY <2>a
            <4> QED  BY <2>b, <4>1 DEF k
        <3>1. CASE i = n
            <4>1. ~(i <= n - next.n)
                BY <1>3, <2>1, <3>1
            <4> QED  BY <1>1, <1>2, <1>10, <2>1, <3>1, <4>1
        <3>2. CASE i # n
            <4>1. i \in 1 .. n - 1
                BY <3>2
            <4>2. after.tiles[i] = tiles[i]
                BY <1>1, <1>10, <4>1
            <4> QED  BY <1>4, <2>3, <3>0, <4>1, <4>2
        <3> QED  BY <3>1, <3>2
    <2> QED  BY <2>3, <2>4, <2>5, <2>6, <2>7 DEF SameShelf, after, next, c
<1> QED  BY <1>12, <1>13

\* The shelves of DataLens, down to the last.
LEMMA LastOfShelves ==
    ASSUME NEW charts, IsList(charts), charts # <<>>, FilledRow(charts), NEW y0 \in Nat,
           \A i \in DOMAIN charts : /\ charts[i].w \in 1 .. GridCols /\ charts[i].row = 0
                                    /\ charts[i].h \in 1 .. 12
    PROVE  LET tiles == Placing(charts, y0)[Len(charts)].tiles
               N == Len(charts)
           IN  /\ IsList(tiles) /\ Len(tiles) = N /\ N \in Nat \ {0}
               /\ \A i \in 1 .. N : tiles[i].y \in Nat /\ y0 <= tiles[i].y
               /\ \A i \in 1 .. N : tiles[i].y <= tiles[N].y
               /\ \/ tiles[N].w = DashCols
                  \/ N - 1 \in 1 .. N /\ tiles[N - 1].y = tiles[N].y
<1>1. PICK cs : /\ IsList(cs) /\ Len(cs) = Len(charts)
                /\ \A i \in DOMAIN cs : cs[i].w = charts[i].w
                /\ cs # <<>> /\ PackWidth(cs)[Len(cs)].n = 1 => cs[Len(cs)].w = GridCols
    BY DEF FilledRow
<1> DEFINE N == Len(charts)
           after == Placing(charts, y0)
           upto == PackWidth(cs)
           Both(n) == Shelved(after[n], y0, n) /\ SameShelf(after[n], upto[n], charts, y0, n)
           X == {n \in Nat : n <= N => Both(n)}
           tiles == after[N].tiles
<1>2. /\ N \in Nat /\ N # 0 /\ DOMAIN charts = 1 .. N
      /\ cs # <<>> /\ N \in DOMAIN cs
    BY <1>1, LenProperties, EmptySeq DEF IsList
<1>3. /\ after[0] = [tiles |-> <<>>, x |-> 0, y |-> y0, shelf |-> 0, row |-> <<>>]
      /\ \A n \in 1 .. N : after[n] = PlaceTile(after[n - 1], charts[n])
    BY PlacingIs
<1>4. /\ upto[0] = [used |-> 0, n |-> 0]
      /\ \A n \in 1 .. N : upto[n] = PackOne(upto[n - 1], charts[n].w)
    BY <1>1, RowOfWidths
<1>5. upto[N].n = 1 => charts[N].w = GridCols
    BY <1>1, <1>2
<1> HIDE DEF N, after, upto
<1>8. 0 \in X
    <2>1. /\ after[0].tiles = <<>> /\ after[0].x = 0 /\ after[0].y = y0 /\ after[0].shelf = 0
          /\ upto[0].used = 0 /\ upto[0].n = 0
        BY <1>3, <1>4
    <2>2. Len(<<>>) = 0 /\ IsList(<<>>)
        BY EmptySeq DEF IsList
    <2>3. SameShelf(after[0], upto[0], charts, y0, 0)
        BY <2>1, <2>2 DEF SameShelf, GridCols
    <2>4. Shelved(after[0], y0, 0)
        BY <2>1, <2>2 DEF Shelved, DashCols
    <2> QED  BY <2>3, <2>4
<1>9. ASSUME NEW n \in Nat, n \in X PROVE n + 1 \in X
    <2>1. CASE n + 1 <= N
        <3>1. /\ n + 1 \in Nat /\ n + 1 # 0 /\ n + 1 \in 1 .. N /\ (n + 1) - 1 = n /\ n <= N
              /\ n + 1 \in DOMAIN charts
            BY <1>2, <2>1
        <3>2. Both((n + 1) - 1) /\ Both(n)
            BY <1>9, <3>1
        <3>3. /\ charts[n + 1].w \in 1 .. GridCols /\ charts[n + 1].row = 0
              /\ charts[n + 1].h \in 1 .. 12 /\ charts[n + 1].w \in 1 .. 12
            BY <3>1 DEF GridCols
        <3>4. SameShelf(PlaceTile(after[(n + 1) - 1], charts[n + 1]),
                        PackOne(upto[(n + 1) - 1], charts[n + 1].w), charts, y0, n + 1)
            BY <3>1, <3>2, <3>3, ShelfSame
        <3>5. Shelved(PlaceTile(after[n], charts[n + 1]), y0, n + 1)
            BY <3>2, <3>3, ShelfStep
        <3>6. /\ after[n + 1] = PlaceTile(after[(n + 1) - 1], charts[n + 1])
              /\ upto[n + 1] = PackOne(upto[(n + 1) - 1], charts[n + 1].w)
            BY <1>3, <1>4, <3>1
        <3> QED  BY <3>1, <3>4, <3>5, <3>6
    <2>2. CASE ~(n + 1 <= N)
        BY <2>2
    <2> QED  BY <2>1, <2>2
<1> HIDE DEF X
<1>10. N \in X
    BY <1>2, <1>8, <1>9, Induct
<1>11. Shelved(after[N], y0, N) /\ SameShelf(after[N], upto[N], charts, y0, N)
    BY <1>2, <1>10 DEF X
<1>7. \A i \in 1 .. N : tiles[i].y \in Nat /\ y0 <= tiles[i].y
    BY <1>11 DEF Shelved, IsTile
<1> DEFINE k == upto[N].n
           y == after[N].y
<1>12. /\ IsList(tiles) /\ Len(tiles) = N /\ k \in 1 .. N /\ y \in Nat
       /\ tiles[N].w = 2 * charts[N].w
       /\ \A i \in 1 .. N : /\ i <= N - k => tiles[i].y < y
                            /\ i > N - k => tiles[i].y = y
    BY <1>2, <1>11 DEF SameShelf
<1> HIDE DEF k, y, tiles
<1>13. tiles[N].y = y
    BY <1>2, <1>12
<1>14. ASSUME NEW i \in 1 .. N PROVE tiles[i].y <= tiles[N].y
    <2>1. i <= N - k \/ i > N - k
        BY <1>2, <1>12
    <2>2. tiles[i].y \in Nat
        BY <1>7
    <2> QED  BY <1>12, <1>13, <2>1, <2>2
<1>15. tiles[N].w = DashCols \/ (N - 1 \in 1 .. N /\ tiles[N - 1].y = tiles[N].y)
    <2>1. CASE k = 1
        BY <1>5, <1>12, <2>1 DEF DashCols, GridCols, k
    <2>2. CASE k # 1
        <3>1. N - 1 \in 1 .. N /\ N - 1 > N - k
            BY <1>2, <1>12, <2>2
        <3> QED  BY <1>12, <1>13, <3>1
    <2> QED  BY <2>1, <2>2
<1> QED  BY <1>2, <1>7, <1>12, <1>14, <1>15 DEF tiles, after, N

\* A tile of DataLens that is alone at the bottom takes the whole width.
LEMMA LastOfLayout ==
    ASSUME NEW s, IsSpec(s), s.charts # <<>>, FilledRow(s.charts),
           \A i \in DOMAIN s.charts : s.charts[i].w \in 1 .. GridCols /\ s.charts[i].row = 0
    PROVE  LET grid == DashLayout(s)
               lowest == {i \in DOMAIN grid : \A j \in DOMAIN grid : grid[j].y <= grid[i].y}
           IN  Cardinality(lowest) = 1 => \A i \in lowest : grid[i].w = DashCols
<1> DEFINE n == Len(build_selectors(s))
           y0 == ((n + CtrlsPerRow - 1) \div CtrlsPerRow) * CtrlH
           above == ControlTiles(n)
           N == Len(s.charts)
           below == Placing(s.charts, y0)[N].tiles
           grid == above \o below
           lowest == {i \in DOMAIN grid : \A j \in DOMAIN grid : grid[j].y <= grid[i].y}
           M == n + N
<1>1. n \in Nat /\ IsList(s.charts)
    <2>1. IsList(build_selectors(s))
        BY SelectorsList
    <2> QED  BY <2>1, LenProperties DEF IsSpec, IsList
<1>2. DashLayout(s) = grid
    BY DEF DashLayout
<1> HIDE DEF n
<1>3. /\ IsList(above) /\ Len(above) = n /\ y0 \in Nat
      /\ \A i \in 1 .. n : IsTile(above[i]) /\ above[i].y + above[i].h <= y0
    BY <1>1, ControlsHold
<1>4. \A i \in DOMAIN s.charts : s.charts[i].h \in 1 .. 12
    BY DEF IsSpec, IsChart, Range
<1> HIDE DEF y0
<1>5. /\ IsList(below) /\ Len(below) = N /\ N \in Nat \ {0}
      /\ \A i \in 1 .. N : below[i].y \in Nat /\ y0 <= below[i].y
      /\ \A i \in 1 .. N : below[i].y <= below[N].y
      /\ \/ below[N].w = DashCols
         \/ N - 1 \in 1 .. N /\ below[N - 1].y = below[N].y
    BY <1>1, <1>3, <1>4, LastOfShelves
<1> HIDE DEF above, below, N
<1>6. /\ DOMAIN grid = 1 .. M
      /\ \A i \in 1 .. M : grid[i] = IF i <= n THEN above[i] ELSE below[i - n]
    <2> DEFINE S == Range(above) \cup Range(below)
    <2>1. above \in Seq(S) /\ below \in Seq(S)
        BY <1>3, <1>5, SeqMonotonic DEF IsList
    <2> HIDE DEF S
    <2>3. Len(above) = n /\ Len(below) = N
        BY <1>3, <1>5
    <2>2. /\ above \o below \in Seq(S) /\ Len(above \o below) = n + N
          /\ \A i \in 1 .. n + N : (above \o below)[i] = IF i <= n THEN above[i] ELSE below[i - n]
        BY <2>1, <2>3, ConcatProperties
    <2> QED  BY <2>2, LenProperties
<1> HIDE DEF grid
<1>7. M \in 1 .. M /\ grid[M] = below[N]
    BY <1>1, <1>5, <1>6
<1>8. ASSUME NEW j \in 1 .. M PROVE grid[j].y <= below[N].y
    <2> DEFINE low == below[N].y
    <2>1. low \in Nat /\ y0 <= low
        BY <1>5
    <2>2. CASE j <= n
        <3> DEFINE t == above[j]
                   ty == t.y
                   th == t.h
        <3>1. grid[j] = t
            BY <1>6, <2>2
        <3>2. ty \in Nat /\ th \in Nat /\ ty + th <= y0
            BY <1>1, <1>3, <2>2 DEF IsTile
        <3> HIDE DEF ty, th, low
        <3>3. ty <= low
            BY <1>3, <2>1, <3>2
        <3> QED  BY <3>1, <3>3 DEF ty, low
    <2>3. CASE ~(j <= n)
        <3>1. grid[j] = below[j - n] /\ j - n \in 1 .. N
            BY <1>1, <1>5, <1>6, <2>3
        <3> QED  BY <1>5, <3>1
    <2> QED  BY <2>2, <2>3
<1>9. M \in lowest
    BY <1>6, <1>7, <1>8
<1>10. ASSUME Cardinality(lowest) = 1, NEW i \in lowest PROVE grid[i].w = DashCols
    <2>1. IsFiniteSet(lowest)
        <3>1. lowest \subseteq 1 .. M
            BY <1>6
        <3>2. 1 \in Int /\ M \in Int
            BY <1>1, <1>5
        <3>3. IsFiniteSet(1 .. M)
            BY <3>2, FS_Interval
        <3> HIDE DEF lowest, M
        <3> QED  BY <3>1, <3>3, FS_Subset
    <2> HIDE DEF lowest
    <2>2. \E x : lowest = {x}
        BY <1>10, <2>1, FS_Singleton
    <2>3. lowest = {M}
        BY <1>9, <2>2
    <2>4. ASSUME N - 1 \in 1 .. N, below[N - 1].y = below[N].y PROVE FALSE
        <3>1. M - 1 \in 1 .. M /\ ~(M - 1 <= n) /\ (M - 1) - n = N - 1 /\ M - 1 # M
            BY <1>1, <1>5, <2>4
        <3>2. grid[M - 1] = below[N - 1]
            BY <1>6, <3>1
        <3>3. M - 1 \in lowest
            BY <1>6, <1>8, <2>4, <3>1, <3>2 DEF lowest
        <3> QED  BY <2>3, <3>1, <3>3
    <2>5. below[N].w = DashCols
        BY <1>5, <2>4
    <2> QED  BY <1>7, <2>3, <2>5
<1> QED  BY <1>2, <1>10

\* The last row of the grid of a built overview.
LEMMA BuildFills ==
    ASSUME GateInv, OriginInv, IsOverview(spec), IsBuilt
    PROVE  LastRowFilled
<1>1. PICK t : Known(t) /\ Board(spec, t)
    BY OverviewOf DEF OriginInv
<1>2. /\ FilledRow(spec.charts) /\ spec.charts # <<>>
      /\ \A i \in DOMAIN spec.charts : spec.charts[i].w \in 1 .. GridCols /\ spec.charts[i].row = 0
    <2>1. spec.charts # <<>>
        BY DEF IsOverview
    <2> QED  BY <1>1, <2>1 DEF Board, Drawn
<1>3. IsSpec(spec)
    BY DEF GateInv
<1>4. PICK large \in BOOLEAN : built = <<Compiled(spec, trials, large)>>
    BY DEF GateInv, IsBuilt
<1>5. CASE OnSuperset
    <2>1. TheBuild.grid = PackRows(spec.charts)
        BY <1>4, <1>5 DEF TheBuild, Compiled, SupersetBuild, OnSuperset
    <2>2. IsList(spec.charts)
        BY <1>3 DEF IsSpec
    <2>3. LET row == Last(PackRows(spec.charts)) IN Len(row) = 1 => row[1].w = GridWidth
        BY <1>2, <2>2, LastOfRows
    <2> QED  BY <1>5, <2>1, <2>3 DEF LastRowFilled
<1>6. CASE ~OnSuperset
    <2>1. TheBuild.grid = DashLayout(spec)
        BY <1>4, <1>6 DEF TheBuild, Compiled, DataLensBuild, OnSuperset
    <2>2. LET grid == DashLayout(spec)
              lowest == {i \in DOMAIN grid : \A j \in DOMAIN grid : grid[j].y <= grid[i].y}
          IN  Cardinality(lowest) = 1 => \A i \in lowest : grid[i].w = DashCols
        BY <1>2, <1>3, LastOfLayout
    <2> QED  BY <1>6, <2>1, <2>2 DEF LastRowFilled
<1> QED  BY <1>5, <1>6

\* An overview under discussion, approved or built keeps what it promises.
LEMMA OverviewIs == GateInv /\ OriginInv => OverviewHolds
<1> SUFFICES ASSUME GateInv, OriginInv, IsOverview(spec) PROVE OverviewHolds
    BY DEF OverviewHolds
<1>1. spec \in Proposals
    BY DEF OriginInv
<1>2. ~Unbuildable(spec) => Valid(spec, FALSE)
    BY <1>1, OverviewValid
<1>3. apply_chart_defaults(apply_label_joins(spec)) = spec
    BY <1>1, OverviewNormal
<1>4. IsBuilt => LastRowFilled
    BY BuildFills
<1>5. IsBuilt /\ spec.filters # <<>> => \A c \in Range(spec.charts) : ShowsPeriod(c)
    BY BuildShows
<1> QED  BY <1>2, <1>3, <1>4, <1>5 DEF OverviewHolds, OverviewStays, OverviewShows

\* What nobody validated is built as it should be, for every semantic model and
\* every overview of it (autospec.py, adapters): an approved overview passes the
\* validation unless the model keeps it from it, the normalisation leaves it as
\* it was approved, its last row is full on either grid, and every chart of its
\* board shows the period.
THEOREM OverviewsHold == Spec => []OverviewHolds
<1>1. Init => OriginInv
    BY DEF Init, OriginInv, IsOverview
<1>2. GateInv /\ OriginInv /\ [Next]_vars => OriginInv'
    BY OriginNext
<1>3. Spec => []OriginInv
    BY <1>1, <1>2, Gated, PTL DEF Spec
<1> QED  BY <1>3, Gated, OverviewIs, PTL

===============================================================================
