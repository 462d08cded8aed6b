------------------------------ MODULE PlanProofs ------------------------------
(***************************************************************************)
(* What the planning pipeline builds, for any semantic model and any       *)
(* specification an agent may propose: the datasets are the statements the *)
(* gate saw, the charts name their columns, the controls and the LIMITs    *)
(* agree, a magnitude was measured, and the grid holds every chart without *)
(* an overlap.  Each follows from what is known of a specification from    *)
(* the gate on (GateInv), and from lemmas about the operators that         *)
(* normalise a specification, compile its charts and lay them out.         *)
(***************************************************************************)
EXTENDS PlanInvariants, FiniteSetTheorems, SequenceTheorems, WellFoundedInduction, TLAPS

-----------------------------------------------------------------------------
(* Flattening: every selection from a sequence is one. *)

\* The prefixes of a flattened sequence, up to one of its elements.
Partial(ss, m, h, S) ==
    /\ h \in [1 .. m -> Seq(S)]
    /\ \A i \in 1 .. m : h[i] = IF i = 1 THEN ss[1] ELSE h[i - 1] \o ss[i]

\* Every sequence of sequences has its prefixes, up to any of its elements.
LEMMA PrefixesExist ==
    ASSUME NEW S, NEW ss \in Seq(Seq(S))
    PROVE  \A m \in Nat : m <= Len(ss) => \E h : Partial(ss, m, h, S)
<1> DEFINE T == {m \in Nat : m <= Len(ss) /\ ~\E h : Partial(ss, m, h, S)}
<1> SUFFICES ASSUME T # {} PROVE FALSE
    OBVIOUS
<1>1. PICK m \in T : \A j \in T : ~(<<j, m>> \in OpToRel(<, Nat))
    BY NatLessThanWellFounded, WFMin
<1>2. \A j \in Nat : j < m => j \notin T
    BY <1>1 DEF OpToRel
<1>3. m \in Nat /\ m <= Len(ss) /\ ~\E h : Partial(ss, m, h, S)
    OBVIOUS
<1>4. CASE m = 0
    <2>1. Partial(ss, 0, [i \in 1 .. 0 |-> <<>>], S)
        BY DEF Partial
    <2> QED  BY <1>3, <1>4, <2>1
<1>5. CASE m # 0
    <2>1. m - 1 \in Nat /\ m - 1 < m /\ m - 1 <= Len(ss) /\ m \in 1 .. Len(ss)
        BY <1>3, <1>5
    <2>2. PICK h : Partial(ss, m - 1, h, S)
        BY <1>2, <2>1
    <2> DEFINE g == [i \in 1 .. m |->
                        IF i = m THEN (IF m = 1 THEN ss[1] ELSE h[m - 1] \o ss[m]) ELSE h[i]]
    <2>3. ss[m] \in Seq(S)
        BY <2>1, ElementOfSeq
    <2>4. m # 1 => h[m - 1] \in Seq(S)
        BY <2>1, <2>2 DEF Partial
    <2>5. m # 1 => h[m - 1] \o ss[m] \in Seq(S)
        BY <2>3, <2>4, ConcatProperties
    <2>6. g \in [1 .. m -> Seq(S)]
        BY <2>1, <2>2, <2>3, <2>5 DEF Partial
    <2>7. ASSUME NEW i \in 1 .. m PROVE g[i] = IF i = 1 THEN ss[1] ELSE g[i - 1] \o ss[i]
        <3>1. CASE i = m
            <4>1. m # 1 => g[m - 1] = h[m - 1]
                BY <2>1
            <4> QED  BY <3>1, <4>1
        <3>2. CASE i # m
            <4>1. i \in 1 .. m - 1 /\ g[i] = h[i]
                BY <3>2, <2>1
            <4>2. h[i] = IF i = 1 THEN ss[1] ELSE h[i - 1] \o ss[i]
                BY <2>2, <4>1 DEF Partial
            <4>3. i # 1 => g[i - 1] = h[i - 1]
                BY <4>1, <2>1
            <4> QED  BY <4>1, <4>2, <4>3
        <3> QED  BY <3>1, <3>2
    <2>8. Partial(ss, m, g, S)
        BY <2>6, <2>7 DEF Partial
    <2> QED  BY <1>3, <2>8
<1> QED  BY <1>4, <1>5

\* What FlattenSeq returns is the last prefix, so no choice is made in it.
LEMMA FlattenIsPrefix ==
    ASSUME NEW S, NEW ss \in Seq(Seq(S)), ss # <<>>
    PROVE  \E h : Partial(ss, Len(ss), h, S) /\ FlattenSeq(ss) = h[Len(ss)]
<1> DEFINE F(h) == [i \in 1 .. Len(ss) |-> IF i = 1 THEN ss[i] ELSE h[i - 1] \o ss[i]]
           f == CHOOSE h : h = F(h)
<1>1. Len(ss) \in Nat \ {0}
    BY EmptySeq
<1>2. PICK h : Partial(ss, Len(ss), h, S)
    BY <1>1, PrefixesExist
<1>3. h = F(h)
    BY <1>2 DEF Partial
<1>4. f = F(f)
    BY <1>3
<1>5. FlattenSeq(ss) = f[Len(ss)]
    BY <1>1 DEF FlattenSeq
<1>6. \A i \in 1 .. Len(ss) : f[i] = IF i = 1 THEN ss[i] ELSE f[i - 1] \o ss[i]
    BY <1>4
<1> HIDE DEF f
<1>7. ASSUME NEW m \in 1 .. Len(ss) PROVE f[m] = h[m]
    <2> DEFINE T == {j \in Nat : j \in 1 .. Len(ss) /\ f[j] # h[j]}
    <2>0. Len(ss) \in Nat /\ m \in Nat
        BY <1>1
    <2> SUFFICES ASSUME T # {} PROVE FALSE
        BY <2>0
    <2>1. PICK j \in T : \A i \in T : ~(<<i, j>> \in OpToRel(<, Nat))
        BY NatLessThanWellFounded, WFMin
    <2>2. \A i \in Nat : i < j => i \notin T
        BY <2>1 DEF OpToRel
    <2>3. j # 1
        BY <1>2, <1>6 DEF Partial
    <2>4. j - 1 \in Nat /\ j - 1 < j /\ j - 1 \in 1 .. Len(ss) /\ j \in 1 .. Len(ss)
        BY <2>3, <1>1
    <2>5. f[j - 1] = h[j - 1]
        BY <2>2, <2>4
    <2>6. f[j] = f[j - 1] \o ss[j]
        BY <1>6, <2>3, <2>4
    <2>7. h[j] = h[j - 1] \o ss[j]
        BY <1>2, <2>3, <2>4 DEF Partial
    <2>8. f[j] # h[j]
        OBVIOUS
    <2> QED  BY <2>5, <2>6, <2>7, <2>8
<1> QED  BY <1>1, <1>2, <1>5, <1>7

\* What a flattened sequence holds.
LEMMA FlattenRange ==
    ASSUME NEW S, NEW ss \in Seq(Seq(S))
    PROVE  /\ FlattenSeq(ss) \in Seq(S)
           /\ \A x : x \in Range(FlattenSeq(ss)) <=> \E i \in 1 .. Len(ss) : x \in Range(ss[i])
<1>1. CASE ss = <<>>
    <2>1. FlattenSeq(ss) = <<>>
        BY <1>1 DEF FlattenSeq
    <2>2. FlattenSeq(ss) \in Seq(S)
        BY <2>1
    <2>3. \A i \in 1 .. Len(ss) : FALSE
        BY <1>1
    <2>4. Range(FlattenSeq(ss)) = {}
        BY <2>1 DEF Range
    <2> QED  BY <2>2, <2>3, <2>4
<1>2. CASE ss # <<>>
    <2>1. PICK h : Partial(ss, Len(ss), h, S) /\ FlattenSeq(ss) = h[Len(ss)]
        BY <1>2, FlattenIsPrefix
    <2>2. Len(ss) \in Nat \ {0} /\ Len(ss) \in 1 .. Len(ss)
        BY <1>2, EmptySeq
    <2> DEFINE Holds(m) == \A x : x \in Range(h[m]) <=> \E i \in 1 .. m : x \in Range(ss[i])
               T == {m \in Nat : m \in 1 .. Len(ss) /\ ~Holds(m)}
    <2>3. T = {}
        <3> SUFFICES ASSUME T # {} PROVE FALSE
            OBVIOUS
        <3>1. PICK m \in T : \A i \in T : ~(<<i, m>> \in OpToRel(<, Nat))
            BY NatLessThanWellFounded, WFMin
        <3>2. \A i \in Nat : i < m => i \notin T
            BY <3>1 DEF OpToRel
        <3>3. m \in 1 .. Len(ss) /\ ~Holds(m)
            OBVIOUS
        <3>4. CASE m = 1
            <4>1. 1 \in 1 .. Len(ss) /\ h[1] = ss[1]
                BY <2>1, <3>3, <3>4 DEF Partial
            <4>2. \A i \in 1 .. m : i = 1
                BY <3>4
            <4> QED  BY <3>3, <3>4, <4>1, <4>2
        <3>5. CASE m # 1
            <4>1. m - 1 \in Nat /\ m - 1 < m /\ m - 1 \in 1 .. Len(ss)
                BY <3>3, <3>5, <2>2
            <4>2. Holds(m - 1)
                BY <3>2, <4>1
            <4>3. h[m] = h[m - 1] \o ss[m]
                BY <2>1, <3>3, <3>5 DEF Partial
            <4>4. h[m - 1] \in Seq(S) /\ ss[m] \in Seq(S)
                BY <2>1, <3>3, <4>1, ElementOfSeq DEF Partial
            <4>5. Range(h[m]) = Range(h[m - 1]) \cup Range(ss[m])
                BY <4>3, <4>4, RangeConcatenation
            <4>6. \A i : i \in 1 .. m <=> i \in 1 .. m - 1 \/ i = m
                BY <3>3, <2>2
            <4> QED  BY <3>3, <4>2, <4>5, <4>6
        <3> QED  BY <3>4, <3>5
    <2>4. Holds(Len(ss))
        BY <2>2, <2>3
    <2>5. h[Len(ss)] \in Seq(S)
        BY <2>1, <2>2 DEF Partial
    <2> QED  BY <2>1, <2>4, <2>5
<1> QED  BY <1>1, <1>2

\* What a selection by position keeps.
At(seq, K) == FlattenSeq([i \in DOMAIN seq |-> IF i \in K THEN <<seq[i]>> ELSE <<>>])

LEMMA Kept ==
    ASSUME NEW S, NEW seq \in Seq(S), NEW K
    PROVE  /\ At(seq, K) \in Seq(S)
           /\ \A x : x \in Range(At(seq, K)) <=> \E i \in DOMAIN seq : i \in K /\ x = seq[i]
<1> DEFINE ss == [i \in DOMAIN seq |-> IF i \in K THEN <<seq[i]>> ELSE <<>>]
<1>1. Len(seq) \in Nat /\ DOMAIN seq = 1 .. Len(seq)
    BY LenProperties
<1>2. ASSUME NEW i \in DOMAIN seq
      PROVE  /\ ss[i] \in Seq(S)
             /\ \A x : x \in Range(ss[i]) <=> i \in K /\ x = seq[i]
    <2>1. seq[i] \in S
        BY <1>1, ElementOfSeq
    <2>2. CASE i \in K
        <3>1. ss[i] = <<seq[i]>>
            BY <2>2
        <3>2. Range(<<seq[i]>>) = {seq[i]}
            BY DEF Range
        <3> QED  BY <2>1, <2>2, <3>1, <3>2
    <2>3. CASE i \notin K
        <3>1. ss[i] = <<>>
            BY <2>3
        <3>2. Range(<<>>) = {}
            BY DEF Range
        <3> QED  BY <2>3, <3>1, <3>2
    <2> QED  BY <2>2, <2>3
<1>3. ss \in Seq(Seq(S)) /\ Len(ss) = Len(seq)
    BY <1>1, <1>2
<1> HIDE DEF ss
<1>4. /\ FlattenSeq(ss) \in Seq(S)
      /\ \A x : x \in Range(FlattenSeq(ss)) <=> \E i \in 1 .. Len(ss) : x \in Range(ss[i])
    BY <1>3, FlattenRange
<1>5. \A x : x \in Range(FlattenSeq(ss)) <=> \E i \in DOMAIN seq : i \in K /\ x = seq[i]
    BY <1>1, <1>2, <1>3, <1>4
<1> QED  BY <1>4, <1>5 DEF ss, At

\* The first element kept is the one of the smallest position.
LEMMA FirstKept ==
    ASSUME NEW S, NEW seq \in Seq(S), NEW K, K \subseteq DOMAIN seq, K # {}
    PROVE  \E k \in K : /\ \A j \in K : k <= j
                        /\ At(seq, K) # <<>> /\ At(seq, K)[1] = seq[k]
<1> DEFINE ss == [i \in DOMAIN seq |-> IF i \in K THEN <<seq[i]>> ELSE <<>>]
<1>1. Len(seq) \in Nat /\ DOMAIN seq = 1 .. Len(seq)
    BY LenProperties
<1>2. PICK k \in K : \A j \in K : k <= j
    <2> DEFINE T == {j \in Nat : j \in K}
    <2>1. T # {} /\ K \subseteq Nat
        BY <1>1
    <2>2. PICK k \in T : \A j \in T : ~(<<j, k>> \in OpToRel(<, Nat))
        BY <2>1, NatLessThanWellFounded, WFMin
    <2>3. \A j \in K : j \in Nat /\ ~(j < k)
        BY <2>1, <2>2 DEF OpToRel
    <2> QED  BY <2>1, <2>3
<1>3. ASSUME NEW i \in DOMAIN seq
      PROVE  /\ ss[i] \in Seq(S)
             /\ i < k => ss[i] = <<>>
             /\ i = k => ss[i] = <<seq[k]>>
    <2>1. i < k => i \notin K
        BY <1>1, <1>2
    <2>2. seq[i] \in S
        BY <1>1, ElementOfSeq
    <2> QED  BY <2>1, <2>2
<1>4. ss \in Seq(Seq(S)) /\ Len(ss) = Len(seq) /\ DOMAIN ss = 1 .. Len(seq)
    BY <1>1, <1>3
<1>5. ss # <<>>
    BY <1>1, <1>2, <1>4, EmptySeq
<1> HIDE DEF ss
<1>6. PICK h : Partial(ss, Len(ss), h, S) /\ FlattenSeq(ss) = h[Len(ss)]
    BY <1>4, <1>5, FlattenIsPrefix
<1> DEFINE Holds(m) == IF m < k THEN h[m] = <<>> ELSE h[m] # <<>> /\ h[m][1] = seq[k]
           T == {m \in Nat : m \in 1 .. Len(seq) /\ ~Holds(m)}
<1>7. T = {}
    <2> SUFFICES ASSUME T # {} PROVE FALSE
        OBVIOUS
    <2>1. PICK m \in T : \A i \in T : ~(<<i, m>> \in OpToRel(<, Nat))
        BY NatLessThanWellFounded, WFMin
    <2>2. \A i \in Nat : i < m => i \notin T
        BY <2>1 DEF OpToRel
    <2>3. m \in Nat /\ m \in 1 .. Len(seq) /\ ~Holds(m) /\ k \in 1 .. Len(seq)
        BY <1>1, <1>2
    <2>4. CASE m = 1
        <3>1. h[1] = ss[1]
            BY <1>4, <1>6, <2>3, <2>4 DEF Partial
        <3>2. 1 \in DOMAIN seq /\ (1 < k \/ 1 = k)
            BY <1>1, <2>3, <2>4
        <3>3. k = 1 => h[1] = <<seq[1]>>
            BY <1>3, <3>1, <3>2
        <3>4. 1 < k => h[1] = <<>>
            BY <1>3, <3>1, <3>2
        <3>5. k = 1 => Holds(1)
            BY <3>3
        <3> QED  BY <2>3, <2>4, <3>2, <3>4, <3>5
    <2>5. CASE m # 1
        <3>1. m - 1 \in Nat /\ m - 1 < m /\ m - 1 \in 1 .. Len(seq) /\ m \in DOMAIN seq
            BY <1>1, <2>3, <2>5
        <3>2. Holds(m - 1)
            BY <2>2, <3>1
        <3>3. h[m] = h[m - 1] \o ss[m]
            BY <1>4, <1>6, <2>3, <2>5 DEF Partial
        <3>4. h[m - 1] \in Seq(S) /\ ss[m] \in Seq(S)
            BY <1>3, <1>4, <1>6, <3>1 DEF Partial
        <3>5. CASE m < k
            <4>1. h[m - 1] = <<>> /\ ss[m] = <<>>
                BY <1>3, <2>3, <3>1, <3>2, <3>5
            <4> QED  BY <2>3, <3>3, <3>5, <4>1
        <3>6. CASE m = k
            <4>1. h[m - 1] = <<>> /\ ss[m] = <<seq[k]>>
                BY <1>3, <2>3, <3>1, <3>2, <3>6
            <4>2. h[m] = <<seq[k]>>
                BY <3>3, <4>1
            <4>3. h[m] # <<>> /\ h[m][1] = seq[k]
                BY <4>2
            <4> QED  BY <2>3, <3>6, <4>3
        <3>7. CASE k < m
            <4>1. h[m - 1] # <<>> /\ h[m - 1][1] = seq[k]
                BY <2>3, <3>1, <3>2, <3>7
            <4>2. Len(h[m - 1]) \in Nat \ {0}
                BY <3>4, <4>1, EmptySeq
            <4> DEFINE a == h[m - 1]
                       b == ss[m]
                       n1 == Len(a)
                       n2 == Len(b)
            <4>3. n1 \in Nat \ {0} /\ n2 \in Nat /\ a \in Seq(S) /\ b \in Seq(S)
                BY <3>4, <4>2, LenProperties
            <4> HIDE DEF a, b
            <4>4. /\ a \o b \in Seq(S) /\ Len(a \o b) = n1 + n2
                  /\ \A i \in 1 .. n1 + n2 : (a \o b)[i] = IF i <= n1 THEN a[i] ELSE b[i - n1]
                BY <4>3, ConcatProperties
            <4>5. h[m] = a \o b
                BY <3>3 DEF a, b
            <4> HIDE DEF n1, n2
            <4>6. 1 \in 1 .. n1 + n2 /\ 1 <= n1 /\ n1 + n2 # 0
                BY <4>3
            <4>7. h[m] # <<>> /\ h[m][1] = h[m - 1][1]
                BY <4>4, <4>5, <4>6, EmptySeq DEF a
            <4> QED  BY <2>3, <3>7, <4>1, <4>7
        <3> QED  BY <2>3, <3>5, <3>6, <3>7
    <2> QED  BY <2>4, <2>5
<1>8. Len(ss) \in 1 .. Len(seq) /\ k \in 1 .. Len(seq) /\ ~(Len(seq) < k)
    BY <1>1, <1>2, <1>4
<1>9. FlattenSeq(ss) # <<>> /\ FlattenSeq(ss)[1] = seq[k]
    BY <1>1, <1>4, <1>6, <1>7, <1>8
<1> QED  BY <1>2, <1>9 DEF At, ss

\* Duplicates are dropped, values are not.
LEMMA DistinctRange ==
    ASSUME NEW S, NEW seq \in Seq(S)
    PROVE  Distinct(seq) \in Seq(S) /\ Range(Distinct(seq)) = Range(seq)
<1> DEFINE K == {i \in DOMAIN seq : \A j \in 1 .. i - 1 : seq[j] # seq[i]}
           kept == At(seq, K)
<1>1. [i \in DOMAIN seq |-> IF i \in K THEN <<seq[i]>> ELSE <<>>]
         = [i \in DOMAIN seq |-> IF \E j \in 1 .. i - 1 : seq[j] = seq[i] THEN <<>> ELSE <<seq[i]>>]
    OBVIOUS
<1>2. kept = Distinct(seq)
    BY <1>1 DEF Distinct, At
<1> HIDE DEF K
<1>3. /\ kept \in Seq(S)
      /\ \A x : x \in Range(kept) <=> \E i \in DOMAIN seq : i \in K /\ x = seq[i]
    BY Kept
<1> HIDE DEF kept
<1>4. ASSUME NEW i \in DOMAIN seq PROVE \E k \in K : seq[k] = seq[i]
    <2> DEFINE T == {j \in Nat : j \in DOMAIN seq /\ seq[j] = seq[i]}
    <2>1. Len(seq) \in Nat /\ DOMAIN seq = 1 .. Len(seq)
        BY LenProperties
    <2>2. i \in T
        BY <2>1
    <2>3. PICK k \in T : \A j \in T : ~(<<j, k>> \in OpToRel(<, Nat))
        BY <2>2, NatLessThanWellFounded, WFMin
    <2>4. \A j \in Nat : j < k => j \notin T
        BY <2>3 DEF OpToRel
    <2>5. k \in Nat /\ k \in DOMAIN seq /\ seq[k] = seq[i]
        OBVIOUS
    <2>6. \A j \in 1 .. k - 1 : j \in Nat /\ j < k /\ j \in DOMAIN seq
        BY <2>1, <2>5
    <2>7. k \in K
        BY <2>4, <2>5, <2>6 DEF K
    <2> QED  BY <2>5, <2>7
<1>5. \A x : x \in Range(seq) <=> \E i \in DOMAIN seq : x = seq[i]
    BY DEF Range
<1>6. K \subseteq DOMAIN seq
    BY DEF K
<1>7. \A x : x \in Range(kept) <=> x \in Range(seq)
    BY <1>3, <1>4, <1>5, <1>6
<1> QED  BY <1>2, <1>3, <1>7

-----------------------------------------------------------------------------
(* Statements and their LIMIT. *)

\* The two ways a statement of a chart is written differ in its LIMIT.
LEMMA LimitOnly ==
    ASSUME NEW q, NEW b \in BOOLEAN
    PROVE  Unlimited(ChartSql(q, b)) = Unlimited(ChartSql(q, TRUE))
<1>1. ASSUME NEW s, NEW flat \in BOOLEAN
      PROVE  Unlimited(OrderAndLimit(s, q, flat, b)) = Unlimited(OrderAndLimit(s, q, flat, TRUE))
    <2>1. \A v, w : Unlimited([s EXCEPT !.order = w, !.limit = v])
                      = Unlimited([s EXCEPT !.order = w, !.limit = 0])
        BY DEF Unlimited
    <2> QED  BY <2>1 DEF OrderAndLimit
<1>2. Unlimited(FlatSql(q, b)) = Unlimited(FlatSql(q, TRUE))
    <2> DEFINE s == GroupedSelect(q, Map(LAMBDA m : Item(measure_alias(m), MeasureExpr(q, m)), q.measures))
    <2>1. \A v \in BOOLEAN : FlatSql(q, v) = OrderAndLimit(s, q, TRUE, v)
        BY DEF FlatSql
    <2> HIDE DEF s
    <2>2. b \in BOOLEAN /\ TRUE \in BOOLEAN
        OBVIOUS
    <2> QED  BY <1>1, <2>1, <2>2
<1>3. Unlimited(WindowedSql(q, b)) = Unlimited(WindowedSql(q, TRUE))
    BY <1>1 DEF WindowedSql
<1>4. Unlimited(HistogramSql(q, b)) = Unlimited(HistogramSql(q, TRUE))
    <2> DEFINE r == HistogramSql(q, FALSE)
               s(v) == [From(q.table) EXCEPT !.sub = r.sub, !.items = r.items, !.where = r.where,
                                             !.group = r.group, !.order = r.order, !.limit = v]
    <2>1. \A v \in BOOLEAN : HistogramSql(q, v) = s(IF v THEN q.limit ELSE 0)
        BY DEF HistogramSql, From
    <2> HIDE DEF r
    <2>2. \A v : Unlimited(s(v)) = s(0)
        BY DEF Unlimited, From
    <2> HIDE DEF s
    <2> QED  BY <2>1, <2>2
<1> QED  BY <1>2, <1>3, <1>4 DEF ChartSql

-----------------------------------------------------------------------------
(* Lists. *)

\* A function over the positions of a list is a list.
LEMMA Listing ==
    ASSUME NEW seq, IsList(seq), NEW f, f = [i \in DOMAIN seq |-> f[i]]
    PROVE  IsList(f) /\ DOMAIN f = DOMAIN seq /\ Len(f) = Len(seq)
<1>1. Len(seq) \in Nat /\ DOMAIN seq = 1 .. Len(seq)
    BY LenProperties DEF IsList
<1>2. f \in [1 .. Len(seq) -> Range(f)]
    BY <1>1 DEF Range
<1> QED  BY <1>1, <1>2 DEF IsList

\* The concatenation of two lists is a list of the elements of both.
LEMMA Concatenated ==
    ASSUME NEW s, NEW t, IsList(s), IsList(t)
    PROVE  IsList(s \o t) /\ Range(s \o t) = Range(s) \cup Range(t)
<1> DEFINE X == Range(s) \cup Range(t)
<1>1. s \in Seq(X) /\ t \in Seq(X)
    BY SeqMonotonic DEF IsList
<1>2. s \o t \in Seq(X) /\ Range(s \o t) = Range(s) \cup Range(t)
    BY <1>1, ConcatProperties, RangeConcatenation
<1> QED  BY <1>2, SeqOfRange DEF IsList

\* The references a query groups by are those of its four roles.
LEMMA RolesRange ==
    ASSUME NEW q, \A n \in {"dimensions", "series", "rows", "columns"} : IsList(q[n])
    PROVE  /\ IsList(Roles(q))
           /\ Range(Roles(q)) = Range(q.dimensions) \cup Range(q.series)
                                   \cup Range(q.rows) \cup Range(q.columns)
           /\ IsList(group_columns(q)) /\ Range(group_columns(q)) = Range(Roles(q))
<1>1. IsList(q.dimensions) /\ IsList(q.series) /\ IsList(q.rows) /\ IsList(q.columns)
    OBVIOUS
<1>2. /\ IsList(q.dimensions \o q.series)
      /\ Range(q.dimensions \o q.series) = Range(q.dimensions) \cup Range(q.series)
    BY <1>1, Concatenated
<1>3. /\ IsList(q.dimensions \o q.series \o q.rows)
      /\ Range(q.dimensions \o q.series \o q.rows)
            = Range(q.dimensions) \cup Range(q.series) \cup Range(q.rows)
    BY <1>1, <1>2, Concatenated
<1>4. /\ IsList(Roles(q))
      /\ Range(Roles(q)) = Range(q.dimensions) \cup Range(q.series)
                              \cup Range(q.rows) \cup Range(q.columns)
    BY <1>1, <1>3, Concatenated DEF Roles
<1>5. /\ Distinct(Roles(q)) \in Seq(Range(Roles(q)))
      /\ Range(Distinct(Roles(q))) = Range(Roles(q))
    BY <1>4, DistinctRange DEF IsList
<1> QED  BY <1>4, <1>5 DEF group_columns, IsList

-----------------------------------------------------------------------------
(* Normalisation keeps the shape of a specification. *)

\* What label joins put into a role.
LEMMA SwappedRefs ==
    ASSUME NEW r, NEW base, LabelJoinFor(r, base) # <<>>
    PROVE  IsRef(LabelJoinFor(r, base)[1].label)
BY DEF LabelJoinFor, IsRef, Ref

\* A label join (normalize.py) leaves a chart a chart.
LEMMA JoinedShape ==
    ASSUME NEW c, IsChart(c)
    PROVE  IsChart(LabelJoins(c))
<1> DEFINE q == c.query
           found == [r \in Range(Roles(q)) |-> LabelJoinFor(r, q.table)]
           swap(r) == IF r \in DOMAIN found /\ found[r] # <<>> THEN found[r][1].label ELSE r
           roles == [n \in {"dimensions", "series", "rows", "columns"} |-> Map(swap, q[n])]
           swapped == Only(group_columns(q), LAMBDA r : found[r] # <<>>)
           edge(j) == {j.on_left, j.on_right}
           joins == [i \in DOMAIN swapped |-> found[swapped[i]][1].join]
           added == Only(joins, LAMBDA j : \A x \in Range(q.joins) : edge(x) # edge(j))
           order == Map(LAMBDA o : [o EXCEPT !.by = swap(o.by)], q.order_by)
           query == [q EXCEPT !.dimensions = roles.dimensions, !.series = roles.series,
                              !.rows = roles.rows, !.columns = roles.columns,
                              !.joins = Distinct(q.joins) \o added, !.order_by = order]
<1>1. LabelJoins(c) = c \/ LabelJoins(c) = [c EXCEPT !.query = query]
    BY DEF LabelJoins, Relabelled, Map
<1>2. CASE LabelJoins(c) = c
    BY <1>2
<1>3. CASE LabelJoins(c) = [c EXCEPT !.query = query]
    <2>1. /\ \A n \in QueryLists : n \in DOMAIN q /\ IsList(q[n])
          /\ \A r \in Range(Roles(q)) : IsRef(r)
        BY DEF IsQuery, IsChart
    <2>2. \A n \in {"dimensions", "series", "rows", "columns"} : IsList(q[n])
        BY <2>1 DEF QueryLists
    <2>3. /\ IsList(roles.dimensions) /\ IsList(roles.series)
          /\ IsList(roles.rows) /\ IsList(roles.columns)
        BY <2>2, Listing DEF Map
    <2>4. IsList(order) /\ \A o \in Range(order) : o = [by |-> o.by, desc |-> o.desc]
        <3>1. IsList(order)
            BY <2>1, Listing DEF Map, QueryLists
        <3>2. ASSUME NEW i \in DOMAIN order PROVE order[i] = [by |-> order[i].by, desc |-> order[i].desc]
            <4>1. q.order_by[i] = [by |-> q.order_by[i].by, desc |-> q.order_by[i].desc]
                BY DEF IsQuery, IsChart, Map, Range
            <4>2. order[i] = [q.order_by[i] EXCEPT !.by = swap(q.order_by[i].by)]
                BY DEF Map
            <4> HIDE DEF swap, order
            <4> QED  BY <4>1, <4>2
        <3> HIDE DEF order
        <3> QED  BY <3>1, <3>2 DEF Range
    <2>5. IsList(joins)
        <3> DEFINE K == {i \in DOMAIN group_columns(q) : found[group_columns(q)[i]] # <<>>}
        <3>1. swapped = At(group_columns(q), K)
            BY DEF Only, At
        <3>2. IsList(group_columns(q))
            BY <2>2, RolesRange
        <3>3. IsList(swapped)
            BY <3>1, <3>2, Kept, SeqOfRange DEF IsList
        <3> HIDE DEF swapped
        <3> QED  BY <3>3, Listing
    <2>6. IsList(added)
        <3> HIDE DEF joins
        <3> DEFINE K == {i \in DOMAIN joins : \A x \in Range(q.joins) : edge(x) # edge(joins[i])}
        <3>1. added = At(joins, K)
            BY DEF Only, At
        <3> QED  BY <2>5, <3>1, Kept, SeqOfRange DEF IsList
    <2>7. IsList(Distinct(q.joins) \o added)
        <3> HIDE DEF added
        <3>1. IsList(q.joins)
            BY <2>1 DEF QueryLists
        <3>2. IsList(Distinct(q.joins))
            BY <3>1, DistinctRange, SeqOfRange DEF IsList
        <3> QED  BY <2>6, <3>2, Concatenated
    <2>8. \A r : IsRef(r) => IsRef(swap(r))
        BY SwappedRefs
    <2> HIDE DEF swap
    <2>9. /\ \A n \in {"dimensions", "series", "rows", "columns"} :
                IsList(query[n]) /\ \A r \in Range(query[n]) : \E x \in Range(q[n]) : r = swap(x)
        <3>1. \A n \in {"dimensions", "series", "rows", "columns"} :
                 \A r \in Range(roles[n]) : \E x \in Range(q[n]) : r = swap(x)
            BY DEF Map, Range
        <3> HIDE DEF roles, order, added
        <3>2. \A n \in {"dimensions", "series", "rows", "columns"} : query[n] = roles[n]
            BY <2>1 DEF QueryLists
        <3> QED  BY <2>3, <3>1, <3>2
    <2> HIDE DEF roles, order, added
    <2>10. \A r \in Range(Roles(query)) : IsRef(r)
        <3>1. Range(Roles(query)) = Range(query.dimensions) \cup Range(query.series)
                                      \cup Range(query.rows) \cup Range(query.columns)
            BY <2>9, RolesRange
        <3>2. Range(Roles(q)) = Range(q.dimensions) \cup Range(q.series)
                                  \cup Range(q.rows) \cup Range(q.columns)
            BY <2>2, RolesRange
        <3> HIDE DEF query
        <3>3. \A n \in {"dimensions", "series", "rows", "columns"} : \A x \in Range(q[n]) : IsRef(x)
            BY <2>1, <3>2
        <3> QED  BY <2>8, <2>9, <3>1, <3>3
    <2>11. /\ query.joins = Distinct(q.joins) \o added
           /\ query.order_by = order
           /\ query.measures = q.measures /\ query.filters = q.filters
           /\ query.raw = q.raw /\ query.limit = q.limit /\ query.time_grain = q.time_grain
           /\ DOMAIN query = DOMAIN q
        BY <2>1 DEF QueryLists
    <2> HIDE DEF query
    <2>12. \A n \in QueryLists : IsList(query[n])
        BY <2>1, <2>4, <2>7, <2>9, <2>11 DEF QueryLists
    <2>13. IsQuery(query)
        BY <2>4, <2>10, <2>11, <2>12 DEF IsQuery, IsChart, WellFormedQuery, IsRaw
    <2> DEFINE joined == [c EXCEPT !.query = query]
    <2>14. /\ DOMAIN joined = DOMAIN c /\ joined.query = query /\ joined.viz = c.viz
           /\ joined.w = c.w /\ joined.h = c.h /\ joined.row = c.row
        BY DEF IsChart
    <2> HIDE DEF joined
    <2>15. LabelJoins(c) = joined
        BY <1>3 DEF joined, query
    <2> QED  BY <2>13, <2>14, <2>15 DEF IsChart
<1> HIDE DEF query
<1> QED  BY <1>1, <1>2, <1>3

\* So does a top-N default (normalize.py).
LEMMA TopNShape ==
    ASSUME NEW c, IsChart(c)
    PROVE  IsChart(TopN(c))
<1> DEFINE q == c.query
           primary == q.measures[1]
           cap == IF c.viz = "pie" THEN PieTopN ELSE DefaultTopN
           order == <<[by |-> Bare(measure_alias(primary)), desc |-> primary.transform # "running_share"]>>
           query == [q EXCEPT !.order_by = order, !.limit = Smaller(q.limit, cap)]
<1>1. CASE TopN(c) = c
    BY <1>1
<1>2. CASE TopN(c) = [c EXCEPT !.query = query]
    <2>1. cap \in Nat \ {0} /\ q.limit \in Nat \ {0}
        BY TopNAssumption DEF IsQuery, IsChart
    <2>2. Smaller(q.limit, cap) \in Nat \ {0}
        BY <2>1 DEF Smaller
    <2>3. IsList(order) /\ \A o \in Range(order) : o = [by |-> o.by, desc |-> o.desc]
        <3> HIDE DEF primary
        <3>1. order \in [1 .. 1 -> Range(order)]
            BY DEF Range
        <3>2. order[1] = [by |-> order[1].by, desc |-> order[1].desc]
            OBVIOUS
        <3>3. IsList(order)
            BY <3>1 DEF IsList
        <3> HIDE DEF order
        <3>4. DOMAIN order = {1}
            <4>1. DOMAIN order = 1 .. 1
                BY <3>1
            <4> QED  BY <4>1
        <3> QED  BY <3>2, <3>3, <3>4 DEF Range
    <2> HIDE DEF order, cap
    <2>4. DOMAIN query = DOMAIN q /\ QueryLists \cup {"limit", "raw", "time_grain"} \subseteq DOMAIN q
        BY DEF IsQuery, IsChart
    <2>5. /\ query.order_by = order /\ query.limit = Smaller(q.limit, cap)
          /\ \A n \in DOMAIN q : n \notin {"order_by", "limit"} => query[n] = q[n]
        BY <2>4 DEF QueryLists
    <2> HIDE DEF query
    <2>6. \A n \in QueryLists : IsList(query[n])
        BY <2>3, <2>4, <2>5 DEF QueryLists, IsQuery, IsChart
    <2>7. /\ query.dimensions = q.dimensions /\ query.series = q.series /\ query.rows = q.rows
          /\ query.columns = q.columns /\ query.measures = q.measures
          /\ query.filters = q.filters /\ query.raw = q.raw /\ query.time_grain = q.time_grain
        BY <2>4, <2>5 DEF QueryLists
    <2>8. Roles(query) = Roles(q) /\ WellFormedQuery(query)
        BY <2>7 DEF Roles, WellFormedQuery, IsRaw, IsQuery, IsChart
    <2>9. IsQuery(query)
        BY <2>2, <2>3, <2>4, <2>5, <2>6, <2>7, <2>8 DEF IsQuery, IsChart
    <2> DEFINE topped == [c EXCEPT !.query = query]
    <2>10. /\ DOMAIN topped = DOMAIN c /\ topped.query = query /\ topped.viz = c.viz
           /\ topped.w = c.w /\ topped.h = c.h /\ topped.row = c.row
        BY DEF IsChart
    <2> HIDE DEF topped
    <2>11. TopN(c) = topped
        BY <1>2 DEF topped, query, order, cap
    <2> QED  BY <2>9, <2>10, <2>11 DEF IsChart
<1>3. TopN(c) = c \/ TopN(c) = [c EXCEPT !.query = query]
    <2>1. TopN(c) = IF ~NeedsTopN(c) THEN c ELSE [c EXCEPT !.query = query]
        BY DEF TopN
    <2> QED  BY <2>1
<1> HIDE DEF query
<1> QED  BY <1>1, <1>2, <1>3

\* A normalised specification is one, its charts are normalised one by one
\* and nothing else of it changes.
LEMMA NormalisedShape ==
    ASSUME NEW s, IsSpec(s)
    PROVE  /\ IsSpec(apply_chart_defaults(apply_label_joins(s)))
           /\ apply_chart_defaults(apply_label_joins(s)).filters = s.filters
           /\ apply_chart_defaults(apply_label_joins(s)).target_bi = s.target_bi
           /\ apply_chart_defaults(apply_label_joins(s)).charts
                 = [i \in DOMAIN s.charts |-> TopN(LabelJoins(s.charts[i]))]
<1> DEFINE charts == [i \in DOMAIN s.charts |-> TopN(LabelJoins(s.charts[i]))]
           n == apply_chart_defaults(apply_label_joins(s))
<1>1. n = [s EXCEPT !.charts = charts]
    BY DEF IsSpec, apply_chart_defaults, apply_label_joins, Map
<1>2. IsList(charts)
    BY Listing DEF IsSpec
<1>3. ASSUME NEW i \in DOMAIN s.charts PROVE IsChart(charts[i])
    <2>1. IsChart(s.charts[i])
        BY DEF IsSpec, Range
    <2> QED  BY <2>1, JoinedShape, TopNShape
<1>4. \A c \in Range(charts) : IsChart(c)
    <2> HIDE DEF charts
    <2>1. DOMAIN charts = DOMAIN s.charts
        BY DEF charts
    <2> QED  BY <1>3, <2>1 DEF Range
<1> QED  BY <1>1, <1>2, <1>4 DEF IsSpec

-----------------------------------------------------------------------------
(* The gate. *)

\* The distinct tables of the charts that share a dataset.
LEMMA SourceTables ==
    ASSUME NEW s, IsSpec(s)
    PROVE  /\ IsList(source_tables(s))
           /\ \A c \in Range(s.charts) :
                 IsSource(c.query) => c.query.table \in Range(source_tables(s))
           /\ \A t \in Range(source_tables(s)) :
                 \E c \in Range(s.charts) : IsSource(c.query) /\ c.query.table = t
<1> DEFINE seq == s.charts
           K == {i \in DOMAIN seq : IsSource(seq[i].query)}
           picked == At(seq, K)
           tables == [i \in DOMAIN picked |-> picked[i].query.table]
<1>1. seq \in Seq(Range(seq))
    BY DEF IsSpec, IsList
<1>2. picked = Only(seq, LAMBDA c : IsSource(c.query))
    BY DEF At, Only
<1>3. source_tables(s) = Distinct(tables)
    BY <1>2 DEF source_tables, Map
<1>4. /\ picked \in Seq(Range(seq))
      /\ \A x : x \in Range(picked) <=> \E i \in DOMAIN seq : i \in K /\ x = seq[i]
    BY <1>1, Kept
<1> HIDE DEF picked
<1>5. Len(picked) \in Nat /\ DOMAIN tables = 1 .. Len(picked)
    BY <1>4, LenProperties
<1>6. tables \in [1 .. Len(picked) -> Range(tables)]
    BY <1>5 DEF Range
<1>7. tables \in Seq(Range(tables))
    BY <1>5, <1>6
<1>8. Distinct(tables) \in Seq(Range(tables)) /\ Range(Distinct(tables)) = Range(tables)
    BY <1>7, DistinctRange
<1>9. ASSUME NEW c \in Range(seq), IsSource(c.query) PROVE c.query.table \in Range(tables)
    <2>1. PICK i \in DOMAIN seq : c = seq[i]
        BY DEF Range
    <2>2. c \in Range(picked)
        BY <1>4, <1>9, <2>1
    <2>3. PICK j \in DOMAIN picked : picked[j] = c
        BY <2>2 DEF Range
    <2> QED  BY <2>3 DEF Range
<1>10. ASSUME NEW t \in Range(tables) PROVE \E c \in Range(seq) : IsSource(c.query) /\ c.query.table = t
    <2>1. PICK j \in DOMAIN picked : t = picked[j].query.table
        BY DEF Range
    <2>2. picked[j] \in Range(picked)
        BY DEF Range
    <2>3. PICK i \in DOMAIN seq : i \in K /\ picked[j] = seq[i]
        BY <1>4, <2>2
    <2> QED  BY <2>1, <2>3 DEF Range
<1> QED  BY <1>3, <1>8, <1>9, <1>10 DEF IsList

\* Every dataset has its statement: the source dataset of its mart, or its own.
StepOf(s, c) ==
    IF s.target_bi = "superset" /\ IsSource(c.query)
    THEN <<"source", c.query.table>> ELSE <<"chart", c.id>>

\* The gate is given the statement of every chart's dataset (pipeline.py).
LEMMA StatementsCover ==
    ASSUME NEW s, IsSpec(s)
    PROVE  /\ IsList(Statements(s))
           /\ \A c \in Range(s.charts) : StepOf(s, c) \in Range(Statements(s))
           /\ \A step \in Range(Statements(s)) :
                 \/ \E c \in Range(s.charts) : step = <<"chart", c.id>>
                 \/ \E t \in Range(source_tables(s)) : step = <<"source", t>>
<1> DEFINE seq == s.charts
           K == {i \in DOMAIN seq : ~IsSource(seq[i].query)}
           own == At(seq, K)
           source == [i \in DOMAIN source_tables(s) |-> <<"source", source_tables(s)[i]>>]
           ids(charts) == [i \in DOMAIN charts |-> <<"chart", charts[i].id>>]
<1>1. IsList(seq)
    BY DEF IsSpec
<1>2. ASSUME NEW charts, IsList(charts)
      PROVE  /\ IsList(ids(charts))
             /\ \A c \in Range(charts) : <<"chart", c.id>> \in Range(ids(charts))
             /\ \A step \in Range(ids(charts)) : \E c \in Range(charts) : step = <<"chart", c.id>>
    <2>1. Len(charts) \in Nat /\ DOMAIN charts = 1 .. Len(charts)
        BY <1>2, LenProperties DEF IsList
    <2>2. ids(charts) \in [1 .. Len(charts) -> Range(ids(charts))]
        BY <2>1 DEF Range
    <2>3. IsList(ids(charts))
        BY <2>1, <2>2 DEF IsList
    <2> QED  BY <2>3 DEF Range
<1>3. CASE s.target_bi # "superset"
    <2>1. Statements(s) = ids(seq)
        BY <1>3 DEF Statements, Map
    <2> QED  BY <1>1, <1>2, <1>3, <2>1 DEF StepOf
<1>4. CASE s.target_bi = "superset"
    <2>1. own = Only(seq, LAMBDA c : ~IsSource(c.query))
        BY DEF At, Only
    <2>2. /\ own \in Seq(Range(seq))
          /\ \A x : x \in Range(own) <=> \E i \in DOMAIN seq : i \in K /\ x = seq[i]
        BY <1>1, Kept DEF IsList
    <2>3. Statements(s) = source \o ids(own)
        BY <1>4, <2>1 DEF Statements, Map
    <2> HIDE DEF own
    <2>4. IsList(own)
        BY <2>2, SeqOfRange DEF IsList
    <2>5. /\ IsList(ids(own))
          /\ \A c \in Range(own) : <<"chart", c.id>> \in Range(ids(own))
          /\ \A step \in Range(ids(own)) : \E c \in Range(own) : step = <<"chart", c.id>>
        BY <1>2, <2>4
    <2>6. Len(source_tables(s)) \in Nat /\ DOMAIN source = 1 .. Len(source_tables(s))
        BY SourceTables, LenProperties DEF IsList
    <2>7. source \in [1 .. Len(source_tables(s)) -> Range(source)]
        BY <2>6 DEF Range
    <2>8. source \in Seq(Range(source))
        BY <2>6, <2>7
    <2>9. /\ \A t \in Range(source_tables(s)) : <<"source", t>> \in Range(source)
          /\ \A step \in Range(source) : \E t \in Range(source_tables(s)) : step = <<"source", t>>
        BY DEF Range
    <2> HIDE DEF source, ids
    <2>10. ids(own) \in Seq(Range(ids(own)))
        BY <2>5 DEF IsList
    <2> DEFINE X == Range(source) \cup Range(ids(own))
    <2>11. source \in Seq(X) /\ ids(own) \in Seq(X)
        BY <2>8, <2>10, SeqMonotonic
    <2>12. Statements(s) \in Seq(X) /\ Range(Statements(s)) = Range(source) \cup Range(ids(own))
        BY <2>3, <2>11, ConcatProperties, RangeConcatenation
    <2>13. IsList(Statements(s))
        BY <2>12, SeqOfRange DEF IsList
    <2>14. ASSUME NEW c \in Range(seq) PROVE StepOf(s, c) \in Range(Statements(s))
        <3>1. CASE IsSource(c.query)
            BY <1>4, <2>9, <2>12, <3>1, SourceTables DEF StepOf
        <3>2. CASE ~IsSource(c.query)
            <4>1. PICK i \in DOMAIN seq : c = seq[i]
                BY DEF Range
            <4>2. c \in Range(own)
                BY <2>2, <3>2, <4>1
            <4> QED  BY <2>5, <2>12, <3>2, <4>2 DEF StepOf
        <3> QED  BY <3>1, <3>2
    <2>15. Range(own) \subseteq Range(seq)
        BY <2>2 DEF Range
    <2> QED  BY <2>5, <2>9, <2>12, <2>13, <2>14, <2>15
<1> QED  BY <1>3, <1>4

\* What is known of a build from the gate on.
Passing(s, steps, passed) ==
    /\ Valid(s, TRUE)
    /\ IsList(steps)
    /\ \A step \in Range(Statements(s)) :
          step \in Range(steps) \/ StatementOf(step, s) \in passed

GateInv ==
    /\ IsSpec(spec)
    /\ phase \in {"gating", "built"} => Passing(spec, todo, gated)
    /\ phase = "built" =>
          /\ todo = <<>>
          /\ \E large \in BOOLEAN : built = <<Compiled(spec, trials, large)>>

\* A proposal has not been gated.
LEMMA GateInit == Init => GateInv
BY ProposalsAssumption DEF Init, GateInv, IsSpec

\* A step keeps what is known: normalisation, gate and build are the steps
\* that have something to keep.
LEMMA GateNext ==
    ASSUME GateInv, [Next]_vars
    PROVE  GateInv'
<1>1. CASE UNCHANGED vars
    BY <1>1 DEF vars, GateInv
<1>2. CASE Validate \/ Operator \/ ShowPreview \/ OneShot
    BY <1>2 DEF Validate, Operator, ShowPreview, OneShot, Fail, GateInv
<1>3. CASE Normalise
    <2> DEFINE normalized == apply_chart_defaults(apply_label_joins(spec))
    <2>1. CASE Valid(normalized, TRUE)
        <3>1. /\ spec' = normalized /\ phase' = "gating" /\ todo' = Statements(normalized)
              /\ gated' = gated
            BY <1>3, <2>1 DEF Normalise
        <3>2. IsSpec(normalized)
            BY NormalisedShape DEF GateInv
        <3>3. IsList(Statements(normalized))
            BY <3>2, StatementsCover
        <3> HIDE DEF normalized
        <3> QED  BY <2>1, <3>1, <3>2, <3>3 DEF GateInv, Passing
    <2>2. CASE ~Valid(normalized, TRUE)
        BY <1>3, <2>2 DEF Normalise, Fail, GateInv
    <2> QED  BY <2>1, <2>2
<1>4. CASE Gate
    <2>1. CASE Fail("failed")
        BY <2>1 DEF Fail, GateInv
    <2>2. CASE ~Fail("failed")
        <3>1. /\ phase = "gating" /\ todo # <<>>
              /\ gated' = gated \cup {StatementOf(Head(todo), spec)}
              /\ todo' = Tail(todo)
              /\ spec' = spec /\ phase' = phase
            BY <1>4, <2>2 DEF Gate
        <3>2. todo \in Seq(Range(todo))
            BY <3>1 DEF GateInv, Passing, IsList
        <3>3. /\ IsList(Tail(todo))
              /\ \A step \in Range(todo) : step = Head(todo) \/ step \in Range(Tail(todo))
            <4>1. /\ Tail(todo) \in Seq(Range(todo)) /\ Len(Tail(todo)) = Len(todo) - 1
                  /\ \A i \in 1 .. Len(Tail(todo)) : Tail(todo)[i] = todo[i + 1]
                BY <3>1, <3>2, HeadTailProperties
            <4>2. IsList(Tail(todo))
                BY <4>1, SeqOfRange DEF IsList
            <4>3. ASSUME NEW step \in Range(todo) PROVE step = Head(todo) \/ step \in Range(Tail(todo))
                <5>1. PICK i \in DOMAIN todo : todo[i] = step
                    BY DEF Range
                <5>2. Len(todo) \in Nat /\ i \in 1 .. Len(todo)
                    BY <3>2, LenProperties
                <5>3. CASE i = 1
                    BY <5>1, <5>3, <3>2
                <5>4. CASE i # 1
                    <6>1. i - 1 \in 1 .. Len(Tail(todo)) /\ i = (i - 1) + 1
                        BY <4>1, <5>2, <5>4
                    <6>2. Tail(todo)[i - 1] = step
                        BY <4>1, <5>1, <6>1
                    <6>3. i - 1 \in DOMAIN Tail(todo)
                        BY <4>1, <6>1, LenProperties
                    <6> QED  BY <6>2, <6>3 DEF Range
                <5> QED  BY <5>3, <5>4
            <4> QED  BY <4>2, <4>3
        <3> QED  BY <3>1, <3>3 DEF GateInv, Passing
    <2> QED  BY <2>1, <2>2
<1>5. CASE Build
    BY <1>5 DEF Build, GateInv
<1> QED  BY <1>1, <1>2, <1>3, <1>4, <1>5 DEF Next, Done

\* What the gate and the adapters share of a specification they work on.
THEOREM Gated == Spec => []GateInv
BY GateInit, GateNext, PTL DEF Spec

\* The ids of a valid specification are its charts' own.
LEMMA ChartIs ==
    ASSUME NEW s, IsList(s.charts), Valid(s, TRUE), NEW c \in Range(s.charts)
    PROVE  ChartOf(s, c.id) = c
<1>1. IsInjective([i \in DOMAIN s.charts |-> s.charts[i].id])
    BY DEF Valid, Map
<1>2. \A d \in Range(s.charts) : d.id = c.id => d = c
    BY <1>1 DEF IsInjective, Range
<1> QED  BY <1>2 DEF ChartOf

\* The dataset of a chart was gated as its own statement or as its source.
LEMMA BuildIsGated == GateInv => BuiltWasGated
<1> SUFFICES ASSUME GateInv, IsBuilt, NEW id \in Ids
             PROVE  \E sql \in gated :
                       \/ Unlimited(sql) = Unlimited(Dataset(id))
                       \/ Dataset(id).sub # <<>> /\ Unlimited(sql) = Unlimited(Dataset(id).sub[1].stmt)
    BY DEF BuiltWasGated
<1>1. /\ Passing(spec, <<>>, gated)
      /\ IsSpec(spec)
    BY DEF GateInv, IsBuilt
<1>2. PICK large \in BOOLEAN : built = <<Compiled(spec, trials, large)>>
    BY DEF GateInv, IsBuilt
<1>3. PICK c \in Range(spec.charts) : c.id = id
    BY DEF Ids
<1>4. ChartOf(spec, id) = c
    BY <1>1, <1>3, ChartIs DEF Passing, IsSpec
<1>5. StatementOf(StepOf(spec, c), spec) \in gated
    BY <1>1, StatementsCover DEF Passing, Range
<1>6. CASE spec.target_bi = "superset"
    <2>1. Dataset(id) = DatasetOf(spec, c)
        BY <1>2, <1>3, <1>4, <1>6 DEF Dataset, TheBuild, Compiled, SupersetBuild
    <2>2. CASE IsSource(c.query)
        <3>1. StatementOf(StepOf(spec, c), spec) = DatasetOf(spec, c)
            BY <1>6, <2>2 DEF StepOf, StatementOf, DatasetOf
        <3> QED  BY <1>5, <2>1, <3>1
    <2>3. CASE ~IsSource(c.query)
        <3>1. StatementOf(StepOf(spec, c), spec) = ChartSql(c.query, TRUE)
            BY <1>3, <1>4, <2>3 DEF StepOf, StatementOf
        <3>2. Dataset(id) = ChartSql(c.query, c.id \notin participating_chart_ids(spec))
            BY <2>1, <2>3 DEF DatasetOf
        <3> QED  BY <1>5, <3>1, <3>2, LimitOnly
    <2> QED  BY <2>2, <2>3
<1>7. CASE spec.target_bi # "superset"
    <2> DEFINE sql == ChartSql(c.query, c.id \notin selector_scope_chart_ids(spec))
    <2>1. Dataset(id) = IF Scaled(c, large) THEN ScaleMeasures(sql, c.query) ELSE sql
        BY <1>2, <1>3, <1>4, <1>7 DEF Dataset, TheBuild, Compiled, DataLensBuild
    <2>2. StatementOf(StepOf(spec, c), spec) = ChartSql(c.query, TRUE)
        BY <1>3, <1>4, <1>7 DEF StepOf, StatementOf
    <2>3. Unlimited(sql) = Unlimited(ChartSql(c.query, TRUE))
        BY LimitOnly
    <2> HIDE DEF sql
    <2>4. ScaleMeasures(sql, c.query).sub # <<>> /\ ScaleMeasures(sql, c.query).sub[1].stmt = sql
        BY DEF ScaleMeasures, From
    <2> QED  BY <1>5, <2>1, <2>2, <2>3, <2>4
<1> QED  BY <1>6, <1>7

\* Every dataset an adapter makes is a statement of this build that passed the
\* gate, but for its LIMIT and the scaling around it (pipeline.py, "invariant
\* 3"), for any specification and any semantic model.
THEOREM BuiltGated == Spec => []BuiltWasGated
BY Gated, BuildIsGated, PTL

-----------------------------------------------------------------------------
(* The LIMIT of a dataset and the controls that move its chart. *)

\* The one place a statement of a chart differs when its LIMIT is dropped.
LEMMA LimitOf ==
    ASSUME NEW q, NEW b \in BOOLEAN
    PROVE  /\ ChartSql(q, b).limit = IF b THEN ChartSql(q, TRUE).limit ELSE 0
           /\ ChartSql(q, b).sub # <<>> => ChartSql(q, b).sub[1].as # <<"auto_bi_scaled">>
<1>1. ASSUME NEW s, NEW flat \in BOOLEAN, NEW limited \in BOOLEAN,
             "limit" \in DOMAIN s, "sub" \in DOMAIN s
      PROVE  /\ OrderAndLimit(s, q, flat, limited).limit = IF limited THEN q.limit ELSE 0
             /\ OrderAndLimit(s, q, flat, limited).sub = s.sub
    BY <1>1 DEF OrderAndLimit
<1>2. ASSUME NEW ms
      PROVE  /\ {"limit", "sub"} \subseteq DOMAIN GroupedSelect(q, ms)
             /\ GroupedSelect(q, ms).sub = <<>>
    BY DEF GroupedSelect, From
<1>3. ASSUME NEW limited \in BOOLEAN
      PROVE  /\ FlatSql(q, limited).limit = IF limited THEN q.limit ELSE 0
             /\ FlatSql(q, limited).sub = <<>>
    <2> DEFINE s == GroupedSelect(q, Map(LAMBDA m : Item(measure_alias(m), MeasureExpr(q, m)), q.measures))
    <2>1. FlatSql(q, limited) = OrderAndLimit(s, q, TRUE, limited)
        BY DEF FlatSql
    <2>2. "limit" \in DOMAIN s /\ "sub" \in DOMAIN s /\ s.sub = <<>>
        BY <1>2
    <2> HIDE DEF s
    <2>3. /\ OrderAndLimit(s, q, TRUE, limited).limit = IF limited THEN q.limit ELSE 0
          /\ OrderAndLimit(s, q, TRUE, limited).sub = s.sub
        BY <2>2 DEF OrderAndLimit
    <2> QED  BY <2>1, <2>2, <2>3
<1>4. ASSUME NEW limited \in BOOLEAN
      PROVE  /\ WindowedSql(q, limited).limit = IF limited THEN q.limit ELSE 0
             /\ WindowedSql(q, limited).sub[1].as = <<"t">>
    <2>1. /\ {"limit", "sub"} \subseteq DOMAIN WindowedSelect(q)
          /\ WindowedSelect(q).sub[1].as = <<"t">>
        BY DEF WindowedSelect, From
    <2> QED  BY <1>1, <2>1 DEF WindowedSql
<1>5. ASSUME NEW limited \in BOOLEAN
      PROVE  /\ HistogramSql(q, limited).limit = IF limited THEN q.limit ELSE 0
             /\ HistogramSql(q, limited).sub[1].as = <<"b">>
    BY DEF HistogramSql, From
<1>6. CompareSql(q).limit = 0 /\ CompareSql(q).sub[1].as = <<"b">>
    BY DEF CompareSql, From
<1>7. RawSql(q).limit = 0 /\ RawSql(q).sub = <<>>
    BY DEF RawSql, From
<1>8. <<"t">> # <<"auto_bi_scaled">> /\ <<"b">> # <<"auto_bi_scaled">>
    OBVIOUS
<1>9. ASSUME NEW limited \in BOOLEAN
      PROVE  /\ ChartSql(q, limited).limit
                   = IF IsRaw(q) THEN 0 ELSE IF q.bins THEN (IF limited THEN q.limit ELSE 0)
                     ELSE IF \E m \in Range(q.measures) : m.compare # <<>> THEN 0
                     ELSE IF limited THEN q.limit ELSE 0
             /\ ChartSql(q, limited).sub # <<>> => ChartSql(q, limited).sub[1].as # <<"auto_bi_scaled">>
    <2> USE <1>3, <1>4, <1>5, <1>6, <1>7, <1>8
    <2>1. CASE IsRaw(q)
        BY <2>1 DEF ChartSql
    <2>2. CASE ~IsRaw(q) /\ q.bins
        BY <2>2 DEF ChartSql
    <2>3. CASE ~IsRaw(q) /\ ~q.bins
        BY <2>3 DEF ChartSql
    <2> QED  BY <2>1, <2>2, <2>3
<1> QED  BY <1>9

\* The controls of Superset are the filters that reach some chart.
LEMMA SupersetControls ==
    ASSUME NEW s, IsSpec(s)
    PROVE  Range(native_filter_configuration(s))
              = {NativeFilter(s, f) : f \in {x \in Range(s.filters) : ScopeOf(x, s) # {}}}
<1> DEFINE seq == s.filters
           K == {i \in DOMAIN seq : ScopeOf(seq[i], s) # {}}
           kept == At(seq, K)
<1>1. kept = Only(seq, LAMBDA f : ScopeOf(f, s) # {})
    BY DEF At, Only
<1>2. native_filter_configuration(s) = [i \in DOMAIN kept |-> NativeFilter(s, kept[i])]
    BY <1>1 DEF native_filter_configuration, Map
<1>a. seq \in Seq(Range(seq))
    BY DEF IsSpec, IsList
<1> HIDE DEF K
<1>3. \A x : x \in Range(kept) <=> \E i \in DOMAIN seq : i \in K /\ x = seq[i]
    BY <1>a, Kept
<1> HIDE DEF kept
<1>4. \A x : x \in Range(kept) <=> x \in Range(seq) /\ ScopeOf(x, s) # {}
    BY <1>3 DEF Range, K
<1>5. \A x : x \in Range(native_filter_configuration(s)) <=> \E f \in Range(kept) : x = NativeFilter(s, f)
    BY <1>2 DEF Range
<1> QED  BY <1>4, <1>5

\* The selectors of DataLens are the filters whose column some chart has a
\* field of.
LEMMA DataLensControls ==
    ASSUME NEW s, IsSpec(s)
    PROVE  /\ Range(build_selectors(s))
                 = {Selector(s, f) : f \in {x \in Range(s.filters) : Reached(s, x) # <<>>}}
           /\ \A f : /\ Reached(s, f) \in Seq(Range(s.charts))
                     /\ Range(Reached(s, f)) = {c \in Range(s.charts) :
                           /\ Contains(GroupAliases(c.query), column_alias(f.column))
                           /\ Contains(FieldAliases(c.query), column_alias(f.column))}
<1> DEFINE seq == s.filters
           K == {i \in DOMAIN seq : Reached(s, seq[i]) # <<>>}
           kept == At(seq, K)
<1>1. kept = Only(seq, LAMBDA f : Reached(s, f) # <<>>)
    BY DEF At, Only
<1>2. build_selectors(s) = [i \in DOMAIN kept |-> Selector(s, kept[i])]
    BY <1>1 DEF build_selectors, Map
<1>a. seq \in Seq(Range(seq))
    BY DEF IsSpec, IsList
<1> HIDE DEF K
<1>3. \A x : x \in Range(kept) <=> \E i \in DOMAIN seq : i \in K /\ x = seq[i]
    BY <1>a, Kept
<1> HIDE DEF kept
<1>4. \A x : x \in Range(kept) <=> x \in Range(seq) /\ Reached(s, x) # <<>>
    BY <1>3 DEF Range, K
<1>5. \A x : x \in Range(build_selectors(s)) <=> \E f \in Range(kept) : x = Selector(s, f)
    BY <1>2 DEF Range
<1>6. ASSUME NEW f
      PROVE  /\ Reached(s, f) \in Seq(Range(s.charts))
             /\ Range(Reached(s, f)) = {c \in Range(s.charts) :
                           /\ Contains(GroupAliases(c.query), column_alias(f.column))
                           /\ Contains(FieldAliases(c.query), column_alias(f.column))}
    <2> DEFINE takes(c) == /\ Contains(GroupAliases(c.query), column_alias(f.column))
                           /\ Contains(FieldAliases(c.query), column_alias(f.column))
               J == {i \in DOMAIN s.charts : takes(s.charts[i])}
    <2>1. Reached(s, f) = At(s.charts, J)
        BY DEF Reached, At, Only
    <2> HIDE DEF takes
    <2>2. /\ At(s.charts, J) \in Seq(Range(s.charts))
          /\ \A x : x \in Range(At(s.charts, J)) <=> \E i \in DOMAIN s.charts : i \in J /\ x = s.charts[i]
        BY Kept DEF IsSpec, IsList
    <2>3. \A x : x \in Range(At(s.charts, J)) <=> x \in Range(s.charts) /\ takes(x)
        BY <2>2 DEF Range
    <2>4. Range(Reached(s, f)) = {c \in Range(s.charts) : takes(c)}
        BY <2>1, <2>3
    <2> QED  BY <2>1, <2>2, <2>4 DEF takes
<1> QED  BY <1>4, <1>5, <1>6

\* Membership in a list is membership in its range.
LEMMA ContainsRange ==
    ASSUME NEW seq, IsList(seq), NEW x
    PROVE  Contains(seq, x) <=> x \in Range(seq)
<1>1. DOMAIN seq = 1 .. Len(seq)
    BY LenProperties DEF IsList
<1> QED  BY <1>1 DEF Contains, Range

\* The fields of a DataLens dataset are what the query groups by and what it
\* measures.
LEMMA FieldsRange ==
    ASSUME NEW q, IsQuery(q)
    PROVE  /\ Range(FieldAliases(q)) = Range(GroupAliases(q)) \cup Range(MeasureAliases(q))
           /\ IsList(FieldAliases(q)) /\ IsList(GroupAliases(q)) /\ IsList(MeasureAliases(q))
           /\ Len(MeasureAliases(q)) = Len(q.measures)
           /\ Range(GroupAliases(q)) = {r.col : r \in Range(Roles(q))}
           /\ Range(MeasureAliases(q)) = {measure_alias(m) : m \in Range(q.measures)}
<1> DEFINE g == group_columns(q)
           dims == [i \in DOMAIN g |-> [alias |-> column_alias(g[i]), kind |-> "DIMENSION",
                                       type |-> ColumnType(g[i], q.table)]]
           ms == [i \in DOMAIN q.measures |-> [alias |-> measure_alias(q.measures[i]), kind |-> "MEASURE",
                                              type |-> MeasureType(q.measures[i], q.table)]]
           both == dims \o ms
<1>1. IsList(g) /\ IsList(q.measures) /\ Range(g) = Range(Roles(q))
    BY RolesRange DEF IsQuery, QueryLists
<1>2. IsList(dims) /\ IsList(ms)
    BY <1>1, Listing
<1>3. /\ IsList(GroupAliases(q)) /\ IsList(MeasureAliases(q))
      /\ Len(MeasureAliases(q)) = Len(q.measures)
    BY <1>1, Listing DEF GroupAliases, MeasureAliases, Map
<1>4. Range(GroupAliases(q)) = {r.col : r \in Range(Roles(q))}
    BY <1>1 DEF GroupAliases, Map, Range, column_alias
<1>5. Range(MeasureAliases(q)) = {measure_alias(m) : m \in Range(q.measures)}
    BY DEF MeasureAliases, Map, Range
<1>6. {f.alias : f \in Range(dims)} = Range(GroupAliases(q))
    <2>1. DOMAIN dims = DOMAIN GroupAliases(q) /\ \A i \in DOMAIN dims : dims[i].alias = GroupAliases(q)[i]
        BY DEF GroupAliases, Map
    <2> HIDE DEF dims
    <2> QED  BY <2>1 DEF Range
<1>7. {f.alias : f \in Range(ms)} = Range(MeasureAliases(q))
    <2>1. DOMAIN ms = DOMAIN MeasureAliases(q) /\ \A i \in DOMAIN ms : ms[i].alias = MeasureAliases(q)[i]
        BY DEF MeasureAliases, Map
    <2> HIDE DEF ms
    <2> QED  BY <2>1 DEF Range
<1>8. Fields(q) = both
    BY DEF Fields, Map
<1> HIDE DEF dims, ms, g
<1>9. IsList(both) /\ Range(both) = Range(dims) \cup Range(ms)
    BY <1>2, Concatenated
<1> HIDE DEF both
<1>10. FieldAliases(q) = [i \in DOMAIN both |-> both[i].alias]
    BY <1>8 DEF FieldAliases, Map
<1>11. IsList(FieldAliases(q))
    BY <1>9, <1>10, Listing
<1>12. Range(FieldAliases(q)) = {f.alias : f \in Range(both)}
    BY <1>10 DEF Range
<1>13. Range(FieldAliases(q)) = {f.alias : f \in Range(dims)} \cup {f.alias : f \in Range(ms)}
    BY <1>9, <1>12
<1> QED  BY <1>3, <1>4, <1>5, <1>6, <1>7, <1>11, <1>13

\* A build cuts a dataset exactly when none of its controls moves the chart.
LEMMA BuildLimits == GateInv => LimitMatchesWiring
<1> SUFFICES ASSUME GateInv, IsBuilt, NEW c \in Range(spec.charts),
                    ~OnSuperset \/ ~IsSource(c.query), ChartSql(c.query, TRUE).limit # 0
             PROVE  LET stmt == IF Dataset(c.id).items # <<>> /\ Dataset(c.id).sub # <<>>
                                    /\ Dataset(c.id).sub[1].as = <<"auto_bi_scaled">>
                                THEN Dataset(c.id).sub[1].stmt ELSE Dataset(c.id)
                    IN  stmt.limit = 0 <=> \E k \in Range(TheBuild.controls) : c.id \in k.scope
    BY DEF LimitMatchesWiring
<1> DEFINE stmt == IF Dataset(c.id).items # <<>> /\ Dataset(c.id).sub # <<>>
                        /\ Dataset(c.id).sub[1].as = <<"auto_bi_scaled">>
                   THEN Dataset(c.id).sub[1].stmt ELSE Dataset(c.id)
           moved == \E k \in Range(TheBuild.controls) : c.id \in k.scope
<1>1. IsSpec(spec) /\ Valid(spec, TRUE)
    BY DEF GateInv, IsBuilt, Passing
<1>2. PICK large \in BOOLEAN : built = <<Compiled(spec, trials, large)>>
    BY DEF GateInv, IsBuilt
<1>3. \A d \in Range(spec.charts) : ChartOf(spec, d.id) = d
    BY <1>1, ChartIs DEF IsSpec, IsChart
<1>4. \A b \in BOOLEAN :
         /\ ChartSql(c.query, b).limit = 0 <=> ~b
         /\ ChartSql(c.query, b).sub # <<>> => ChartSql(c.query, b).sub[1].as # <<"auto_bi_scaled">>
    BY LimitOf
<1>5. CASE OnSuperset
    <2> DEFINE b == c.id \notin participating_chart_ids(spec)
    <2>1. Dataset(c.id) = ChartSql(c.query, b)
        BY <1>2, <1>3, <1>5 DEF OnSuperset, Dataset, TheBuild, Compiled, SupersetBuild, DatasetOf
    <2>2. TheBuild.controls = native_filter_configuration(spec)
        BY <1>2, <1>5 DEF OnSuperset, TheBuild, Compiled, SupersetBuild
    <2>3. moved <=> ~b
        <3>1. \A f : NativeFilter(spec, f).scope = ScopeOf(f, spec)
            BY DEF NativeFilter
        <3>2. \A f : c.id \in ScopeOf(f, spec) => ScopeOf(f, spec) # {}
            OBVIOUS
        <3> QED  BY <1>1, <2>2, <3>1, <3>2, SupersetControls DEF participating_chart_ids
    <2>4. stmt = Dataset(c.id)
        BY <1>4, <2>1
    <2> HIDE DEF b, stmt, moved
    <2>5. b \in BOOLEAN
        BY DEF b
    <2>6. stmt.limit = 0 <=> moved
        BY <1>4, <2>1, <2>3, <2>4, <2>5
    <2> QED  BY <2>6 DEF stmt, moved
<1>6. CASE ~OnSuperset
    <2> DEFINE b == c.id \notin selector_scope_chart_ids(spec)
               sql == ChartSql(c.query, b)
    <2>1. Dataset(c.id) = IF Scaled(c, large) THEN ScaleMeasures(sql, c.query) ELSE sql
        BY <1>2, <1>3, <1>6 DEF OnSuperset, Dataset, TheBuild, Compiled, DataLensBuild
    <2>2. TheBuild.controls = build_selectors(spec)
        BY <1>2, <1>6 DEF OnSuperset, TheBuild, Compiled, DataLensBuild
    <2>3. IsQuery(c.query) /\ ~IsRaw(c.query)
        BY <1>1, <1>6 DEF IsSpec, IsChart, Valid, ChartOk, RawChartOk, OnSuperset
    <2>4. moved <=> ~b
        <3>1. \A f : Selector(spec, f).scope = {d.id : d \in Range(Reached(spec, f))}
            BY DEF Selector
        <3>2. moved <=> \E f \in Range(spec.filters) :
                 Reached(spec, f) # <<>> /\ c.id \in {d.id : d \in Range(Reached(spec, f))}
            <4>1. Range(TheBuild.controls)
                     = {Selector(spec, f) : f \in {x \in Range(spec.filters) : Reached(spec, x) # <<>>}}
                BY <1>1, <2>2, DataLensControls
            <4>2. moved <=> \E f \in {x \in Range(spec.filters) : Reached(spec, x) # <<>>} :
                               c.id \in Selector(spec, f).scope
                BY <4>1
            <4> QED  BY <3>1, <4>2
        <3>3. \A f : c.id \in {d.id : d \in Range(Reached(spec, f))} <=> c \in Range(Reached(spec, f))
            <4> TAKE f
            <4>1. \A d \in Range(Reached(spec, f)) : d \in Range(spec.charts)
                BY <1>1, DataLensControls
            <4>2. \A d \in Range(spec.charts) : d.id = c.id => d = c
                BY <1>3
            <4> QED  BY <4>1, <4>2
        <3>4. \A f : c \in Range(Reached(spec, f)) => Reached(spec, f) # <<>>
            BY DEF Range
        <3>5. \A f : c \in Range(Reached(spec, f))
                      <=> Contains(GroupAliases(c.query), column_alias(f.column))
            <4>1. \A a : Contains(GroupAliases(c.query), a) => Contains(FieldAliases(c.query), a)
                BY <2>3, FieldsRange, ContainsRange
            <4> QED  BY <1>1, <4>1, DataLensControls
        <3>6. c.id \in selector_scope_chart_ids(spec)
                 <=> \E f \in Range(spec.filters) : Contains(GroupAliases(c.query), column_alias(f.column))
            BY <1>3 DEF selector_scope_chart_ids
        <3> HIDE DEF moved
        <3> QED  BY <3>2, <3>3, <3>4, <3>5, <3>6
    <2>5. b \in BOOLEAN
        OBVIOUS
    <2> HIDE DEF moved, b
    <2>6. /\ sql.limit = 0 <=> ~b
          /\ sql.sub # <<>> => sql.sub[1].as # <<"auto_bi_scaled">>
        BY <1>4, <2>5
    <2> HIDE DEF sql
    <2>7. stmt = sql
        <3>1. CASE ~Scaled(c, large)
            BY <2>1, <2>6, <3>1
        <3>2. CASE Scaled(c, large)
            <4> DEFINE w == ScaleMeasures(sql, c.query)
            <4>1. /\ w.sub # <<>> /\ w.sub[1].as = <<"auto_bi_scaled">> /\ w.sub[1].stmt = sql
                  /\ DOMAIN w.items = DOMAIN (GroupAliases(c.query) \o MeasureAliases(c.query))
                BY DEF ScaleMeasures, From, Map
            <4>2. /\ IsList(GroupAliases(c.query)) /\ IsList(MeasureAliases(c.query))
                  /\ Len(MeasureAliases(c.query)) = Len(c.query.measures)
                <5>1. IsList(group_columns(c.query)) /\ IsList(c.query.measures)
                    BY <2>3, RolesRange DEF IsQuery, QueryLists
                <5> QED  BY <5>1, Listing DEF GroupAliases, MeasureAliases, Map
            <4>3. c.query.measures # <<>> /\ c.query.measures \in Seq(Range(c.query.measures))
                BY <2>3 DEF IsQuery, WellFormedQuery, QueryLists, IsList
            <4>4. Len(c.query.measures) # 0
                BY <4>3, EmptySeq
            <4> DEFINE X == Range(GroupAliases(c.query)) \cup Range(MeasureAliases(c.query))
            <4>5. GroupAliases(c.query) \in Seq(X) /\ MeasureAliases(c.query) \in Seq(X)
                BY <4>2, SeqMonotonic DEF IsList
            <4>6. /\ GroupAliases(c.query) \o MeasureAliases(c.query) \in Seq(X)
                  /\ Len(GroupAliases(c.query) \o MeasureAliases(c.query))
                        = Len(GroupAliases(c.query)) + Len(MeasureAliases(c.query))
                BY <4>5, ConcatProperties
            <4>7. Len(GroupAliases(c.query)) \in Nat /\ Len(MeasureAliases(c.query)) \in Nat
                BY <4>5, LenProperties
            <4> DEFINE both == GroupAliases(c.query) \o MeasureAliases(c.query)
            <4>8. DOMAIN both # {}
                <5>1. both \in Seq(X) /\ Len(both) = Len(GroupAliases(c.query)) + Len(c.query.measures)
                    BY <4>2, <4>6
                <5> HIDE DEF both, X
                <5>2. Len(c.query.measures) \in Nat
                    BY <4>3, LenProperties
                <5>3. Len(both) \in Nat /\ Len(both) # 0
                    <6> DEFINE n == Len(GroupAliases(c.query))
                               m == Len(c.query.measures)
                    <6>1. n \in Nat /\ m \in Nat /\ m # 0 /\ Len(both) = n + m
                        BY <4>4, <4>7, <5>1, <5>2
                    <6> HIDE DEF n, m
                    <6> QED  BY <6>1
                <5>4. DOMAIN both = 1 .. Len(both)
                    BY <5>1, LenProperties
                <5>5. 1 \in 1 .. Len(both)
                    BY <5>3
                <5> QED  BY <5>4, <5>5
            <4> HIDE DEF w
            <4>9. w.items # <<>>
                BY <4>1, <4>8
            <4> QED  BY <2>1, <3>2, <4>1, <4>9 DEF w
        <3> QED  BY <3>1, <3>2
    <2> HIDE DEF stmt
    <2>8. stmt.limit = 0 <=> moved
        BY <2>4, <2>6, <2>7
    <2> QED  BY <2>8 DEF stmt, moved
<1> QED  BY <1>5, <1>6

\* A chart with a dataset of its own is cut by its LIMIT exactly when no
\* control moves it (adapter.py of both adapters).
THEOREM LimitsMatch == Spec => []LimitMatchesWiring
BY Gated, BuildLimits, PTL

-----------------------------------------------------------------------------
(* What is divided by a magnitude. *)

\* Only the forms that draw one additive measure divide it.
LEMMA FormScale ==
    ASSUME NEW c, NEW large \in BOOLEAN, IsQuery(c.query), NEW target, ChartOk(c, target, TRUE),
           NEW m \in Range(build_form_data(c, large).metrics), m.scale = "magnitude"
    PROVE  Len(c.query.measures) = 1 /\ is_compact_number(c.query.measures[1])
<1> DEFINE q == c.query
           fs == IsSource(q)
<1>1. ASSUME NEW own_agg, NEW i \in DOMAIN q.measures PROVE Metrics(q, own_agg, fs)[i].scale = "one"
    BY DEF Metrics, Metric, Map
<1>2. \A own_agg : DOMAIN Metrics(q, own_agg, fs) = DOMAIN q.measures
    BY DEF Metrics, Map
<1>3. CASE IsRaw(q)
    <2>1. build_form_data(c, large).metrics = <<>>
        BY <1>3 DEF build_form_data, FormRaw, EmptyForm
    <2> QED  BY <2>1 DEF Range
<1>4. CASE ~IsRaw(q) /\ c.viz = "big_number"
    <2> DEFINE one == Metric(q.measures[1], q.table, "max", fs)
               scale == IF RuScale(q.measures[1], large) THEN "magnitude"
                        ELSE IF is_percent_measure(q.measures[1]) THEN "percent" ELSE "one"
               metric == [one EXCEPT !.scale = scale]
    <2>1. build_form_data(c, large).metrics = <<metric>>
        BY <1>4 DEF build_form_data, FormBigNumber, EmptyForm
    <2>2. "scale" \in DOMAIN one
        BY DEF Metric
    <2> HIDE DEF one
    <2>3. metric.scale = scale
        BY <2>2
    <2> HIDE DEF metric
    <2>4. m = metric
        BY <2>1 DEF Range
    <2>5. RuScale(q.measures[1], large)
        BY <2>3, <2>4
    <2>6. Len(q.measures) = 1
        BY <1>4 DEF ChartOk, ShapeOk
    <2> QED  BY <2>5, <2>6 DEF RuScale
<1>5. CASE ~IsRaw(q) /\ c.viz \in {"pie", "table", "pivot", "heatmap"}
    <2>1. build_form_data(c, large).metrics = Metrics(q, "sum", fs)
        BY <1>5 DEF build_form_data, FormGrouped, FormHeatmap, EmptyForm
    <2> QED  BY <1>1, <1>2, <2>1 DEF Range
<1>6. CASE ~IsRaw(q) /\ c.viz \notin {"big_number", "pie", "table", "pivot", "heatmap"}
    <2> DEFINE scale == IF AxisScale(c, large) THEN "magnitude" ELSE "one"
               ms == Metrics(q, "sum", fs)
               scaled == [i \in DOMAIN ms |-> [ms[i] EXCEPT !.scale = scale]]
    <2>1. build_form_data(c, large).metrics = scaled
        BY <1>6 DEF build_form_data, FormTimeseries, EmptyForm, Map
    <2>2. \A i \in DOMAIN ms : "scale" \in DOMAIN ms[i]
        BY <1>2 DEF Metrics, Metric, Map
    <2> HIDE DEF ms
    <2>3. AxisScale(c, large)
        BY <2>1, <2>2 DEF Range
    <2> QED  BY <2>3 DEF AxisScale, RuScale
<1> QED  BY <1>3, <1>4, <1>5, <1>6

\* A value axis is captioned with a unit only over a dataset that divides.
LEMMA AxisUnit ==
    ASSUME NEW c, NEW large \in BOOLEAN, build_chart_shared(c, large).axis = "unit"
    PROVE  Scaled(c, large) /\ Len(c.query.measures) = 1
<1> DEFINE q == c.query
<1>1. \A ps : Config(c, ps).axis = "default"
    BY DEF Config
<1>2. PieConfig(c).axis = "default" /\ PivotConfig(c).axis = "default"
    BY DEF Config, PieConfig, PivotConfig
<1>3. c.viz \notin {"big_number", "pie", "table", "pivot", "heatmap"}
    BY <1>1, <1>2 DEF build_chart_shared
<1>4. CartesianConfig(c, large).axis = "unit"
    BY <1>3 DEF build_chart_shared
<1>5. CartesianConfig(c, large).axis = IF is_percent_measure(q.measures[1]) THEN "by-field"
                                       ELSE IF Scaled(c, large) THEN "unit" ELSE "default"
    BY DEF CartesianConfig, Config
<1> QED  BY <1>3, <1>4, <1>5 DEF Scaled

\* A scaled dataset divides its only measure (dataset.py).
LEMMA ScaledItem ==
    ASSUME NEW q, IsQuery(q), Len(q.measures) = 1, is_compact_number(q.measures[1]), NEW sql
    PROVE  \E i \in Range(ScaleMeasures(sql, q).items) : i.expr.f = "scaled"
<1> DEFINE g == GroupAliases(q)
           a == MeasureAliases(q)
           targets == {measure_alias(m) : m \in {x \in Range(q.measures) : is_compact_number(x)}}
           out(x) == Item(x, IF x \in targets THEN Expr("scaled", <<Bare(x)>>, <<>>) ELSE ColumnExpr(Bare(x)))
           both == g \o a
<1>1. ScaleMeasures(sql, q).items = [i \in DOMAIN both |-> out(both[i])]
    BY DEF ScaleMeasures, From, Map
<1>2. IsList(group_columns(q)) /\ IsList(q.measures)
    BY RolesRange DEF IsQuery, QueryLists
<1>3. IsList(g) /\ IsList(a) /\ Len(a) = 1
    BY <1>2, Listing DEF GroupAliases, MeasureAliases, Map
<1>4. DOMAIN q.measures = 1 .. 1
    BY <1>2, LenProperties DEF IsList
<1>5. a[1] = measure_alias(q.measures[1])
    BY <1>4 DEF MeasureAliases, Map
<1>6. q.measures[1] \in Range(q.measures)
    BY <1>4 DEF Range
<1>7. a[1] \in targets
    BY <1>5, <1>6
<1>8. out(a[1]).expr.f = "scaled"
    BY <1>7 DEF Item, Expr
<1> DEFINE X == Range(g) \cup Range(a)
<1>9. g \in Seq(X) /\ a \in Seq(X) /\ Len(g) \in Nat
    BY <1>3, SeqMonotonic, LenProperties DEF IsList
<1> HIDE DEF g, a, out, X
<1>10. /\ both \in Seq(X) /\ Len(both) = Len(g) + 1
       /\ \A i \in 1 .. Len(g) + 1 : both[i] = IF i <= Len(g) THEN g[i] ELSE a[i - Len(g)]
    <2>1. /\ both \in Seq(X) /\ Len(both) = Len(g) + Len(a)
          /\ \A i \in 1 .. Len(g) + Len(a) : both[i] = IF i <= Len(g) THEN g[i] ELSE a[i - Len(g)]
        BY <1>9, ConcatProperties
    <2> HIDE DEF both
    <2> QED  BY <1>3, <2>1
<1> HIDE DEF both
<1>11. Len(g) + 1 \in 1 .. Len(both) /\ (Len(g) + 1) - Len(g) = 1 /\ ~(Len(g) + 1 <= Len(g))
    <2> DEFINE n == Len(g)
               l == Len(both)
    <2>1. n \in Nat /\ l = n + 1
        BY <1>9, <1>10
    <2> HIDE DEF n, l
    <2>2. n + 1 \in 1 .. l /\ (n + 1) - n = 1 /\ ~(n + 1 <= n)
        BY <2>1
    <2> QED  BY <2>2 DEF n, l
<1>12. both[Len(g) + 1] = a[1] /\ Len(g) + 1 \in DOMAIN both
    BY <1>10, <1>11, LenProperties
<1>13. out(both[Len(g) + 1]) \in Range(ScaleMeasures(sql, q).items)
    BY <1>1, <1>12 DEF Range
<1> QED  BY <1>8, <1>12, <1>13

\* A build divides only what adds up, and by a magnitude it has measured.
LEMMA BuildMeasured == GateInv => MagnitudeIsMeasured
<1> SUFFICES ASSUME GateInv, IsBuilt
             PROVE  /\ \A c \in Range(spec.charts) : OneAdditiveNumber(c)
                    /\ \A id \in TheBuild.trusted :
                          \E t \in trials : t.complete /\ t.sql = ChartSql(ChartOf(spec, id).query, TRUE)
    BY DEF MagnitudeIsMeasured
<1>1. IsSpec(spec) /\ Valid(spec, TRUE)
    BY DEF GateInv, IsBuilt, Passing
<1>2. PICK large \in BOOLEAN : built = <<Compiled(spec, trials, large)>>
    BY DEF GateInv, IsBuilt
<1>3. \A c \in Range(spec.charts) :
         /\ ChartOf(spec, c.id) = c /\ IsQuery(c.query) /\ ChartOk(c, spec.target_bi, TRUE)
    BY <1>1, ChartIs DEF IsSpec, IsChart, Valid
<1>4. ASSUME NEW c \in Range(spec.charts) PROVE OneAdditiveNumber(c)
    <2>1. CASE OnSuperset
        <3>1. TheBuild.charts[c.id] = build_form_data(c, large)
            BY <1>2, <1>3, <2>1 DEF OnSuperset, TheBuild, Compiled, SupersetBuild
        <3> QED  BY <1>3, <2>1, <3>1, FormScale DEF OneAdditiveNumber
    <2>2. CASE ~OnSuperset
        <3>1. TheBuild.charts[c.id] = build_chart_shared(c, large)
            BY <1>2, <1>3, <2>2 DEF OnSuperset, TheBuild, Compiled, DataLensBuild
        <3> DEFINE sql == ChartSql(c.query, c.id \notin selector_scope_chart_ids(spec))
        <3>2. Dataset(c.id) = IF Scaled(c, large) THEN ScaleMeasures(sql, c.query) ELSE sql
            BY <1>2, <1>3, <2>2 DEF OnSuperset, Dataset, TheBuild, Compiled, DataLensBuild
        <3> HIDE DEF sql
        <3> SUFFICES ASSUME build_chart_shared(c, large).axis = "unit"
                     PROVE  Len(c.query.measures) = 1 /\ \E i \in Range(Dataset(c.id).items) : i.expr.f = "scaled"
            BY <2>2, <3>1 DEF OneAdditiveNumber
        <3>3. Scaled(c, large) /\ Len(c.query.measures) = 1
            BY AxisUnit
        <3>4. is_compact_number(c.query.measures[1])
            BY <3>3 DEF Scaled
        <3> QED  BY <1>3, <3>2, <3>3, <3>4, ScaledItem
    <2> QED  BY <2>1, <2>2
<1>5. ASSUME NEW id \in TheBuild.trusted
      PROVE  \E t \in trials : t.complete /\ t.sql = ChartSql(ChartOf(spec, id).query, TRUE)
    <2>1. PICK c \in Range(spec.charts) :
             c.id = id /\ [sql |-> ChartSql(c.query, TRUE), complete |-> TRUE] \in trials
        <3>1. CASE OnSuperset
            <4>1. TheBuild.trusted = {c.id : c \in {x \in Range(spec.charts) : MagnitudeFromTrial(x, trials)}}
                BY <1>2, <3>1 DEF OnSuperset, TheBuild, Compiled, SupersetBuild
            <4> QED  BY <4>1 DEF MagnitudeFromTrial
        <3>2. CASE ~OnSuperset
            <4>1. TheBuild.trusted = {c.id : c \in {x \in Range(spec.charts) : TrialPeak(x, trials)}}
                BY <1>2, <3>2 DEF OnSuperset, TheBuild, Compiled, DataLensBuild
            <4> QED  BY <4>1 DEF TrialPeak
        <3> QED  BY <3>1, <3>2
    <2>2. ChartOf(spec, id) = c
        BY <1>3, <2>1
    <2> DEFINE t == [sql |-> ChartSql(c.query, TRUE), complete |-> TRUE]
    <2>3. t.complete = TRUE /\ t.sql = ChartSql(c.query, TRUE) /\ t \in trials
        BY <2>1
    <2> QED  BY <2>2, <2>3
<1> QED  BY <1>4, <1>5

\* A number is divided by a magnitude only alone on its axis and only when it
\* adds up, and a magnitude taken from a trial is one of a complete trial of
\* the very statement (form_data.py, chart_config.py, query_plan.py).
THEOREM MagnitudeMeasured == Spec => []MagnitudeIsMeasured
BY Gated, BuildMeasured, PTL

-----------------------------------------------------------------------------
(* What a statement of a chart selects. *)

\* Every column the query groups by is selected under its own name.
Carries(items, q) ==
    \A r \in Range(Roles(q)) : \E i \in Range(items) :
        i.alias = r.col /\ \E x \in Range(i.expr.refs) : Qualify(x, q.table) = Qualify(r, q.table)

Aliases(items) == {i.alias : i \in Range(items)}

\* What a statement returns is named by the aliases of its items.
LEMMA OutputsRange ==
    ASSUME NEW stmt, IsList(stmt.items)
    PROVE  IsList(Outputs(stmt)) /\ Range(Outputs(stmt)) = Aliases(stmt.items)
<1>1. Outputs(stmt) = [i \in DOMAIN stmt.items |-> stmt.items[i].alias]
    BY DEF Outputs, Map
<1>2. IsList(Outputs(stmt))
    BY <1>1, Listing
<1> QED  BY <1>1, <1>2 DEF Range, Aliases

\* The items of a grouped SELECT: its group columns, then its measures.
LEMMA GroupedItems ==
    ASSUME NEW q, IsQuery(q), NEW ms, IsList(ms)
    PROVE  /\ IsList(GroupedSelect(q, ms).items)
           /\ Aliases(GroupedSelect(q, ms).items) = Range(GroupAliases(q)) \cup Aliases(ms)
           /\ Carries(GroupedSelect(q, ms).items, q)
<1> DEFINE g == group_columns(q)
           dim(r) == IF Grained(q) /\ r = q.dimensions[1] THEN GrainExpr(q) ELSE ColumnExpr(resolve(q, r))
           G == [i \in DOMAIN g |-> Item(column_alias(g[i]), dim(g[i]))]
           both == G \o ms
<1>1. GroupedSelect(q, ms).items = both
    BY DEF GroupedSelect, From, Map
<1>2. IsList(g) /\ Range(g) = Range(Roles(q))
    BY RolesRange DEF IsQuery, QueryLists
<1>3. IsList(G)
    BY <1>2, Listing
<1>4. ASSUME NEW r \in Range(Roles(q))
      PROVE  \E x \in Range(dim(r).refs) : Qualify(x, q.table) = Qualify(r, q.table)
    <2>1. CASE Grained(q) /\ r = q.dimensions[1]
        <3>1. dim(r).refs = <<Qualify(r, q.table)>>
            BY <2>1 DEF GrainExpr, Expr
        <3>2. Qualify(Qualify(r, q.table), q.table) = Qualify(r, q.table)
            BY DEF Qualify, Qualified, Ref
        <3> HIDE DEF dim
        <3> QED  BY <3>1, <3>2 DEF Range
    <2>2. CASE ~(Grained(q) /\ r = q.dimensions[1])
        <3>1. dim(r).refs = <<resolve(q, r)>>
            BY <2>2 DEF ColumnExpr, Expr
        <3>2. Qualify(resolve(q, r), q.table) = Qualify(r, q.table)
            BY DEF Qualify, Qualified, Ref, resolve
        <3> HIDE DEF dim
        <3> QED  BY <3>1, <3>2 DEF Range
    <2> QED  BY <2>1, <2>2
<1> HIDE DEF dim
<1>5. Aliases(G) = Range(GroupAliases(q))
    <2>1. DOMAIN G = DOMAIN GroupAliases(q) /\ \A i \in DOMAIN G : G[i].alias = GroupAliases(q)[i]
        BY DEF GroupAliases, Map, Item
    <2> HIDE DEF G
    <2> QED  BY <2>1 DEF Range, Aliases
<1>6. Carries(G, q)
    <2> SUFFICES ASSUME NEW r \in Range(Roles(q))
                 PROVE  \E i \in Range(G) : i.alias = r.col /\ \E x \in Range(i.expr.refs) :
                                                Qualify(x, q.table) = Qualify(r, q.table)
        BY DEF Carries
    <2>1. PICK j \in DOMAIN g : g[j] = r
        BY <1>2 DEF Range
    <2>2. G[j].alias = r.col /\ G[j].expr = dim(r) /\ G[j] \in Range(G)
        BY <2>1 DEF Item, Range, column_alias
    <2> HIDE DEF G
    <2> QED  BY <1>4, <2>2
<1> HIDE DEF G
<1>7. IsList(both) /\ Range(both) = Range(G) \cup Range(ms)
    BY <1>3, Concatenated
<1> HIDE DEF both
<1>8. Aliases(both) = Aliases(G) \cup Aliases(ms)
    BY <1>7 DEF Aliases
<1>9. Carries(both, q)
    BY <1>6, <1>7 DEF Carries
<1> QED  BY <1>1, <1>5, <1>7, <1>8, <1>9

\* The shapes whose SQL reads their first dimension or first measure alone.
LEMMA OneOfEach ==
    ASSUME NEW c, IsQuery(c.query), NEW target, ChartOk(c, target, TRUE), ~IsRaw(c.query)
    PROVE  /\ c.query.bins =>
                /\ Range(Roles(c.query)) = {c.query.dimensions[1]}
                /\ Range(c.query.measures) = {c.query.measures[1]}
           /\ (\E m \in Range(c.query.measures) : m.compare # <<>>) =>
                /\ Range(Roles(c.query)) = {}
                /\ Range(c.query.measures) = {c.query.measures[1]}
<1> DEFINE q == c.query
<1>1. /\ \A n \in {"dimensions", "series", "rows", "columns", "measures"} : IsList(q[n])
      /\ Range(Roles(q)) = Range(q.dimensions) \cup Range(q.series)
                              \cup Range(q.rows) \cup Range(q.columns)
    <2>1. \A n \in {"dimensions", "series", "rows", "columns", "measures"} : IsList(q[n])
        BY DEF IsQuery, QueryLists
    <2> QED  BY <2>1, RolesRange
<1>2. ASSUME NEW x, IsList(x), Len(x) = 1 PROVE Range(x) = {x[1]}
    <2>1. DOMAIN x = {1}
        BY <1>2, LenProperties DEF IsList
    <2> QED  BY <2>1 DEF Range
<1>3. Range(<<>>) = {}
    BY DEF Range
<1>4. ASSUME q.bins PROVE /\ Range(Roles(q)) = {q.dimensions[1]}
                          /\ Range(q.measures) = {q.measures[1]}
    <2>1. c.viz = "histogram"
        BY <1>4 DEF ChartOk, HistogramOk
    <2>2. /\ Len(q.dimensions) = 1 /\ Len(q.measures) = 1
          /\ q.series = <<>> /\ q.rows = <<>> /\ q.columns = <<>>
        BY <2>1 DEF ChartOk, ShapeOk
    <2>3. Range(q.dimensions) = {q.dimensions[1]} /\ Range(q.measures) = {q.measures[1]}
        BY <1>1, <1>2, <2>2
    <2> QED  BY <1>1, <1>3, <2>2, <2>3
<1>5. ASSUME NEW m \in Range(q.measures), m.compare # <<>>
      PROVE  /\ Range(Roles(q)) = {} /\ Range(q.measures) = {q.measures[1]}
    <2>1. c.viz = "big_number"
        BY <1>5 DEF ChartOk, CompareOk
    <2>2. /\ Len(q.measures) = 1
          /\ q.dimensions = <<>> /\ q.series = <<>> /\ q.rows = <<>> /\ q.columns = <<>>
        BY <2>1 DEF ChartOk, ShapeOk
    <2>3. Range(q.measures) = {q.measures[1]}
        BY <1>1, <1>2, <2>2
    <2> QED  BY <1>1, <1>3, <2>2, <2>3
<1> QED  BY <1>4, <1>5

\* A plain statement carries the fields of its query (sql_gen.py).
LEMMA FlatItems ==
    ASSUME NEW q, IsQuery(q), NEW b \in BOOLEAN
    PROVE  /\ IsList(FlatSql(q, b).items)
           /\ Aliases(FlatSql(q, b).items) = Range(GroupAliases(q)) \cup Range(MeasureAliases(q))
           /\ Carries(Grouped(FlatSql(q, b)).items, q)
<1> DEFINE ms == [i \in DOMAIN q.measures |-> Item(measure_alias(q.measures[i]), MeasureExpr(q, q.measures[i]))]
<1>1. IsList(ms)
    BY Listing DEF IsQuery, QueryLists
<1>2. Aliases(ms) = Range(MeasureAliases(q))
    <2>1. DOMAIN ms = DOMAIN MeasureAliases(q) /\ \A i \in DOMAIN ms : ms[i].alias = MeasureAliases(q)[i]
        BY DEF MeasureAliases, Map, Item
    <2> HIDE DEF ms
    <2> QED  BY <2>1 DEF Range, Aliases
<1>3. FlatSql(q, b) = OrderAndLimit(GroupedSelect(q, ms), q, TRUE, b)
    BY DEF FlatSql, Map
<1> HIDE DEF ms
<1>4. /\ {"items", "sub"} \subseteq DOMAIN GroupedSelect(q, ms)
      /\ GroupedSelect(q, ms).sub = <<>>
    BY DEF GroupedSelect, From
<1>5. /\ FlatSql(q, b).items = GroupedSelect(q, ms).items
      /\ FlatSql(q, b).sub = <<>>
    BY <1>3, <1>4 DEF OrderAndLimit
<1>6. Grouped(FlatSql(q, b)).items = GroupedSelect(q, ms).items
    BY <1>5 DEF Grouped
<1> QED  BY <1>1, <1>2, <1>5, <1>6, GroupedItems

\* So does one with shares or running totals, over its inner statement.
LEMMA WindowedItems ==
    ASSUME NEW q, IsQuery(q), NEW b \in BOOLEAN
    PROVE  /\ IsList(WindowedSql(q, b).items)
           /\ Aliases(WindowedSql(q, b).items) = Range(GroupAliases(q)) \cup Range(MeasureAliases(q))
           /\ Carries(Grouped(WindowedSql(q, b)).items, q)
<1> DEFINE dens(i) == [j \in DOMAIN q.measures[i].denominator |->
                          Item(Den(i), MeasureExpr(q, q.measures[i].denominator[j]))]
           head(i) == <<Item(Src(i), MeasureExpr(q, q.measures[i]))>>
           inner == [i \in DOMAIN q.measures |-> head(i) \o dens(i)]
           ms == FlattenSeq(inner)
           g == group_columns(q)
           dims == [i \in DOMAIN g |-> Item(column_alias(g[i]), ColumnExpr(Bare(column_alias(g[i]))))]
           outer == [i \in DOMAIN q.measures |-> OuterMeasure(q, i)]
           both == dims \o outer
<1>1. WindowedSelect(q) = [From(NoTable) EXCEPT !.sub = <<[as |-> <<"t">>, stmt |-> GroupedSelect(q, ms)]>>,
                                                !.items = both]
    BY DEF WindowedSelect, Map
<1>2. IsList(g) /\ Range(g) = Range(Roles(q)) /\ IsList(q.measures)
    BY RolesRange DEF IsQuery, QueryLists
<1>3. IsList(ms)
    <2>1. ASSUME NEW i \in DOMAIN q.measures PROVE IsList(inner[i])
        <3>1. IsList(q.measures[i].denominator)
            BY DEF IsQuery, IsMeasure, Range
        <3>2. IsList(dens(i))
            BY <3>1, Listing
        <3> DEFINE first == Item(Src(i), MeasureExpr(q, q.measures[i]))
        <3>3. IsList(head(i))
            <4> HIDE DEF first
            <4>1. <<first>> \in [1 .. 1 -> Range(<<first>>)]
                BY DEF Range
            <4>2. IsList(<<first>>)
                BY <4>1 DEF IsList
            <4> QED  BY <4>2 DEF first
        <3> HIDE DEF dens, head
        <3> QED  BY <3>2, <3>3, Concatenated
    <2> HIDE DEF inner
    <2> DEFINE S == UNION {Range(inner[i]) : i \in DOMAIN inner}
    <2>2. DOMAIN inner = DOMAIN q.measures
        BY DEF inner
    <2>3. \A i \in DOMAIN inner : inner[i] \in Seq(S)
        BY <2>1, <2>2, SeqMonotonic DEF IsList
    <2>4. DOMAIN inner = 1 .. Len(q.measures) /\ Len(q.measures) \in Nat
        BY <1>2, <2>2, LenProperties DEF IsList
    <2>5. inner = [i \in DOMAIN inner |-> inner[i]]
        BY DEF inner
    <2> HIDE DEF S
    <2>6. inner \in [1 .. Len(q.measures) -> Seq(S)]
        BY <2>3, <2>4, <2>5
    <2>7. inner \in Seq(Seq(S))
        BY <2>4, <2>6
    <2>8. FlattenSeq(inner) \in Seq(S)
        BY <2>7, FlattenRange
    <2> QED  BY <2>8, SeqOfRange DEF IsList
<1> HIDE DEF ms, inner
<1>4. IsList(dims) /\ IsList(outer)
    BY <1>2, Listing
<1>5. Aliases(dims) = Range(GroupAliases(q))
    <2>1. DOMAIN dims = DOMAIN GroupAliases(q) /\ \A i \in DOMAIN dims : dims[i].alias = GroupAliases(q)[i]
        BY DEF GroupAliases, Map, Item
    <2> HIDE DEF dims
    <2> QED  BY <2>1 DEF Range, Aliases
<1>6. Aliases(outer) = Range(MeasureAliases(q))
    <2>1. DOMAIN outer = DOMAIN MeasureAliases(q) /\ \A i \in DOMAIN outer : outer[i].alias = MeasureAliases(q)[i]
        BY DEF MeasureAliases, Map, Item, OuterMeasure
    <2> HIDE DEF outer
    <2> QED  BY <2>1 DEF Range, Aliases
<1> HIDE DEF dims, outer
<1>7. IsList(both) /\ Range(both) = Range(dims) \cup Range(outer)
    BY <1>4, Concatenated
<1> HIDE DEF both
<1>8. Aliases(both) = Aliases(dims) \cup Aliases(outer)
    BY <1>7 DEF Aliases
<1>9. /\ WindowedSelect(q).items = both
      /\ WindowedSelect(q).sub = <<[as |-> <<"t">>, stmt |-> GroupedSelect(q, ms)]>>
      /\ {"items", "sub"} \subseteq DOMAIN WindowedSelect(q)
    BY <1>1 DEF From
<1>10. /\ WindowedSql(q, b).items = both
       /\ WindowedSql(q, b).sub = <<[as |-> <<"t">>, stmt |-> GroupedSelect(q, ms)]>>
    BY <1>9 DEF WindowedSql, OrderAndLimit
<1>11. Grouped(WindowedSql(q, b)) = GroupedSelect(q, ms)
    BY <1>10 DEF Grouped
<1> QED  BY <1>3, <1>5, <1>6, <1>7, <1>8, <1>10, <1>11, GroupedItems

\* So does a histogram, over its buckets.
LEMMA HistogramItems ==
    ASSUME NEW q, IsQuery(q), NEW b \in BOOLEAN,
           Range(Roles(q)) = {q.dimensions[1]}, Range(q.measures) = {q.measures[1]}
    PROVE  /\ IsList(HistogramSql(q, b).items)
           /\ Aliases(HistogramSql(q, b).items) = Range(GroupAliases(q)) \cup Range(MeasureAliases(q))
           /\ Carries(Grouped(HistogramSql(q, b)).items, q)
<1> DEFINE d == q.dimensions[1]
           m == q.measures[1]
           col == Qualify(d, q.table)
           bucket == Expr("bucket", <<col, Ref(<<"b">>, <<"mn">>), Ref(<<"b">>, <<"w">>)>>, <<>>)
           first == Item(column_alias(d), bucket)
           second == Item(measure_alias(m), Expr(m.agg, <<Bare(m.column)>>, <<>>))
<1>1. /\ HistogramSql(q, b).items = <<first, second>>
      /\ HistogramSql(q, b).sub[1].as = <<"b">>
    BY DEF HistogramSql, From
<1>2. first.alias = d.col /\ second.alias = measure_alias(m) /\ first.expr = bucket
    BY DEF Item, column_alias
<1>3. col \in Range(bucket.refs)
    <2> HIDE DEF col
    <2>1. bucket.refs = <<col, Ref(<<"b">>, <<"mn">>), Ref(<<"b">>, <<"w">>)>>
        BY DEF Expr
    <2>2. 1 \in DOMAIN bucket.refs /\ bucket.refs[1] = col
        BY <2>1
    <2> QED  BY <2>2 DEF Range
<1>4. Qualify(col, q.table) = Qualify(d, q.table)
    BY DEF Qualify, Qualified, Ref
<1> HIDE DEF first, second, col, bucket
<1>5. Range(<<first, second>>) = {first, second}
    BY DEF Range
<1>6. IsList(<<first, second>>)
    <2>1. <<first, second>> \in Seq({first, second})
        OBVIOUS
    <2> QED  BY <1>5, <2>1 DEF IsList
<1>7. Aliases(<<first, second>>) = {d.col, measure_alias(m)}
    BY <1>2, <1>5 DEF Aliases
<1>8. Range(GroupAliases(q)) = {d.col} /\ Range(MeasureAliases(q)) = {measure_alias(m)}
    BY FieldsRange
<1>9. Grouped(HistogramSql(q, b)).items = <<first, second>>
    BY <1>1 DEF Grouped
<1>10. Carries(<<first, second>>, q)
    BY <1>2, <1>3, <1>4, <1>5 DEF Carries
<1> QED  BY <1>1, <1>6, <1>7, <1>8, <1>9, <1>10

\* So does a comparison of two periods.
LEMMA CompareItems ==
    ASSUME NEW q, IsQuery(q), Range(Roles(q)) = {}, Range(q.measures) = {q.measures[1]}
    PROVE  /\ IsList(CompareSql(q).items)
           /\ Aliases(CompareSql(q).items) = Range(GroupAliases(q)) \cup Range(MeasureAliases(q))
           /\ Carries(Grouped(CompareSql(q)).items, q)
<1> DEFINE only == CompareSql(q).items[1]
<1>1. CompareSql(q).items = <<only>> /\ only.alias = measure_alias(q.measures[1])
    BY DEF CompareSql, From, Item
<1> HIDE DEF only
<1>2. Range(<<only>>) = {only}
    BY DEF Range
<1>3. IsList(<<only>>)
    <2>1. <<only>> \in Seq({only})
        OBVIOUS
    <2> QED  BY <1>2, <2>1 DEF IsList
<1>4. Range(GroupAliases(q)) = {} /\ Range(MeasureAliases(q)) = {measure_alias(q.measures[1])}
    BY FieldsRange
<1>5. Carries(Grouped(CompareSql(q)).items, q)
    BY DEF Carries
<1> QED  BY <1>1, <1>2, <1>3, <1>4, <1>5 DEF Aliases

\* So does the statement of any chart that is not a raw table.
LEMMA ChartItems ==
    ASSUME NEW c, IsQuery(c.query), NEW target, ChartOk(c, target, TRUE), ~IsRaw(c.query), NEW b \in BOOLEAN
    PROVE  /\ IsList(ChartSql(c.query, b).items)
           /\ Aliases(ChartSql(c.query, b).items)
                 = Range(GroupAliases(c.query)) \cup Range(MeasureAliases(c.query))
           /\ Carries(Grouped(ChartSql(c.query, b)).items, c.query)
<1> DEFINE q == c.query
           compared == \E m \in Range(q.measures) : m.compare # <<>>
<1>1. CASE q.bins
    BY <1>1, HistogramItems, OneOfEach DEF ChartSql
<1>2. CASE ~q.bins /\ compared
    BY <1>2, CompareItems, OneOfEach DEF ChartSql
<1>3. CASE ~q.bins /\ ~compared
    BY <1>3, FlatItems, WindowedItems DEF ChartSql
<1> QED  BY <1>1, <1>2, <1>3

-----------------------------------------------------------------------------
(* The fields a wizard config of DataLens binds. *)

\* The items of a placeholder bind fields of X.
Binding(items, X) == IsList(items) /\ \A i \in Range(items) : i.field \in X

\* A config binds fields of a set when each of its parts does.
LEMMA BoundWithin ==
    ASSUME NEW config, NEW X, IsList(config.placeholders),
           \A p \in Range(config.placeholders) : Binding(p.items, X),
           Binding(config.colors, X), Binding(config.sort, X), Binding(config.labels, X)
    PROVE  Bound(config) \subseteq X
<1> DEFINE ps == config.placeholders
           lists == [i \in DOMAIN ps |-> ps[i].items]
           placed == FlattenSeq(lists)
           S == UNION {Range(lists[i]) : i \in DOMAIN lists}
<1>1. DOMAIN ps = 1 .. Len(ps) /\ Len(ps) \in Nat
    BY LenProperties DEF IsList
<1>2. \A i \in DOMAIN ps : Binding(lists[i], X)
    BY DEF Range
<1>3. \A i \in DOMAIN ps : lists[i] \in Seq(S)
    BY <1>2, SeqMonotonic DEF Binding, IsList
<1>4. lists \in Seq(Seq(S)) /\ Len(lists) = Len(ps)
    <2> HIDE DEF S
    <2>1. lists \in [1 .. Len(ps) -> Seq(S)]
        BY <1>1, <1>3
    <2> QED  BY <1>1, <2>1
<1> HIDE DEF lists, S
<1>5. /\ placed \in Seq(S)
      /\ \A x : x \in Range(placed) <=> \E i \in 1 .. Len(lists) : x \in Range(lists[i])
    BY <1>4, FlattenRange
<1>6. Binding(placed, X)
    <2>1. IsList(placed)
        BY <1>5, SeqOfRange DEF IsList
    <2> HIDE DEF placed
    <2> QED  BY <1>1, <1>2, <1>4, <1>5, <2>1 DEF Binding
<1> HIDE DEF placed
<1>7. Binding(placed \o config.colors, X)
    BY <1>6, Concatenated DEF Binding
<1>8. Binding(placed \o config.colors \o config.sort, X)
    BY <1>7, Concatenated DEF Binding
<1>9. Binding(placed \o config.colors \o config.sort \o config.labels, X)
    BY <1>8, Concatenated DEF Binding
<1>10. Bound(config) = {i.field : i \in Range(placed \o config.colors \o config.sort \o config.labels)}
    BY DEF Bound, Map, placed, lists
<1> QED  BY <1>9, <1>10 DEF Binding

\* A slice of one element.
LEMMA Slice ==
    ASSUME NEW seq, IsList(seq), NEW k \in 1 .. Len(seq)
    PROVE  IsList(SubSeq(seq, k, k)) /\ Range(SubSeq(seq, k, k)) \subseteq Range(seq)
<1>1. Len(seq) \in Nat /\ DOMAIN seq = 1 .. Len(seq)
    BY LenProperties DEF IsList
<1>2. k \in Int /\ \A i \in k .. k : seq[i] \in Range(seq)
    BY <1>1 DEF Range
<1>3. SubSeq(seq, k, k) \in Seq(Range(seq))
    BY <1>2, SubSeqProperties
<1> QED  BY <1>3, SeqOfRange, RangeOfSeq DEF IsList

\* What is left of a list after its first element.
LEMMA Rest ==
    ASSUME NEW seq, IsList(seq), seq # <<>>
    PROVE  IsList(Tail(seq)) /\ Range(Tail(seq)) \subseteq Range(seq)
<1>1. seq \in Seq(Range(seq))
    BY DEF IsList
<1>2. Tail(seq) \in Seq(Range(seq))
    BY <1>1, HeadTailProperties
<1> QED  BY <1>2, SeqOfRange, RangeOfSeq DEF IsList

\* The breakdown of a chart is taken from its own dimensions and series.
LEMMA BreakdownRange ==
    ASSUME NEW q, IsQuery(q), q.dimensions # <<>>
    PROVE  IsList(Breakdown(q)) /\ Range(Breakdown(q)) \subseteq Range(q.series) \cup Range(q.dimensions)
<1> DEFINE all == q.series \o Tail(q.dimensions)
<1>1. IsList(q.series) /\ IsList(Tail(q.dimensions)) /\ Range(Tail(q.dimensions)) \subseteq Range(q.dimensions)
    BY Rest DEF IsQuery, QueryLists
<1>2. IsList(all) /\ Range(all) \subseteq Range(q.series) \cup Range(q.dimensions)
    BY <1>1, Concatenated
<1> HIDE DEF all
<1>3. Distinct(all) \in Seq(Range(all)) /\ Range(Distinct(all)) = Range(all)
    BY <1>2, DistinctRange DEF IsList
<1>4. Breakdown(q) = Distinct(all)
    BY DEF Breakdown, all
<1> QED  BY <1>2, <1>3, <1>4 DEF IsList

\* The ranges of short sequences.
LEMMA Tuples ==
    /\ IsList(<<>>) /\ Range(<<>>) = {}
    /\ \A a : IsList(<<a>>) /\ Range(<<a>>) = {a}
    /\ \A a, b : IsList(<<a, b>>) /\ Range(<<a, b>>) = {a, b}
    /\ \A a, b, d : IsList(<<a, b, d>>) /\ Range(<<a, b, d>>) = {a, b, d}
<1>1. /\ Range(<<>>) = {}
      /\ \A a : Range(<<a>>) = {a}
      /\ \A a, b : Range(<<a, b>>) = {a, b}
    BY DEF Range
<1>2. ASSUME NEW a, NEW b, NEW d PROVE Range(<<a, b, d>>) = {a, b, d}
    BY DEF Range
<1>3. <<>> \in Seq({}) /\ \A a : <<a>> \in Seq({a})
    OBVIOUS
<1>4. \A a, b : <<a, b>> \in Seq({a, b})
    OBVIOUS
<1>5. \A a, b, d : <<a, b, d>> \in Seq({a, b, d})
    OBVIOUS
<1> QED  BY <1>1, <1>2, <1>3, <1>4, <1>5 DEF IsList

\* The items of a measure or of a role name fields of the query.
LEMMA ItemsBind ==
    ASSUME NEW q, IsQuery(q)
    PROVE  /\ \A refs : IsList(refs) /\ Range(refs) \subseteq Range(Roles(q)) =>
                 /\ Binding(DimItems(refs), Range(FieldAliases(q)))
                 /\ Binding(Discretised(q, refs), Range(FieldAliases(q)))
           /\ Binding(MeasureItems(q), Range(FieldAliases(q)))
           /\ Len(MeasureItems(q)) = Len(q.measures)
<1> DEFINE X == Range(FieldAliases(q))
<1>1. X = {r.col : r \in Range(Roles(q))} \cup {measure_alias(m) : m \in Range(q.measures)}
    BY FieldsRange
<1> HIDE DEF X
<1>2. ASSUME NEW refs, IsList(refs), Range(refs) \subseteq Range(Roles(q))
      PROVE  Binding(DimItems(refs), X) /\ Binding(Discretised(q, refs), X)
    <2>1. \A i \in DOMAIN refs : refs[i].col \in X
        BY <1>1, <1>2 DEF Range
    <2>2. /\ DOMAIN DimItems(refs) = DOMAIN refs /\ DOMAIN Discretised(q, refs) = DOMAIN refs
          /\ \A i \in DOMAIN refs : DimItems(refs)[i].field = refs[i].col
          /\ \A i \in DOMAIN refs : Discretised(q, refs)[i].field = refs[i].col
        BY DEF DimItems, Discretised, Fielded, Map, column_alias
    <2>3. IsList(DimItems(refs)) /\ IsList(Discretised(q, refs))
        BY <1>2, Listing DEF DimItems, Discretised, Map
    <2> QED  BY <2>1, <2>2, <2>3 DEF Binding, Range
<1>3. Binding(MeasureItems(q), X) /\ Len(MeasureItems(q)) = Len(q.measures)
    <2>1. IsList(q.measures)
        BY DEF IsQuery, QueryLists
    <2>2. /\ IsList(MeasureItems(q)) /\ DOMAIN MeasureItems(q) = DOMAIN q.measures
          /\ Len(MeasureItems(q)) = Len(q.measures)
        BY <2>1, Listing DEF MeasureItems, Map
    <2>3. \A i \in DOMAIN q.measures : MeasureItems(q)[i].field = measure_alias(q.measures[i])
        BY DEF MeasureItems, Map, Fielded
    <2> QED  BY <1>1, <2>2, <2>3 DEF Binding, Range
<1> QED  BY <1>2, <1>3 DEF X

\* The visualisations that draw against a dimension have one.
LEMMA FirstDimension ==
    ASSUME NEW c, IsChart(c), NEW target, ChartOk(c, target, TRUE), ~IsRaw(c.query)
    PROVE  /\ c.viz \notin {"big_number", "table", "pivot"} =>
                 c.query.dimensions # <<>> /\ 1 \in 1 .. Len(c.query.dimensions)
           /\ c.viz = "heatmap" => 2 \in 1 .. Len(c.query.dimensions)
<1> DEFINE d == c.query.dimensions
<1>1. IsList(d)
    BY DEF IsChart, IsQuery, QueryLists
<1>2. Len(d) \in Nat
    BY <1>1, LenProperties DEF IsList
<1>3. ShapeOk(c)
    BY DEF ChartOk
<1>4. CASE c.viz \in {"pie", "histogram"}
    <2>1. Len(d) = 1
        BY <1>3, <1>4 DEF ShapeOk
    <2> QED  BY <1>4, <2>1
<1>5. CASE c.viz = "heatmap"
    <2>1. Len(d) = 2
        BY <1>3, <1>5 DEF ShapeOk
    <2>2. d # <<>>
        BY <2>1
    <2>3. 1 \in 1 .. Len(d) /\ 2 \in 1 .. Len(d)
        BY <2>1
    <2> QED  BY <1>5, <2>2, <2>3
<1>6. CASE c.viz \in {"line", "area", "bar", "stacked_bar"}
    <2>1. d # <<>>
        BY <1>3, <1>6 DEF ShapeOk
    <2>2. Len(d) # 0
        BY <1>1, <2>1, EmptySeq DEF IsList
    <2> QED  BY <1>2, <1>6, <2>1, <2>2
<1>7. CASE c.viz \in {"big_number", "table", "pivot"}
    BY <1>7
<1> QED  BY <1>4, <1>5, <1>6, <1>7 DEF IsChart

\* A wizard config names fields of its chart's query (chart_config.py).
LEMMA ConfigBinds ==
    ASSUME NEW c, IsChart(c), NEW target, ChartOk(c, target, TRUE), ~IsRaw(c.query),
           NEW large \in BOOLEAN
    PROVE  Bound(build_chart_shared(c, large)) \subseteq Range(FieldAliases(c.query))
<1> DEFINE q == c.query
           X == Range(FieldAliases(q))
           slice == SubSeq(MeasureItems(q), 1, 1)
<1>0. IsQuery(q)
    BY DEF IsChart
<1>1. \A n \in {"dimensions", "series", "rows", "columns"} :
         IsList(q[n]) /\ Range(q[n]) \subseteq Range(Roles(q))
    <2>1. \A n \in {"dimensions", "series", "rows", "columns"} : IsList(q[n])
        BY <1>0 DEF IsQuery, QueryLists
    <2> QED  BY <2>1, RolesRange
<1>2. IsList(group_columns(q)) /\ Range(group_columns(q)) = Range(Roles(q))
    BY <1>1, RolesRange
<1>3. Binding(MeasureItems(q), X)
    BY <1>0, ItemsBind
<1>4. \A refs : IsList(refs) /\ Range(refs) \subseteq Range(Roles(q)) =>
         Binding(DimItems(refs), X) /\ Binding(Discretised(q, refs), X)
    BY <1>0, ItemsBind
<1> HIDE DEF X
<1>5. Binding(slice, X) /\ Binding(<<>>, X)
    <2>1. q.measures # <<>> /\ IsList(q.measures)
        BY <1>0 DEF IsQuery, WellFormedQuery, QueryLists
    <2>2. Len(q.measures) # 0 /\ Len(q.measures) \in Nat
        BY <2>1, EmptySeq, LenProperties DEF IsList
    <2>3. 1 \in 1 .. Len(MeasureItems(q))
        BY <1>0, <2>2, ItemsBind
    <2>4. IsList(slice) /\ Range(slice) \subseteq Range(MeasureItems(q))
        BY <1>3, <2>3, Slice DEF Binding
    <2> QED  BY <1>3, <2>4, Tuples DEF Binding
<1> HIDE DEF slice
<1>6. \A id, items : Placeholder(id, items).items = items
    BY DEF Placeholder
<1>7. CASE c.viz = "big_number"
    <2> DEFINE p == Placeholder("measures", slice)
               f == build_chart_shared(c, large)
    <2>1. f.placeholders = <<p>> /\ f.colors = <<>> /\ f.sort = <<>> /\ f.labels = <<>>
        BY <1>7 DEF build_chart_shared, Config, slice
    <2>2. p.items = slice
        BY <1>6
    <2> HIDE DEF p, f
    <2>3. Bound(f) \subseteq X
        <3>1. IsList(f.placeholders) /\ \A x \in Range(f.placeholders) : Binding(x.items, X)
            BY <1>5, <2>1, <2>2, Tuples
        <3>2. Binding(f.colors, X) /\ Binding(f.sort, X) /\ Binding(f.labels, X)
            BY <1>5, <2>1, <2>2
        <3> QED  BY <3>1, <3>2, BoundWithin
    <2> QED  BY <2>3 DEF f, X
<1>8. CASE c.viz = "pie"
    <2> DEFINE p == Placeholder("dimensions", DimItems(SubSeq(q.dimensions, 1, 1)))
               r == Placeholder("measures", slice)
               f == build_chart_shared(c, large)
    <2>1. f.placeholders = <<p, r>> /\ f.colors = <<>> /\ f.sort = slice /\ f.labels = slice
        BY <1>8 DEF build_chart_shared, PieConfig, Config, slice
    <2>2. 1 \in 1 .. Len(q.dimensions)
        BY <1>8, FirstDimension
    <2>3. IsList(SubSeq(q.dimensions, 1, 1)) /\ Range(SubSeq(q.dimensions, 1, 1)) \subseteq Range(q.dimensions)
        BY <1>1, <2>2, Slice
    <2>4. Binding(p.items, X) /\ Binding(r.items, X)
        BY <1>1, <1>4, <1>5, <1>6, <2>3
    <2> HIDE DEF p, r, f
    <2>5. Bound(f) \subseteq X
        <3>1. IsList(f.placeholders) /\ \A x \in Range(f.placeholders) : Binding(x.items, X)
            BY <1>5, <2>1, <2>4, Tuples
        <3>2. Binding(f.colors, X) /\ Binding(f.sort, X) /\ Binding(f.labels, X)
            BY <1>5, <2>1, <2>4
        <3> QED  BY <3>1, <3>2, BoundWithin
    <2> QED  BY <2>5 DEF f, X
<1>9. CASE c.viz = "table"
    <2> DEFINE both == DimItems(group_columns(q)) \o MeasureItems(q)
               p == Placeholder("flat-table-columns", both)
               f == build_chart_shared(c, large)
    <2>1. f.placeholders = <<p>> /\ f.colors = <<>> /\ f.sort = <<>> /\ f.labels = <<>>
        BY <1>9 DEF build_chart_shared, Config
    <2>2. Binding(DimItems(group_columns(q)), X)
        BY <1>2, <1>4
    <2>3. Binding(both, X)
        BY <1>3, <2>2, Concatenated DEF Binding
    <2>4. p.items = both
        BY <1>6
    <2> HIDE DEF p, both, f
    <2>5. Bound(f) \subseteq X
        <3>1. IsList(f.placeholders) /\ \A x \in Range(f.placeholders) : Binding(x.items, X)
            BY <1>5, <2>1, <2>3, <2>4, Tuples
        <3>2. Binding(f.colors, X) /\ Binding(f.sort, X) /\ Binding(f.labels, X)
            BY <1>5, <2>1, <2>3, <2>4
        <3> QED  BY <3>1, <3>2, BoundWithin
    <2> QED  BY <2>5 DEF f, X
<1>10. CASE c.viz \in {"pivot", "heatmap"}
    <2> DEFINE rows == IF c.viz = "heatmap" THEN SubSeq(q.dimensions, 1, 1) ELSE q.rows
               columns == IF c.viz = "heatmap" THEN SubSeq(q.dimensions, 2, 2) ELSE q.columns
               p == Placeholder("rows", DimItems(rows))
               r == Placeholder("pivot-table-columns", DimItems(columns))
               s == Placeholder("measures", MeasureItems(q))
               f == build_chart_shared(c, large)
    <2>1. f.placeholders = <<p, r, s>> /\ f.colors = <<>> /\ f.sort = <<>> /\ f.labels = <<>>
        BY <1>10 DEF build_chart_shared, PivotConfig, Config
    <2>2. /\ IsList(rows) /\ Range(rows) \subseteq Range(Roles(q))
          /\ IsList(columns) /\ Range(columns) \subseteq Range(Roles(q))
        <3>1. CASE c.viz = "heatmap"
            <4>1. 1 \in 1 .. Len(q.dimensions) /\ 2 \in 1 .. Len(q.dimensions)
                BY <3>1, FirstDimension
            <4> QED  BY <1>1, <3>1, <4>1, Slice
        <3>2. CASE c.viz # "heatmap"
            BY <1>1, <3>2
        <3> QED  BY <3>1, <3>2
    <2> HIDE DEF rows, columns
    <2>3. Binding(p.items, X) /\ Binding(r.items, X) /\ Binding(s.items, X)
        BY <1>3, <1>4, <1>6, <2>2
    <2> HIDE DEF p, r, s, f
    <2>4. Bound(f) \subseteq X
        <3>1. IsList(f.placeholders) /\ \A x \in Range(f.placeholders) : Binding(x.items, X)
            BY <1>5, <2>1, <2>3, Tuples
        <3>2. Binding(f.colors, X) /\ Binding(f.sort, X) /\ Binding(f.labels, X)
            BY <1>5, <2>1, <2>3
        <3> QED  BY <3>1, <3>2, BoundWithin
    <2> QED  BY <2>4 DEF f, X
<1>11. CASE c.viz \notin {"big_number", "pie", "table", "pivot", "heatmap"}
    <2> DEFINE f == build_chart_shared(c, large)
               discrete == c.viz \in {"bar", "stacked_bar", "histogram"}
               dims(refs) == IF discrete THEN Discretised(q, refs) ELSE DimItems(refs)
               ids == IF VizId(c) = "bar" THEN <<"y", "x">> ELSE <<"x", "y">>
               first == SubSeq(q.dimensions, 1, 1)
               p == Placeholder(ids[1], dims(first))
               r == Placeholder(ids[2], MeasureItems(q))
    <2>1. q.dimensions # <<>> /\ 1 \in 1 .. Len(q.dimensions)
        BY <1>11, FirstDimension DEF IsChart
    <2>2. \A refs : IsList(refs) /\ Range(refs) \subseteq Range(Roles(q)) => Binding(dims(refs), X)
        BY <1>4
    <2>3. f = CartesianConfig(c, large)
        BY <1>11 DEF build_chart_shared
    <2>4. /\ f.placeholders = <<p, r>> /\ f.colors = dims(Breakdown(q)) /\ f.labels = <<>>
          /\ f.sort = IF is_horizontal_bar(c) THEN slice ELSE <<>>
        BY <2>3 DEF CartesianConfig, Config, Breakdown, slice
    <2>5. IsList(first) /\ Range(first) \subseteq Range(Roles(q))
        BY <1>1, <2>1, Slice
    <2>6. IsList(Breakdown(q)) /\ Range(Breakdown(q)) \subseteq Range(Roles(q))
        BY <1>0, <1>1, <2>1, BreakdownRange
    <2> HIDE DEF dims, first, f
    <2>7. Binding(p.items, X) /\ Binding(r.items, X)
        BY <1>3, <1>6, <2>2, <2>5
    <2>8. Binding(f.colors, X) /\ Binding(f.sort, X) /\ Binding(f.labels, X)
        BY <1>5, <2>2, <2>4, <2>6
    <2> HIDE DEF p, r
    <2>9. IsList(f.placeholders) /\ \A x \in Range(f.placeholders) : Binding(x.items, X)
        BY <2>4, <2>7, Tuples
    <2>10. Bound(f) \subseteq X
        BY <2>8, <2>9, BoundWithin
    <2> QED  BY <2>10 DEF f, X
<1> QED  BY <1>7, <1>8, <1>9, <1>10, <1>11

\* Scaling keeps the names of what it wraps.
LEMMA ScaledOutputs ==
    ASSUME NEW q, IsQuery(q), NEW sql
    PROVE  Range(Outputs(ScaleMeasures(sql, q))) = Range(GroupAliases(q)) \cup Range(MeasureAliases(q))
<1> DEFINE targets == {measure_alias(m) : m \in {x \in Range(q.measures) : is_compact_number(x)}}
           out(x) == Item(x, IF x \in targets THEN Expr("scaled", <<Bare(x)>>, <<>>) ELSE ColumnExpr(Bare(x)))
           both == GroupAliases(q) \o MeasureAliases(q)
<1>1. ScaleMeasures(sql, q).items = [i \in DOMAIN both |-> out(both[i])]
    BY DEF ScaleMeasures, From, Map
<1>2. \A x : out(x).alias = x
    BY DEF Item
<1>3. Range(both) = Range(GroupAliases(q)) \cup Range(MeasureAliases(q))
    BY FieldsRange, Concatenated
<1> HIDE DEF out, both
<1>4. Outputs(ScaleMeasures(sql, q)) = [i \in DOMAIN both |-> both[i]]
    BY <1>1, <1>2 DEF Outputs, Map
<1> QED  BY <1>3, <1>4 DEF Range

-----------------------------------------------------------------------------
(* The columns the parameters of a Superset chart name. *)

MetricsWithin(ms, Y) == \A m \in Range(ms) : \A r \in Range(m.sql.refs) : r.col \in Y

\* What a form names when its metrics, its dimensions and its time do.
LEMMA FormWithin ==
    ASSUME NEW c, IsChart(c), NEW target, ChartOk(c, target, TRUE), ~IsRaw(c.query),
           NEW large \in BOOLEAN, NEW Y,
           \A r \in Range(Roles(c.query)) : DimAlias(r, c.query.table, IsSource(c.query)) \in Y,
           Range(TemporalAlias(c.query, IsSource(c.query))) \subseteq Y,
           \A own_agg : \A m \in Range(c.query.measures) :
               \A r \in Range(MetricSql(m, own_agg, IsSource(c.query)).refs) : r.col \in Y
    PROVE  LET form == build_form_data(c, large)
           IN  /\ FormColumns(form) \subseteq Y
               /\ Range(form.sort) \subseteq {m.label : m \in Range(form.metrics)}
<1> DEFINE q == c.query
           fs == IsSource(q)
           form == build_form_data(c, large)
           dim(r) == DimAlias(r, q.table, fs)
<1>0. IsQuery(q)
    BY DEF IsChart
<1>1. \A n \in {"dimensions", "series", "rows", "columns"} :
         IsList(q[n]) /\ Range(q[n]) \subseteq Range(Roles(q))
    <2>1. \A n \in {"dimensions", "series", "rows", "columns"} : IsList(q[n])
        BY <1>0 DEF IsQuery, QueryLists
    <2> QED  BY <2>1, RolesRange
<1>2. Range(group_columns(q)) = Range(Roles(q))
    BY <1>1, RolesRange
<1>3. ASSUME NEW own_agg
      PROVE  /\ DOMAIN Metrics(q, own_agg, fs) = DOMAIN q.measures
             /\ \A i \in DOMAIN q.measures :
                   /\ Metrics(q, own_agg, fs)[i].sql = MetricSql(q.measures[i], own_agg, fs)
                   /\ Metrics(q, own_agg, fs)[i].label = DisplayLabel(q.measures[i], q.table)
                   /\ DOMAIN Metrics(q, own_agg, fs)[i] = {"sql", "label", "scale"}
    BY DEF Metrics, Metric, Map
<1>4. MetricsWithin(Metrics(q, "sum", fs), Y)
    BY <1>3 DEF MetricsWithin, Range
<1>5. ASSUME FormColumns(form) \subseteq Y, form.sort = <<>>
      PROVE  FormColumns(form) \subseteq Y /\ Range(form.sort) \subseteq {m.label : m \in Range(form.metrics)}
    BY <1>5, Tuples
<1>6. ASSUME Range(form.groupby) \subseteq Y, Range(form.x_axis) \subseteq Y,
             Range(form.granularity) \subseteq Y, MetricsWithin(form.metrics, Y)
      PROVE  FormColumns(form) \subseteq Y
    BY <1>6 DEF FormColumns, MetricsWithin
<1>7. CASE c.viz = "big_number"
    <2> DEFINE one == Metric(q.measures[1], q.table, "max", fs)
               scale == IF RuScale(q.measures[1], large) THEN "magnitude"
                        ELSE IF is_percent_measure(q.measures[1]) THEN "percent" ELSE "one"
               metric == [one EXCEPT !.scale = scale]
    <2>1. /\ form.metrics = <<metric>> /\ form.granularity = TemporalAlias(q, fs)
          /\ form.groupby = <<>> /\ form.x_axis = <<>> /\ form.sort = <<>>
        BY <1>7 DEF build_form_data, FormBigNumber, EmptyForm
    <2>2. metric.sql = MetricSql(q.measures[1], "max", fs)
        BY DEF Metric
    <2>3. q.measures[1] \in Range(q.measures)
        <3>1. Len(q.measures) = 1
            BY <1>7 DEF ChartOk, ShapeOk
        <3>2. IsList(q.measures)
            BY <1>0 DEF IsQuery, QueryLists
        <3>3. 1 \in DOMAIN q.measures
            BY <3>1, <3>2, LenProperties DEF IsList
        <3> QED  BY <3>3 DEF Range
    <2> HIDE DEF metric, form
    <2>4. MetricsWithin(<<metric>>, Y)
        BY <2>2, <2>3, Tuples DEF MetricsWithin
    <2> QED  BY <1>5, <1>6, <2>1, <2>4, Tuples DEF form
<1>8. CASE c.viz \in {"pie", "table", "pivot"}
    <2> DEFINE groups == [i \in DOMAIN group_columns(q) |-> dim(group_columns(q)[i])]
    <2>1. /\ form.metrics = Metrics(q, "sum", fs) /\ form.groupby = groups
          /\ form.granularity = <<>> /\ form.x_axis = <<>> /\ form.sort = <<>>
        BY <1>8 DEF build_form_data, FormGrouped, EmptyForm, Map
    <2>2. Range(groups) \subseteq Y
        BY <1>2 DEF Range
    <2> HIDE DEF groups, form
    <2> QED  BY <1>4, <1>5, <1>6, <2>1, <2>2, Tuples DEF form
<1>9. CASE c.viz = "heatmap"
    <2> DEFINE x == dim(q.dimensions[1])
               y == dim(q.dimensions[2])
    <2>1. /\ form.metrics = Metrics(q, "sum", fs) /\ form.groupby = <<y>>
          /\ form.granularity = <<>> /\ form.x_axis = <<x>> /\ form.sort = <<>>
        BY <1>9 DEF build_form_data, FormHeatmap, EmptyForm
    <2>2. x \in Y /\ y \in Y
        <3>1. 1 \in DOMAIN q.dimensions /\ 2 \in DOMAIN q.dimensions
            BY <1>1, <1>9, FirstDimension, LenProperties DEF IsList
        <3>2. q.dimensions[1] \in Range(q.dimensions) /\ q.dimensions[2] \in Range(q.dimensions)
            BY <3>1 DEF Range
        <3> QED  BY <1>1, <3>2
    <2> HIDE DEF x, y, form
    <2> QED  BY <1>4, <1>5, <1>6, <2>1, <2>2, Tuples DEF form
<1>10. CASE c.viz \notin {"big_number", "pie", "table", "pivot", "heatmap"}
    <2> DEFINE x == dim(q.dimensions[1])
               ms == Metrics(q, "sum", fs)
               scale == IF AxisScale(c, large) THEN "magnitude" ELSE "one"
               scaled == [i \in DOMAIN ms |-> [ms[i] EXCEPT !.scale = scale]]
               b == Breakdown(q)
               groups == [i \in DOMAIN b |-> dim(b[i])]
               ordering == OrderingMeasure(q)
               sorted == /\ c.viz \in {"bar", "stacked_bar"}
                         /\ ordering # <<>> /\ Len(q.measures) = 1 /\ b = <<>>
    <2>1. /\ form.metrics = scaled /\ form.groupby = groups
          /\ form.granularity = TemporalAlias(q, fs) /\ form.x_axis = <<x>>
          /\ form.sort = IF sorted THEN <<DisplayLabel(ordering[1], q.table)>> ELSE <<>>
        BY <1>10 DEF build_form_data, FormTimeseries, EmptyForm, Map
    <2>2. q.dimensions # <<>> /\ 1 \in DOMAIN q.dimensions
        BY <1>1, <1>10, FirstDimension, LenProperties DEF IsList
    <2>3. x \in Y
        <3>1. q.dimensions[1] \in Range(q.dimensions)
            BY <2>2 DEF Range
        <3> QED  BY <1>1, <3>1
    <2>4. Range(groups) \subseteq Y
        <3>1. Range(b) \subseteq Range(Roles(q))
            BY <1>0, <1>1, <2>2, BreakdownRange
        <3> HIDE DEF b
        <3> QED  BY <3>1 DEF Range
    <2>5. \A i \in DOMAIN q.measures : /\ scaled[i].sql = MetricSql(q.measures[i], "sum", fs)
                                       /\ scaled[i].label = DisplayLabel(q.measures[i], q.table)
        BY <1>3
    <2>6. DOMAIN scaled = DOMAIN q.measures
        BY <1>3
    <2> HIDE DEF scaled
    <2>7. MetricsWithin(scaled, Y)
        BY <2>5, <2>6 DEF MetricsWithin, Range
    <2>8. ordering # <<>> => ordering[1] \in Range(q.measures)
        <3> DEFINE hit(m) == q.order_by[1].by \in {Bare(m.column), Bare(measure_alias(m))}
                   K == {i \in DOMAIN q.measures : hit(q.measures[i])}
                   hits == At(q.measures, K)
        <3>1. hits = Only(q.measures, LAMBDA m : q.order_by[1].by \in {Bare(m.column), Bare(measure_alias(m))})
            BY DEF Only, At
        <3>2. ordering # <<>> => hits # <<>> /\ ordering = <<hits[1]>>
            BY <3>1 DEF OrderingMeasure
        <3>3. q.measures \in Seq(Range(q.measures))
            BY <1>0 DEF IsQuery, QueryLists, IsList
        <3> HIDE DEF K
        <3>4. hits \in Seq(Range(q.measures))
            BY <3>3, Kept
        <3> HIDE DEF hits
        <3> QED  BY <3>2, <3>4
    <2>9. sorted => DisplayLabel(ordering[1], q.table) \in {m.label : m \in Range(scaled)}
        BY <2>5, <2>6, <2>8 DEF Range
    <2> HIDE DEF x, groups, sorted, ordering, form, b
    <2>10. Range(form.sort) \subseteq {m.label : m \in Range(form.metrics)}
        BY <2>1, <2>9, Tuples
    <2>11. /\ Range(form.groupby) \subseteq Y /\ Range(form.x_axis) \subseteq Y
           /\ Range(form.granularity) \subseteq Y /\ MetricsWithin(form.metrics, Y)
        BY <2>1, <2>3, <2>4, <2>7, Tuples
    <2> QED  BY <1>6, <2>10, <2>11 DEF form
<1> QED  BY <1>7, <1>8, <1>9, <1>10

\* The columns of a mart.
LEMMA MartRange ==
    ASSUME NEW t
    PROVE  IsList(MartColumns(t)) /\ \A n : n \in Range(MartColumns(t)) <=> HasColumn(t, n)
<1> DEFINE cols == Tables[t].columns
<1>1. CASE ~Known(t)
    <2>1. MartColumns(t) = <<>> /\ \A n : ~HasColumn(t, n)
        BY <1>1 DEF MartColumns, HasColumn, Columns
    <2> QED  BY <2>1, Tuples
<1>2. CASE Known(t)
    <2>1. IsList(cols)
        BY <1>2, TablesAssumption DEF Known, SemanticModel
    <2>2. MartColumns(t) = [i \in DOMAIN cols |-> cols[i].name]
        BY <1>2 DEF MartColumns, TheTable, SemanticModel, Map
    <2>3. IsList(MartColumns(t))
        BY <2>1, <2>2, Listing
    <2>4. \A n : HasColumn(t, n) <=> \E i \in DOMAIN cols : cols[i].name = n
        BY <1>2 DEF HasColumn, Columns, TheTable, SemanticModel
    <2> HIDE DEF cols
    <2> QED  BY <2>2, <2>3, <2>4 DEF Range
<1> QED  BY <1>1, <1>2

\* The time column of a chart is one it groups by, or one of its mart.
LEMMA TemporalIs ==
    ASSUME NEW q, IsQuery(q), NEW fs \in BOOLEAN, NEW a \in Range(TemporalAlias(q, fs))
    PROVE  \/ \E r \in Range(Roles(q)) : HasRole(r, q.table, "time") /\ a = r.col
           \/ fs /\ HasColumn(q.table, a) /\ HasRole(Bare(a), q.table, "time")
<1> DEFINE g == group_columns(q)
           n == MartColumns(q.table)
           K == {i \in DOMAIN g : HasRole(g[i], q.table, "time")}
           J == {i \in DOMAIN n : HasRole(Bare(n[i]), q.table, "time")}
           inGrain == At(g, K)
           ofMart == At(n, J)
<1>1. /\ inGrain = Only(g, LAMBDA r : HasRole(r, q.table, "time"))
      /\ ofMart = Only(n, LAMBDA m : HasRole(Bare(m), q.table, "time"))
    BY DEF At, Only
<1>2. TemporalAlias(q, fs) = CASE inGrain # <<>>                              -> <<column_alias(inGrain[1])>>
                               [] inGrain = <<>> /\ fs /\ ofMart # <<>>        -> <<ofMart[1]>>
                               [] OTHER                                       -> <<>>
    BY <1>1 DEF TemporalAlias
<1>3. IsList(g) /\ Range(g) = Range(Roles(q)) /\ IsList(n)
    BY RolesRange, MartRange DEF IsQuery, QueryLists
<1> HIDE DEF K, J
<1>4. /\ inGrain \in Seq(Range(g))
      /\ \A x : x \in Range(inGrain) <=> \E i \in DOMAIN g : i \in K /\ x = g[i]
      /\ ofMart \in Seq(Range(n))
      /\ \A x : x \in Range(ofMart) <=> \E i \in DOMAIN n : i \in J /\ x = n[i]
    BY <1>3, Kept DEF IsList
<1>5. \A s : s # <<>> /\ s \in Seq(Range(s)) => s[1] \in Range(s)
    <2> TAKE s
    <2> HAVE s # <<>> /\ s \in Seq(Range(s))
    <2>1. Len(s) # 0 /\ Len(s) \in Nat /\ DOMAIN s = 1 .. Len(s)
        BY EmptySeq, LenProperties
    <2>2. 1 \in DOMAIN s
        BY <2>1
    <2> QED  BY <2>2 DEF Range
<1>6. inGrain \in Seq(Range(inGrain)) /\ ofMart \in Seq(Range(ofMart)) /\ Range(ofMart) \subseteq Range(n)
    BY <1>4, SeqOfRange, RangeOfSeq
<1> HIDE DEF inGrain, ofMart, g, n
<1>7. CASE inGrain # <<>>
    <2>1. inGrain[1] \in Range(inGrain) /\ a = inGrain[1].col
        BY <1>2, <1>5, <1>6, <1>7, Tuples DEF column_alias
    <2>2. PICK i \in DOMAIN g : i \in K /\ inGrain[1] = g[i]
        BY <1>4, <2>1
    <2>3. HasRole(g[i], q.table, "time") /\ g[i] \in Range(Roles(q))
        BY <1>3, <2>2 DEF K, Range
    <2> QED  BY <2>1, <2>2, <2>3
<1>8. CASE inGrain = <<>>
    <2>1. fs /\ ofMart # <<>> /\ a = ofMart[1]
        BY <1>2, <1>8, Tuples
    <2>2. a \in Range(n) /\ a \in Range(ofMart)
        BY <1>5, <1>6, <2>1
    <2>3. HasRole(Bare(a), q.table, "time")
        BY <1>4, <2>2 DEF J
    <2> QED  BY <2>1, <2>2, <2>3, MartRange DEF n
<1> QED  BY <1>7, <1>8

\* What the joined columns of a source dataset are.
LEMMA JoinedRefs ==
    ASSUME NEW s, IsSpec(s), NEW t
    PROVE  /\ IsList(SourceInputs(s, t).joined_refs)
           /\ \A r : r \in Range(SourceInputs(s, t).joined_refs) <=>
                 \E c \in Range(s.charts) : /\ IsSource(c.query) /\ c.query.table = t
                                           /\ r \in Range(Roles(c.query)) /\ Qualified(r) /\ r.table # t
<1> DEFINE seq == s.charts
           K == {i \in DOMAIN seq : IsSource(seq[i].query) /\ seq[i].query.table = t}
           charts == At(seq, K)
           lists == [i \in DOMAIN charts |-> group_columns(charts[i].query)]
           grouped == FlattenSeq(lists)
           J == {i \in DOMAIN grouped : Qualified(grouped[i]) /\ grouped[i].table # t}
           picked == At(grouped, J)
           S == UNION {Range(lists[i]) : i \in DOMAIN lists}
<1>1. charts = SourceCharts(s, t)
    BY DEF SourceCharts, At, Only
<1>2. SourceInputs(s, t).joined_refs = Distinct(picked)
    BY <1>1 DEF SourceInputs, At, Only, Map
<1>3. seq \in Seq(Range(seq))
    BY DEF IsSpec, IsList
<1> HIDE DEF K
<1>4. /\ charts \in Seq(Range(seq))
      /\ \A x : x \in Range(charts) <=> \E i \in DOMAIN seq : i \in K /\ x = seq[i]
    BY <1>3, Kept
<1> HIDE DEF charts
<1>5. \A x : x \in Range(charts) <=> x \in Range(seq) /\ IsSource(x.query) /\ x.query.table = t
    BY <1>4 DEF K, Range
<1>6. DOMAIN charts = 1 .. Len(charts) /\ Len(charts) \in Nat
    BY <1>4, LenProperties
<1>7. ASSUME NEW i \in DOMAIN charts
      PROVE  IsList(lists[i]) /\ Range(lists[i]) = Range(Roles(charts[i].query))
    <2>1. charts[i] \in Range(seq)
        BY <1>5 DEF Range
    <2>2. IsQuery(charts[i].query)
        BY <2>1 DEF IsSpec, IsChart
    <2> QED  BY <2>2, RolesRange DEF IsQuery, QueryLists
<1>8. \A i \in DOMAIN charts : lists[i] \in Seq(S)
    BY <1>7, SeqMonotonic DEF IsList
<1>9. lists \in Seq(Seq(S)) /\ Len(lists) = Len(charts)
    <2> HIDE DEF S
    <2>1. lists \in [1 .. Len(charts) -> Seq(S)]
        BY <1>6, <1>8
    <2> QED  BY <1>6, <2>1
<1> HIDE DEF lists, S
<1>10. /\ grouped \in Seq(S)
       /\ \A x : x \in Range(grouped) <=> \E i \in 1 .. Len(lists) : x \in Range(lists[i])
    BY <1>9, FlattenRange
<1> HIDE DEF grouped, J
<1>11. /\ picked \in Seq(S)
       /\ \A x : x \in Range(picked) <=> \E i \in DOMAIN grouped : i \in J /\ x = grouped[i]
    BY <1>10, Kept
<1> HIDE DEF picked
<1>12. \A x : x \in Range(picked) <=> x \in Range(grouped) /\ Qualified(x) /\ x.table # t
    BY <1>11 DEF J, Range
<1>13. Distinct(picked) \in Seq(S) /\ Range(Distinct(picked)) = Range(picked)
    BY <1>11, DistinctRange
<1>14. \A x : x \in Range(grouped) <=> \E c \in Range(charts) : x \in Range(Roles(c.query))
    <2>1. \A x : x \in Range(grouped) <=> \E i \in DOMAIN charts : x \in Range(Roles(charts[i].query))
        BY <1>6, <1>7, <1>9, <1>10
    <2>2. \A c : c \in Range(charts) <=> \E i \in DOMAIN charts : c = charts[i]
        BY DEF Range
    <2> QED  BY <2>1, <2>2
<1>15. IsList(Distinct(picked))
    BY <1>13, SeqOfRange DEF IsList
<1> QED  BY <1>2, <1>5, <1>12, <1>13, <1>14, <1>15

\* The statement of a source dataset selects the columns of its mart and the
\* joined ones, each under its own name.
LEMMA SourceItems ==
    ASSUME NEW s, IsSpec(s), NEW t
    PROVE  LET inputs == SourceInputs(s, t)
               items == SourceSql(inputs).items
           IN  /\ Range(Outputs(SourceSql(inputs))) = Aliases(items) /\ IsList(Outputs(SourceSql(inputs)))
               /\ \A n : HasColumn(t, n) => \E i \in Range(items) :
                     i.alias = n /\ \E x \in Range(i.expr.refs) : Qualify(x, t) = Ref(t, n)
               /\ \A r \in Range(inputs.joined_refs) : \E i \in Range(items) :
                     i.alias = source_column_alias(r, t) /\ r \in Range(i.expr.refs)
<1> DEFINE inputs == SourceInputs(s, t)
           mart(n) == ColumnExpr(IF inputs.joins # <<>> THEN Ref(t, n) ELSE Bare(n))
           cols == MartColumns(t)
           refs == inputs.joined_refs
           own == [i \in DOMAIN cols |-> Item(cols[i], mart(cols[i]))]
           joined == [i \in DOMAIN refs |-> Item(source_column_alias(refs[i], t), ColumnExpr(refs[i]))]
           items == own \o joined
<1>1. inputs.table = t /\ inputs.columns = cols
    BY DEF SourceInputs
<1>2. SourceSql(inputs).items = items
    BY <1>1 DEF SourceSql, From, Map
<1>3. IsList(cols) /\ IsList(refs)
    BY MartRange, JoinedRefs
<1>4. IsList(own) /\ IsList(joined)
    BY <1>3, Listing
<1>5. ASSUME NEW n, HasColumn(t, n)
      PROVE  \E i \in Range(own) : i.alias = n /\ \E x \in Range(i.expr.refs) : Qualify(x, t) = Ref(t, n)
    <2>1. PICK j \in DOMAIN cols : cols[j] = n
        BY <1>5, MartRange DEF Range
    <2> DEFINE x == IF inputs.joins # <<>> THEN Ref(t, n) ELSE Bare(n)
    <2>2. own[j].alias = n /\ own[j].expr.refs = <<x>> /\ own[j] \in Range(own)
        BY <2>1 DEF Item, ColumnExpr, Expr, Range
    <2>3. Qualify(x, t) = Ref(t, n)
        BY DEF Qualify, Qualified, Ref, Bare
    <2> HIDE DEF x, own
    <2> QED  BY <2>2, <2>3, Tuples
<1>6. ASSUME NEW r \in Range(refs)
      PROVE  \E i \in Range(joined) : i.alias = source_column_alias(r, t) /\ r \in Range(i.expr.refs)
    <2>1. PICK j \in DOMAIN refs : refs[j] = r
        BY DEF Range
    <2>2. /\ joined[j].alias = source_column_alias(r, t) /\ joined[j].expr.refs = <<r>>
          /\ joined[j] \in Range(joined)
        BY <2>1 DEF Item, ColumnExpr, Expr, Range
    <2> HIDE DEF joined
    <2> QED  BY <2>2, Tuples
<1> HIDE DEF own, joined, refs
<1>7. IsList(items) /\ Range(items) = Range(own) \cup Range(joined)
    BY <1>4, Concatenated
<1>8. Range(Outputs(SourceSql(inputs))) = Aliases(items) /\ IsList(Outputs(SourceSql(inputs)))
    BY <1>2, <1>7, OutputsRange
<1> HIDE DEF items
<1> QED  BY <1>2, <1>5, <1>6, <1>7, <1>8 DEF refs

\* The names a chart of a source dataset uses are outputs of the dataset.
LEMMA SourceNames ==
    ASSUME NEW s, IsSpec(s), NEW c \in Range(s.charts), NEW target, ChartOk(c, target, TRUE),
           IsSource(c.query), NEW Y, Y = Range(Outputs(DatasetOf(s, c)))
    PROVE  /\ \A n : HasColumn(c.query.table, n) => n \in Y
           /\ \A r \in Range(Roles(c.query)) : DimAlias(r, c.query.table, TRUE) \in Y
           /\ \A own_agg : \A m \in Range(c.query.measures) :
                 \A r \in Range(MetricSql(m, own_agg, TRUE).refs) : r.col \in Y
<1> DEFINE q == c.query
           t == q.table
           inputs == SourceInputs(s, t)
           items == SourceSql(inputs).items
<1>1. IsQuery(q) /\ ~IsRaw(q)
    BY DEF IsSpec, IsChart, IsSource
<1>2. DatasetOf(s, c) = SourceSql(inputs)
    BY DEF DatasetOf
<1>3. Y = Aliases(items)
    BY <1>2, SourceItems
<1>4. ASSUME NEW n, HasColumn(t, n) PROVE n \in Y
    BY <1>3, <1>4, SourceItems DEF Aliases
<1>5. ASSUME NEW r \in Range(Roles(q)) PROVE DimAlias(r, t, TRUE) \in Y
    <2>1. RefOk(q, r)
        BY <1>1 DEF ChartOk
    <2>2. CASE ~Qualified(r)
        BY <1>4, <2>1, <2>2 DEF RefOk, DimAlias, source_column_alias
    <2>3. CASE Qualified(r)
        <3>1. r.table # t
            BY <2>1, <2>3 DEF RefOk
        <3>2. r \in Range(inputs.joined_refs)
            BY <2>3, <3>1, JoinedRefs
        <3>3. source_column_alias(r, t) \in Y
            BY <1>3, <3>2, SourceItems DEF Aliases
        <3> QED  BY <3>3 DEF DimAlias
    <2> QED  BY <2>2, <2>3
<1>6. ASSUME NEW m \in Range(q.measures), NEW own_agg, NEW r \in Range(MetricSql(m, own_agg, TRUE).refs)
      PROVE  r.col \in Y
    <2>1. /\ MeasureColOk(q, m.column, m.agg)
          /\ \A d \in Range(m.denominator) : MeasureColOk(q, d.column, d.agg)
        BY <1>1 DEF ChartOk
    <2>2. \A col, agg : MeasureColOk(q, col, agg) => HasColumn(t, col)
        BY DEF MeasureColOk, HasColumn
    <2>3. CASE ~is_ratio_measure(m)
        <3>1. MetricSql(m, own_agg, TRUE).refs = <<Bare(m.column)>>
            BY <2>3 DEF MetricSql, Expr
        <3>2. r = Bare(m.column)
            <4> DEFINE x == Bare(m.column)
            <4> HIDE DEF x
            <4>1. Range(MetricSql(m, own_agg, TRUE).refs) = {x}
                BY <3>1, Tuples DEF x
            <4> QED  BY <4>1 DEF x
        <3> QED  BY <1>4, <2>1, <2>2, <3>2 DEF Bare
    <2>4. CASE is_ratio_measure(m)
        <3> DEFINE d == m.denominator[1]
        <3>1. MetricSql(m, own_agg, TRUE).refs = <<Bare(m.column), Bare(d.column)>>
            BY <2>4 DEF MetricSql, Expr
        <3>2. d \in Range(m.denominator)
            <4>1. IsList(m.denominator) /\ m.denominator # <<>>
                BY <1>1, <2>4 DEF IsQuery, IsMeasure, is_ratio_measure
            <4>2. Len(m.denominator) # 0 /\ Len(m.denominator) \in Nat
                  /\ DOMAIN m.denominator = 1 .. Len(m.denominator)
                BY <4>1, EmptySeq, LenProperties DEF IsList
            <4>3. 1 \in DOMAIN m.denominator
                BY <4>2
            <4> QED  BY <4>3 DEF Range
        <3> HIDE DEF d
        <3>3. r = Bare(m.column) \/ r = Bare(d.column)
            <4> DEFINE x == Bare(m.column)
                       y == Bare(d.column)
            <4> HIDE DEF x, y
            <4>1. Range(MetricSql(m, own_agg, TRUE).refs) = {x, y}
                BY <3>1, Tuples DEF x, y
            <4> QED  BY <4>1 DEF x, y
        <3>4. HasColumn(t, m.column) /\ HasColumn(t, d.column)
            BY <2>1, <2>2, <3>2
        <3> QED  BY <1>4, <3>3, <3>4 DEF Bare
    <2> QED  BY <2>3, <2>4
<1> QED  BY <1>4, <1>5, <1>6

\* A chart with a dataset of its own names what its statement selects.
LEMMA OwnNames ==
    ASSUME NEW c, IsChart(c), NEW target, ChartOk(c, target, TRUE), ~IsRaw(c.query), NEW b \in BOOLEAN,
           NEW Y, Y = Range(Outputs(ChartSql(c.query, b)))
    PROVE  /\ Y = Range(FieldAliases(c.query))
           /\ \A r \in Range(Roles(c.query)) : DimAlias(r, c.query.table, FALSE) \in Y
           /\ \A own_agg : \A m \in Range(c.query.measures) :
                 \A r \in Range(MetricSql(m, own_agg, FALSE).refs) : r.col \in Y
<1> DEFINE q == c.query
<1>1. IsQuery(q)
    BY DEF IsChart
<1>2. Y = Range(FieldAliases(q))
    BY <1>1, ChartItems, OutputsRange, FieldsRange
<1>3. Y = {r.col : r \in Range(Roles(q))} \cup {measure_alias(m) : m \in Range(q.measures)}
    BY <1>1, <1>2, FieldsRange
<1>4. ASSUME NEW r \in Range(Roles(q)) PROVE DimAlias(r, q.table, FALSE) \in Y
    BY <1>3 DEF DimAlias, column_alias
<1>5. ASSUME NEW m \in Range(q.measures), NEW own_agg, NEW r \in Range(MetricSql(m, own_agg, FALSE).refs)
      PROVE  r.col \in Y
    <2>1. MetricSql(m, own_agg, FALSE).refs = <<Bare(measure_alias(m))>>
        BY DEF MetricSql, Expr
    <2>2. r = Bare(measure_alias(m))
        <3> DEFINE x == Bare(measure_alias(m))
        <3> HIDE DEF x
        <3>1. Range(MetricSql(m, own_agg, FALSE).refs) = {x}
            BY <2>1, Tuples DEF x
        <3> QED  BY <3>1 DEF x
    <2> QED  BY <1>3, <2>2 DEF Bare
<1> QED  BY <1>2, <1>4, <1>5

\* What a form has to be, for its chart to be bound to its dataset.
LEMMA HoldsWhen ==
    ASSUME NEW c, NEW form, TheBuild.charts[c.id] = form,
           \/ form.raw = TRUE
           \/ /\ IsSource(c.query)
              /\ \E r \in Range(group_columns(c.query)) : Qualified(r) /\ HasRole(r, c.query.table, "time")
           \/ /\ FormColumns(form) \subseteq Range(Outputs(Dataset(c.id)))
              /\ Range(form.sort) \subseteq {m.label : m \in Range(form.metrics)}
    PROVE  FormHolds(c)
BY DEF FormHolds

\* The chart of a build names columns of its dataset.
LEMMA BuildBinds == GateInv => ChartsBindDataset
<1> SUFFICES ASSUME GateInv, IsBuilt, NEW c \in Range(spec.charts)
             PROVE  IF OnSuperset THEN FormHolds(c)
                    ELSE /\ Bound(TheBuild.charts[c.id]) \subseteq Range(FieldAliases(c.query))
                         /\ Range(FieldAliases(c.query)) \subseteq Range(Outputs(Dataset(c.id)))
    BY DEF ChartsBindDataset
<1> DEFINE q == c.query
<1>1. IsSpec(spec) /\ Valid(spec, TRUE)
    BY DEF GateInv, IsBuilt, Passing
<1>2. PICK large \in BOOLEAN : built = <<Compiled(spec, trials, large)>>
    BY DEF GateInv, IsBuilt
<1>3. ChartOf(spec, c.id) = c /\ IsChart(c) /\ IsQuery(q) /\ ChartOk(c, spec.target_bi, TRUE)
    BY <1>1, ChartIs DEF IsSpec, IsChart, Valid
<1>4. CASE OnSuperset
    <2> DEFINE form == build_form_data(c, large)
               Y == Range(Outputs(Dataset(c.id)))
    <2>1. TheBuild.charts[c.id] = form /\ Dataset(c.id) = DatasetOf(spec, c)
        BY <1>2, <1>3, <1>4 DEF OnSuperset, TheBuild, Dataset, Compiled, SupersetBuild
    <2>0. \/ form.raw = TRUE
          \/ IsSource(q) /\ \E r \in Range(group_columns(q)) : Qualified(r) /\ HasRole(r, q.table, "time")
          \/ /\ FormColumns(form) \subseteq Y
             /\ Range(form.sort) \subseteq {m.label : m \in Range(form.metrics)}
          => FormHolds(c)
        BY <2>1, HoldsWhen
    <2>2. CASE IsRaw(q)
        <3>1. form.raw = TRUE
            BY <2>2 DEF build_form_data, FormRaw, EmptyForm
        <3> QED  BY <1>4, <2>0, <3>1
    <2>3. CASE ~IsRaw(q) /\ ~IsSource(q)
        <3> DEFINE b == c.id \notin participating_chart_ids(spec)
        <3>1. Dataset(c.id) = ChartSql(q, b) /\ b \in BOOLEAN
            BY <2>1, <2>3 DEF DatasetOf
        <3> HIDE DEF b, Y
        <3>2. Y = Range(Outputs(ChartSql(q, b)))
            BY <3>1 DEF Y
        <3>3. /\ \A r \in Range(Roles(q)) : DimAlias(r, q.table, FALSE) \in Y
              /\ \A own_agg : \A m \in Range(q.measures) :
                    \A r \in Range(MetricSql(m, own_agg, FALSE).refs) : r.col \in Y
            BY <1>3, <2>3, <3>1, <3>2, OwnNames
        <3>4. Range(TemporalAlias(q, FALSE)) \subseteq Y
            <4>1. ASSUME NEW a \in Range(TemporalAlias(q, FALSE)) PROVE a \in Y
                <5>1. PICK r \in Range(Roles(q)) : a = r.col
                    BY <1>3, TemporalIs
                <5> QED  BY <3>3, <5>1 DEF DimAlias, column_alias
            <4> QED  BY <4>1
        <3>5. IsSource(q) = FALSE
            BY <2>3 DEF IsSource
        <3> HIDE DEF form
        <3>6. FormColumns(form) \subseteq Y /\ Range(form.sort) \subseteq {m.label : m \in Range(form.metrics)}
            BY <1>3, <2>3, <3>3, <3>4, <3>5, FormWithin DEF form
        <3> HIDE DEF q
        <3> QED  BY <1>4, <2>0, <3>6
    <2>4. CASE IsSource(q)
        <3>1. IsSource(q) = TRUE /\ ~IsRaw(q)
            BY <2>4 DEF IsSource
        <3> SUFFICES ASSUME ~\E r \in Range(group_columns(q)) : Qualified(r) /\ HasRole(r, q.table, "time")
                     PROVE  /\ FormColumns(form) \subseteq Y
                            /\ Range(form.sort) \subseteq {m.label : m \in Range(form.metrics)}
            BY <1>4, <2>0, <3>1
        <3> HIDE DEF Y
        <3>2. Y = Range(Outputs(DatasetOf(spec, c)))
            BY <2>1 DEF Y
        <3>3. /\ \A n : HasColumn(q.table, n) => n \in Y
              /\ \A r \in Range(Roles(q)) : DimAlias(r, q.table, TRUE) \in Y
              /\ \A own_agg : \A m \in Range(q.measures) :
                    \A r \in Range(MetricSql(m, own_agg, TRUE).refs) : r.col \in Y
            BY <1>1, <1>3, <2>4, <3>2, SourceNames
        <3>4. Range(TemporalAlias(q, TRUE)) \subseteq Y
            <4>1. Range(group_columns(q)) = Range(Roles(q))
                BY <1>3, RolesRange DEF IsQuery, QueryLists
            <4>2. ASSUME NEW a \in Range(TemporalAlias(q, TRUE)) PROVE a \in Y
                <5>1. CASE HasColumn(q.table, a)
                    BY <3>3, <5>1
                <5>2. CASE \E r \in Range(Roles(q)) : HasRole(r, q.table, "time") /\ a = r.col
                    <6>1. PICK r \in Range(Roles(q)) : HasRole(r, q.table, "time") /\ a = r.col
                        BY <5>2
                    <6>2. ~Qualified(r)
                        BY <4>1, <6>1
                    <6>3. DimAlias(r, q.table, TRUE) = r.col
                        BY <6>2 DEF DimAlias, source_column_alias
                    <6> QED  BY <3>3, <6>1, <6>3
                <5> QED  BY <1>3, <5>1, <5>2, TemporalIs
            <4> QED  BY <4>2
        <3> HIDE DEF form
        <3> QED  BY <1>3, <3>1, <3>3, <3>4, FormWithin DEF form
    <2> QED  BY <1>4, <2>2, <2>3, <2>4
<1>5. CASE ~OnSuperset
    <2> DEFINE sql == ChartSql(q, c.id \notin selector_scope_chart_ids(spec))
    <2>1. TheBuild.charts[c.id] = build_chart_shared(c, large)
        BY <1>2, <1>3, <1>5 DEF OnSuperset, TheBuild, Compiled, DataLensBuild
    <2>2. Dataset(c.id) = IF Scaled(c, large) THEN ScaleMeasures(sql, q) ELSE sql
        BY <1>2, <1>3, <1>5 DEF OnSuperset, TheBuild, Dataset, Compiled, DataLensBuild
    <2>3. ~IsRaw(q)
        BY <1>3, <1>5 DEF ChartOk, RawChartOk, OnSuperset
    <2>4. Bound(TheBuild.charts[c.id]) \subseteq Range(FieldAliases(q))
        BY <1>3, <2>1, <2>3, ConfigBinds
    <2>5. Range(Outputs(sql)) = Range(FieldAliases(q))
        BY <1>3, <2>3, OwnNames
    <2> HIDE DEF sql
    <2>6. Range(Outputs(ScaleMeasures(sql, q))) = Range(FieldAliases(q))
        BY <1>3, ScaledOutputs, FieldsRange
    <2>7. Range(FieldAliases(q)) \subseteq Range(Outputs(Dataset(c.id)))
        BY <2>2, <2>5, <2>6
    <2> QED  BY <1>5, <2>4, <2>7
<1> QED  BY <1>4, <1>5

\* Every dataset column the parameters of a chart name is an output of the
\* dataset the chart is bound to, on both targets (form_data.py,
\* chart_config.py, dataset_plan.py).
THEOREM ChartsBound == Spec => []ChartsBindDataset
BY Gated, BuildBinds, PTL

-----------------------------------------------------------------------------
(* What a control names, and the scope the preview showed. *)

\* The name of a control on the source dataset of the one mart there is.
LEMMA BindingAlias ==
    ASSUME NEW s, IsSpec(s), NEW f, NEW c \in Range(s.charts), IsSource(c.query),
           source_exposes_column(s, c.query.table, f.column), Len(source_tables(s)) <= 1
    PROVE  filter_binding_alias(s, f) = source_column_alias(f.column, c.query.table)
<1> DEFINE seq == s.charts
           K == {i \in DOMAIN seq : /\ IsSource(seq[i].query)
                                    /\ source_exposes_column(s, seq[i].query.table, f.column)}
           takers == At(seq, K)
           tables == source_tables(s)
<1>1. seq \in Seq(Range(seq))
    BY DEF IsSpec, IsList
<1>2. takers = Only(seq, LAMBDA x : IsSource(x.query) /\ source_exposes_column(s, x.query.table, f.column))
    BY DEF At, Only
<1>3. filter_binding_alias(s, f) = IF takers = <<>> THEN column_alias(f.column)
                                   ELSE source_column_alias(f.column, takers[1].query.table)
    BY <1>2 DEF filter_binding_alias
<1>4. PICK i \in DOMAIN seq : seq[i] = c
    BY DEF Range
<1>5. K \subseteq DOMAIN seq /\ i \in K
    BY <1>4
<1> HIDE DEF K
<1>6. PICK k \in K : takers # <<>> /\ takers[1] = seq[k]
    BY <1>1, <1>5, FirstKept
<1>7. /\ IsSource(seq[k].query) /\ seq[k] \in Range(seq)
    BY <1>5 DEF K, Range
<1>8. IsList(tables) /\ c.query.table \in Range(tables) /\ seq[k].query.table \in Range(tables)
    BY <1>7, SourceTables
<1> HIDE DEF tables
<1>9. Len(tables) \in Nat /\ DOMAIN tables = 1 .. Len(tables) /\ Len(tables) <= 1
    BY <1>8, LenProperties DEF tables, IsList
<1>10. \A j1, j2 \in DOMAIN tables : j1 = j2
    BY <1>9
<1>11. seq[k].query.table = c.query.table
    BY <1>8, <1>10 DEF Range
<1> QED  BY <1>3, <1>6, <1>11

\* Where a source dataset shows the column of a control.
LEMMA ExposedItem ==
    ASSUME NEW s, IsSpec(s), NEW t, NEW col, IsRef(col), Qualified(col), source_exposes_column(s, t, col)
    PROVE  LET stmt == SourceSql(SourceInputs(s, t))
           IN  /\ source_column_alias(col, t) \in Range(Outputs(stmt))
               /\ IsList(Outputs(stmt))
               /\ \E i \in Range(stmt.items) :
                     /\ i.alias = source_column_alias(col, t)
                     /\ \E x \in Range(i.expr.refs) : Qualify(x, t) = col
<1> DEFINE inputs == SourceInputs(s, t)
           stmt == SourceSql(inputs)
<1>0. inputs.columns = MartColumns(t)
    BY DEF SourceInputs
<1>1. IsList(inputs.columns) /\ IsList(inputs.joined_refs)
    BY <1>0, MartRange, JoinedRefs
<1>2. /\ Range(Outputs(stmt)) = Aliases(stmt.items) /\ IsList(Outputs(stmt))
      /\ \A n : HasColumn(t, n) => \E i \in Range(stmt.items) :
            i.alias = n /\ \E x \in Range(i.expr.refs) : Qualify(x, t) = Ref(t, n)
      /\ \A r \in Range(inputs.joined_refs) : \E i \in Range(stmt.items) :
            i.alias = source_column_alias(r, t) /\ r \in Range(i.expr.refs)
    BY SourceItems
<1>3. \/ col.table = t /\ Contains(inputs.columns, col.col)
      \/ Contains(inputs.joined_refs, col)
    BY DEF source_exposes_column
<1> HIDE DEF inputs
<1>4. \E i \in Range(stmt.items) :
         /\ i.alias = source_column_alias(col, t)
         /\ \E x \in Range(i.expr.refs) : Qualify(x, t) = col
    <2>1. CASE col.table = t /\ Contains(inputs.columns, col.col)
        <3>1. HasColumn(t, col.col)
            BY <1>0, <1>1, <2>1, ContainsRange, MartRange
        <3>2. Ref(t, col.col) = col /\ source_column_alias(col, t) = col.col
            BY <2>1 DEF IsRef, source_column_alias
        <3> QED  BY <1>2, <3>1, <3>2
    <2>2. CASE Contains(inputs.joined_refs, col)
        <3>1. col \in Range(inputs.joined_refs)
            BY <1>1, <2>2, ContainsRange
        <3>2. Qualify(col, t) = col
            BY DEF Qualify
        <3> QED  BY <1>2, <3>1, <3>2
    <2> QED  BY <1>3, <2>1, <2>2
<1>5. source_column_alias(col, t) \in Range(Outputs(stmt))
    BY <1>2, <1>4 DEF Aliases
<1> QED  BY <1>2, <1>4, <1>5 DEF inputs

\* The statement of an operator carries what it returns (RawSql).
LEMMA RawItems ==
    ASSUME NEW q, IsQuery(q), q.series = <<>>, q.rows = <<>>, q.columns = <<>>
    PROVE  /\ IsList(RawSql(q).items)
           /\ Carries(Grouped(RawSql(q)).items, q)
           /\ \A r \in Range(Roles(q)) : r.col \in Aliases(RawSql(q).items)
<1> DEFINE items == [i \in DOMAIN q.dimensions |-> Item(column_alias(q.dimensions[i]), ColumnExpr(q.dimensions[i]))]
<1>1. RawSql(q).items = items /\ Grouped(RawSql(q)).items = items
    BY DEF RawSql, From, Map, Grouped
<1>2. IsList(q.dimensions)
    BY DEF IsQuery, QueryLists
<1>3. IsList(items)
    BY <1>2, Listing
<1>4. Range(Roles(q)) = Range(q.dimensions)
    <2>1. Range(q.series) = {} /\ Range(q.rows) = {} /\ Range(q.columns) = {}
        BY DEF Range
    <2> QED  BY <2>1, RolesRange DEF IsQuery, QueryLists
<1>5. ASSUME NEW r \in Range(Roles(q))
      PROVE  \E i \in Range(items) :
                i.alias = r.col /\ \E x \in Range(i.expr.refs) : Qualify(x, q.table) = Qualify(r, q.table)
    <2>1. PICK j \in DOMAIN q.dimensions : q.dimensions[j] = r
        BY <1>4 DEF Range
    <2>2. items[j].alias = r.col /\ items[j].expr.refs = <<r>> /\ items[j] \in Range(items)
        BY <2>1 DEF Item, ColumnExpr, Expr, column_alias, Range
    <2> HIDE DEF items
    <2> QED  BY <2>2, Tuples
<1> HIDE DEF items
<1> QED  BY <1>1, <1>3, <1>5 DEF Carries, Aliases

\* The one name of a filter is, in every dataset of its scope, the column the
\* filter was asked for.
LEMMA BindingNames ==
    ASSUME GateInv, IsBuilt, OnSuperset, Len(source_tables(spec)) <= 1,
           NEW f \in Range(spec.filters), NEW c \in Range(spec.charts), chart_accepts_filter(c, f, spec)
    PROVE  NamesColumn(filter_binding_alias(spec, f), c.id, f.column)
<1>1. IsSpec(spec) /\ Valid(spec, TRUE)
    BY DEF GateInv, IsBuilt, Passing
<1>2. PICK large \in BOOLEAN : built = <<Compiled(spec, trials, large)>>
    BY DEF GateInv, IsBuilt
<1> DEFINE q == c.query
           t == q.table
           id == c.id
           name == filter_binding_alias(spec, f)
<1>7. ChartOf(spec, id) = c /\ IsChart(c) /\ IsQuery(q) /\ ChartOk(c, spec.target_bi, TRUE)
    BY <1>1, ChartIs DEF IsSpec, IsChart, Valid
<1>8. IsRef(f.column) /\ Qualified(f.column)
    BY <1>1 DEF IsSpec, Valid
<1>9. Dataset(id) = DatasetOf(spec, c)
    BY <1>2, <1>7 DEF OnSuperset, TheBuild, Dataset, Compiled, SupersetBuild
<1>10. SUFFICES /\ IsList(Outputs(Dataset(id))) /\ name \in Range(Outputs(Dataset(id)))
                /\ \E i \in Range(Grouped(Dataset(id)).items) :
                      i.alias = name /\ \E r \in Range(i.expr.refs) : Qualify(r, t) = f.column
    BY <1>7, ContainsRange DEF NamesColumn
<1> HIDE DEF id
<1>11. CASE IsSource(q)
    <2> DEFINE stmt == SourceSql(SourceInputs(spec, t))
    <2>1. source_exposes_column(spec, t, f.column)
        BY <1>11 DEF chart_accepts_filter
    <2>2. name = source_column_alias(f.column, t)
        BY <1>1, <1>11, <2>1, BindingAlias
    <2>3. Dataset(id) = stmt
        BY <1>9, <1>11 DEF DatasetOf
    <2>4. Grouped(stmt) = stmt
        BY DEF Grouped, SourceSql, From
    <2> HIDE DEF stmt
    <2>5. /\ source_column_alias(f.column, t) \in Range(Outputs(stmt)) /\ IsList(Outputs(stmt))
          /\ \E i \in Range(stmt.items) :
                /\ i.alias = source_column_alias(f.column, t)
                /\ \E x \in Range(i.expr.refs) : Qualify(x, t) = f.column
        BY <1>1, <1>8, <2>1, ExposedItem DEF stmt
    <2> QED  BY <2>2, <2>3, <2>4, <2>5
<1>12. CASE ~IsSource(q)
    <2>1. /\ grain_exposes_column(c, f.column) /\ name = f.column.col
        BY <1>12 DEF chart_accepts_filter, column_alias
    <2>2. PICK r \in Range(Roles(q)) : Qualify(r, t) = f.column
        <3>1. Range(group_columns(q)) = Range(Roles(q))
            BY <1>7, RolesRange DEF IsQuery, QueryLists
        <3>2. Qualify(f.column, t) = f.column
            BY <1>8 DEF Qualify
        <3> QED  BY <2>1, <3>1, <3>2 DEF grain_exposes_column
    <2>3. r.col = name
        BY <2>1, <2>2 DEF Qualify, Ref
    <2> DEFINE b == c.id \notin participating_chart_ids(spec)
               stmt == ChartSql(q, b)
    <2>4. Dataset(id) = stmt /\ b \in BOOLEAN
        BY <1>9, <1>12 DEF DatasetOf
    <2> HIDE DEF b
    <2>5. /\ IsList(stmt.items)
          /\ r.col \in Aliases(stmt.items)
          /\ Carries(Grouped(stmt).items, q)
        <3>1. CASE IsRaw(q)
            <4>1. q.series = <<>> /\ q.rows = <<>> /\ q.columns = <<>>
                BY <1>7, <3>1 DEF ChartOk, RawChartOk
            <4>2. stmt = RawSql(q)
                BY <3>1 DEF ChartSql
            <4> QED  BY <1>7, <2>2, <4>1, <4>2, RawItems
        <3>2. CASE ~IsRaw(q)
            <4> HIDE DEF stmt
            <4>1. /\ IsList(stmt.items)
                  /\ Aliases(stmt.items) = Range(GroupAliases(q)) \cup Range(MeasureAliases(q))
                  /\ Carries(Grouped(stmt).items, q)
                BY <1>7, <2>4, <3>2, ChartItems DEF stmt
            <4> QED  BY <1>7, <2>2, <4>1, FieldsRange
        <3> QED  BY <3>1, <3>2
    <2> HIDE DEF stmt
    <2>7. IsList(Outputs(stmt)) /\ name \in Range(Outputs(stmt))
        BY <2>3, <2>5, OutputsRange
    <2>8. \E i \in Range(Grouped(stmt).items) :
             i.alias = name /\ \E x \in Range(i.expr.refs) : Qualify(x, t) = f.column
        BY <2>2, <2>3, <2>5 DEF Carries
    <2> QED  BY <2>4, <2>7, <2>8
<1> QED  BY <1>11, <1>12

\* The granularity of a chart is its time column, or none (form_data.py).
LEMMA FormTime ==
    ASSUME NEW c, NEW large
    PROVE  LET time == TemporalAlias(c.query, IsSource(c.query))
           IN  build_form_data(c, large).granularity \in {<<>>, time}
<1> DEFINE q == c.query
           fs == IsSource(q)
           form == build_form_data(c, large)
           time == TemporalAlias(q, fs)
<1>1. CASE IsRaw(q)
    <2>1. form.granularity = <<>>
        BY <1>1 DEF build_form_data, FormRaw, EmptyForm
    <2> QED  BY <2>1
<1>2. CASE ~IsRaw(q) /\ c.viz = "big_number"
    <2>1. form.granularity = time
        BY <1>2 DEF build_form_data, FormBigNumber, EmptyForm
    <2> QED  BY <2>1
<1>3. CASE ~IsRaw(q) /\ c.viz \in {"pie", "table", "pivot"}
    <2>1. form.granularity = <<>>
        BY <1>3 DEF build_form_data, FormGrouped, EmptyForm
    <2> QED  BY <2>1
<1>4. CASE ~IsRaw(q) /\ c.viz = "heatmap"
    <2>1. form.granularity = <<>>
        BY <1>4 DEF build_form_data, FormHeatmap, EmptyForm
    <2> QED  BY <2>1
<1>5. CASE ~IsRaw(q) /\ c.viz \notin {"big_number", "pie", "table", "pivot", "heatmap"}
    <2>1. form.granularity = time
        BY <1>5 DEF build_form_data, FormTimeseries, EmptyForm
    <2> QED  BY <2>1
<1> QED  BY <1>1, <1>2, <1>3, <1>4, <1>5

\* A chart that can reach no other time column than the one a filter of its
\* scope was asked for has that one as its granularity, under the name of the
\* filter.
LEMMA PeriodNames ==
    ASSUME GateInv, IsBuilt, OnSuperset, Len(source_tables(spec)) <= 1,
           NEW f \in Range(spec.filters), NEW c \in Range(spec.charts), chart_accepts_filter(c, f, spec),
           OnlyTime(c.query, f.column), NEW name \in Range(TheBuild.charts[c.id].granularity)
    PROVE  NamesColumn(name, c.id, f.column)
<1> DEFINE q == c.query
           t == q.table
           fs == IsSource(q)
<1>1. IsSpec(spec) /\ Valid(spec, TRUE) /\ IsQuery(q)
    BY DEF GateInv, IsBuilt, Passing, IsSpec, IsChart
<1>2. PICK large \in BOOLEAN : built = <<Compiled(spec, trials, large)>>
    BY DEF GateInv, IsBuilt
<1>3. TheBuild.charts[c.id] = build_form_data(c, large)
    <2>1. ChartOf(spec, c.id) = c
        BY <1>1, ChartIs DEF IsSpec
    <2> QED  BY <1>2, <2>1 DEF OnSuperset, TheBuild, Compiled, SupersetBuild
<1>4. name \in Range(TemporalAlias(q, fs))
    BY <1>3, FormTime, Tuples
<1>5. fs \in BOOLEAN
    BY DEF IsSource
<1>6. Range(group_columns(q)) = Range(Roles(q))
    BY <1>1, RolesRange DEF IsQuery, QueryLists
<1>7. name = f.column.col
    <2>1. CASE \E r \in Range(Roles(q)) : HasRole(r, t, "time") /\ name = r.col
        <3>1. PICK r \in Range(Roles(q)) : HasRole(r, t, "time") /\ name = r.col
            BY <2>1
        <3>2. Qualify(r, t) = f.column
            BY <1>6, <3>1 DEF OnlyTime, TimesOf
        <3> QED  BY <3>1, <3>2 DEF Qualify, Ref
    <2>2. CASE fs /\ HasColumn(t, name) /\ HasRole(Bare(name), t, "time")
        <3>1. name \in Range(MartColumns(t))
            BY <2>2, MartRange
        <3>2. Ref(t, name) = f.column
            BY <2>2, <3>1 DEF OnlyTime, TimesOf
        <3> QED  BY <3>2 DEF Ref
    <2> QED  BY <1>1, <1>4, <1>5, <2>1, <2>2, TemporalIs
<1>8. filter_binding_alias(spec, f) = f.column.col
    <2>1. CASE fs
        <3>1. source_exposes_column(spec, t, f.column) /\ f.column.table = t
            BY <2>1 DEF chart_accepts_filter, OnlyTime
        <3>2. filter_binding_alias(spec, f) = source_column_alias(f.column, t)
            BY <1>1, <2>1, <3>1, BindingAlias
        <3> QED  BY <3>1, <3>2 DEF source_column_alias
    <2>2. CASE ~fs
        BY <2>2 DEF chart_accepts_filter, column_alias
    <2> QED  BY <2>1, <2>2
<1> QED  BY <1>7, <1>8, BindingNames

\* A control of Superset moves every chart of its scope by the column it was
\* asked for, a period where that is the one time column of the chart.
LEMMA ControlMoves ==
    ASSUME GateInv, IsBuilt, OnSuperset, Len(source_tables(spec)) <= 1,
           NEW k \in Range(TheBuild.controls), NEW id \in k.scope
    PROVE  MovesColumn(k, id)
<1>1. IsSpec(spec) /\ Valid(spec, TRUE)
    BY DEF GateInv, IsBuilt, Passing
<1>2. PICK large \in BOOLEAN : built = <<Compiled(spec, trials, large)>>
    BY DEF GateInv, IsBuilt
<1>3. TheBuild.controls = native_filter_configuration(spec)
    BY <1>2 DEF OnSuperset, TheBuild, Compiled, SupersetBuild
<1>4. PICK f \in Range(spec.filters) : k = NativeFilter(spec, f)
    BY <1>1, <1>3, SupersetControls
<1>5. /\ k.column = f.column /\ k.scope = ScopeOf(f, spec)
      /\ k.kind = "select" => k.target = <<filter_binding_alias(spec, f)>>
    BY <1>4 DEF NativeFilter
<1>6. PICK c \in Range(spec.charts) : c.id = id /\ chart_accepts_filter(c, f, spec)
    BY <1>5 DEF ScopeOf
<1>7. ChartOf(spec, id) = c
    <2>1. ChartOf(spec, c.id) = c
        BY <1>1, <1>6, ChartIs DEF IsSpec
    <2> QED  BY <1>6, <2>1
<1>8. CASE k.kind = "select"
    <2>1. NamesColumn(filter_binding_alias(spec, f), c.id, f.column)
        BY <1>6, BindingNames
    <2>2. Range(k.target) = {filter_binding_alias(spec, f)}
        BY <1>5, <1>8, Tuples
    <2>3. \A name \in Range(k.target) : NamesColumn(name, id, k.column)
        BY <1>5, <1>6, <2>1, <2>2
    <2> QED  BY <1>8, <2>3 DEF MovesColumn
<1>9. CASE k.kind # "select"
    <2>1. ASSUME OnlyTime(c.query, k.column), NEW name \in Range(TheBuild.charts[id].granularity)
          PROVE  NamesColumn(name, id, k.column)
        BY <1>5, <1>6, <2>1, PeriodNames
    <2> QED  BY <1>7, <1>9, <2>1 DEF MovesColumn
<1> QED  BY <1>8, <1>9

\* Two charts a filter cannot tell apart.
Alike(c, d) ==
    /\ c.id = d.id /\ c.query.table = d.query.table
    /\ Roles(c.query) = Roles(d.query)
    /\ IsSource(c.query) = IsSource(d.query)

\* A top-N default changes nothing a filter looks at (normalize.py).
LEMMA TopNAlike ==
    ASSUME NEW c, IsChart(c)
    PROVE  Alike(c, TopN(c)) /\ TopN(c).query.joins = c.query.joins
<1> DEFINE q == c.query
           primary == q.measures[1]
           cap == IF c.viz = "pie" THEN PieTopN ELSE DefaultTopN
           order == <<[by |-> Bare(measure_alias(primary)), desc |-> primary.transform # "running_share"]>>
           limit == Smaller(q.limit, cap)
           query == [q EXCEPT !.order_by = order, !.limit = limit]
           topped == [c EXCEPT !.query = query]
<1>1. TopN(c) = IF ~NeedsTopN(c) THEN c ELSE topped
    BY DEF TopN
<1>2. QueryLists \cup {"table", "bins", "raw"} \subseteq DOMAIN q
    BY DEF IsChart, IsQuery
<1> HIDE DEF order, limit
<1>3. /\ query.table = q.table /\ query.dimensions = q.dimensions /\ query.series = q.series
      /\ query.rows = q.rows /\ query.columns = q.columns /\ query.measures = q.measures
      /\ query.joins = q.joins /\ query.bins = q.bins /\ query.raw = q.raw
    BY <1>2 DEF QueryLists
<1> HIDE DEF query
<1>4. Roles(query) = Roles(q) /\ IsSource(query) = IsSource(q)
    BY <1>3 DEF Roles, IsSource, IsRaw
<1>5. topped.id = c.id /\ topped.query = query
    BY DEF IsChart
<1> HIDE DEF topped
<1>6. CASE NeedsTopN(c)
    <2>1. TopN(c) = topped
        BY <1>1, <1>6
    <2> QED  BY <1>3, <1>4, <1>5, <2>1 DEF Alike
<1>7. CASE ~NeedsTopN(c)
    <2>1. TopN(c) = c
        BY <1>1, <1>7
    <2> QED  BY <2>1 DEF Alike
<1> QED  BY <1>6, <1>7

\* A chart whose columns label joins replaced has a join (normalize.py).
LEMMA Unjoined ==
    ASSUME NEW c, IsChart(c), LabelJoins(c).query.joins = <<>>
    PROVE  LabelJoins(c) = c
<1> DEFINE q == c.query
           g == group_columns(q)
           found == [r \in Range(Roles(q)) |-> LabelJoinFor(r, q.table)]
           swap(r) == IF r \in DOMAIN found /\ found[r] # <<>> THEN found[r][1].label ELSE r
           roles == [n \in {"dimensions", "series", "rows", "columns"} |-> Map(swap, q[n])]
           grouped == Distinct(roles.dimensions \o roles.series \o roles.rows \o roles.columns)
           K == {i \in DOMAIN g : found[g[i]] # <<>>}
           swapped == Only(g, LAMBDA r : found[r] # <<>>)
           edge(j) == {j.on_left, j.on_right}
           joins == [i \in DOMAIN swapped |-> found[swapped[i]][1].join]
           J == {i \in DOMAIN joins : \A x \in Range(q.joins) : edge(x) # edge(joins[i])}
           added == Only(joins, LAMBDA j : \A x \in Range(q.joins) : edge(x) # edge(j))
           order == Map(LAMBDA o : [o EXCEPT !.by = swap(o.by)], q.order_by)
           query == [q EXCEPT !.dimensions = roles.dimensions, !.series = roles.series,
                              !.rows = roles.rows, !.columns = roles.columns,
                              !.joins = Distinct(q.joins) \o added, !.order_by = order]
<1>1. swapped = At(g, K)
    BY DEF Only, At
<1>2. added = At(joins, J)
    <2> HIDE DEF joins
    <2> QED  BY DEF Only, At
<1>3. \/ LabelJoins(c) = c
      \/ LabelJoins(c) = [c EXCEPT !.query = query] /\ swapped # <<>>
    BY DEF LabelJoins, Relabelled, Map
<1>4. SUFFICES ASSUME LabelJoins(c) = [c EXCEPT !.query = query], swapped # <<>>
               PROVE  FALSE
    BY <1>3
<1>5. /\ QueryLists \subseteq DOMAIN q
      /\ IsList(q.joins) /\ IsList(g)
    BY RolesRange DEF IsChart, IsQuery, QueryLists
<1>6. Distinct(q.joins) \o added = <<>>
    <2> HIDE DEF roles, order, added
    <2>1. query.joins = Distinct(q.joins) \o added
        BY <1>5 DEF QueryLists
    <2> HIDE DEF query
    <2>2. [c EXCEPT !.query = query].query = query
        BY DEF IsChart
    <2> QED  BY <1>4, <2>1, <2>2
<1> HIDE DEF K
<1>7. IsList(swapped)
    BY <1>1, <1>5, Kept, SeqOfRange DEF IsList
<1> HIDE DEF swapped, found
<1>8. IsList(joins) /\ DOMAIN joins = DOMAIN swapped
    BY <1>7, Listing
<1>9. DOMAIN joins # {}
    <2>1. Len(swapped) \in Nat /\ Len(swapped) # 0 /\ DOMAIN swapped = 1 .. Len(swapped)
        BY <1>4, <1>7, EmptySeq, LenProperties DEF IsList
    <2>2. 1 \in DOMAIN swapped
        BY <2>1
    <2> QED  BY <1>8, <2>2
<1> HIDE DEF joins
<1>10. /\ IsList(added)
       /\ \A x : x \in Range(added) <=> \E i \in DOMAIN joins : i \in J /\ x = joins[i]
    <2> HIDE DEF J, added
    <2>1. joins \in Seq(Range(joins))
        BY <1>8 DEF IsList
    <2> QED  BY <1>2, <2>1, Kept, SeqOfRange DEF IsList
<1>11. IsList(Distinct(q.joins)) /\ Range(Distinct(q.joins)) = Range(q.joins)
    BY <1>5, DistinctRange, SeqOfRange DEF IsList
<1> HIDE DEF added
<1>12. Range(q.joins) \cup Range(added) = {}
    <2> DEFINE all == Distinct(q.joins) \o added
    <2>1. Range(all) = Range(q.joins) \cup Range(added)
        BY <1>10, <1>11, Concatenated
    <2> HIDE DEF all
    <2> QED  BY <1>6, <2>1, Tuples DEF all
<1>13. \A i \in DOMAIN joins : joins[i] \in Range(added)
    BY <1>10, <1>12 DEF J
<1> QED  BY <1>9, <1>12, <1>13

\* Charts a filter cannot tell apart make scopes no filter can tell apart.
LEMMA SameScope ==
    ASSUME NEW s, NEW u, IsSpec(s), IsSpec(u), DOMAIN s.charts = DOMAIN u.charts,
           \A i \in DOMAIN s.charts : Alike(s.charts[i], u.charts[i]), NEW f
    PROVE  ScopeOf(f, s) = ScopeOf(f, u)
<1> DEFINE dom == DOMAIN s.charts
           col == f.column
           here(x, i) == x.charts[i].query.table
<1>1. ASSUME NEW t PROVE source_exposes_column(s, t, col) = source_exposes_column(u, t, col)
    <2>0. ASSUME NEW x, IsSpec(x)
          PROVE  /\ IsList(SourceInputs(x, t).joined_refs)
                 /\ \A r : r \in Range(SourceInputs(x, t).joined_refs) <=>
                       \E i \in DOMAIN x.charts : /\ IsSource(x.charts[i].query) /\ here(x, i) = t
                                                 /\ r \in Range(Roles(x.charts[i].query))
                                                 /\ Qualified(r) /\ r.table # t
        <3>1. /\ IsList(SourceInputs(x, t).joined_refs)
              /\ \A r : r \in Range(SourceInputs(x, t).joined_refs) <=>
                    \E c \in Range(x.charts) : /\ IsSource(c.query) /\ c.query.table = t
                                              /\ r \in Range(Roles(c.query)) /\ Qualified(r) /\ r.table # t
            BY <2>0, JoinedRefs
        <3>2. \A c : c \in Range(x.charts) <=> \E i \in DOMAIN x.charts : c = x.charts[i]
            BY DEF Range
        <3> QED  BY <3>1, <3>2
    <2>1. /\ SourceInputs(s, t).columns = MartColumns(t) /\ SourceInputs(u, t).columns = MartColumns(t)
          /\ IsList(SourceInputs(s, t).joined_refs) /\ IsList(SourceInputs(u, t).joined_refs)
        BY <2>0 DEF SourceInputs
    <2>2. \A r : r \in Range(SourceInputs(s, t).joined_refs) <=> r \in Range(SourceInputs(u, t).joined_refs)
        <3>1. ASSUME NEW i \in dom, NEW r
              PROVE  /\ IsSource(s.charts[i].query) = IsSource(u.charts[i].query)
                     /\ here(s, i) = here(u, i)
                     /\ Roles(s.charts[i].query) = Roles(u.charts[i].query)
            BY DEF Alike
        <3> DEFINE reads(x, i, r) == /\ IsSource(x.charts[i].query) /\ here(x, i) = t
                                     /\ r \in Range(Roles(x.charts[i].query))
                                     /\ Qualified(r) /\ r.table # t
        <3>2. \A r : /\ r \in Range(SourceInputs(s, t).joined_refs) <=> \E i \in dom : reads(s, i, r)
                     /\ r \in Range(SourceInputs(u, t).joined_refs) <=> \E i \in dom : reads(u, i, r)
            BY <2>0
        <3>3. \A i \in dom : \A r : reads(s, i, r) <=> reads(u, i, r)
            BY <3>1
        <3> HIDE DEF reads, dom
        <3> QED  BY <3>2, <3>3
    <2>3. Contains(SourceInputs(s, t).joined_refs, col) <=> Contains(SourceInputs(u, t).joined_refs, col)
        BY <2>1, <2>2, ContainsRange
    <2> QED  BY <2>1, <2>3 DEF source_exposes_column
<1>2. filter_binding_alias(s, f) = filter_binding_alias(u, f)
    <2> DEFINE taken(x) == {i \in DOMAIN x.charts : IsSource(x.charts[i].query)
                                /\ source_exposes_column(x, here(x, i), col)}
               takers(x) == At(x.charts, taken(x))
    <2>1. taken(s) = taken(u)
        BY <1>1 DEF Alike
    <2>2. \A x \in {s, u} : takers(x) =
             Only(x.charts, LAMBDA c : IsSource(c.query) /\ source_exposes_column(x, c.query.table, col))
        BY DEF Only, At
    <2>3. \A x \in {s, u} : filter_binding_alias(x, f)
             = IF takers(x) = <<>> THEN column_alias(col) ELSE source_column_alias(col, takers(x)[1].query.table)
        BY <2>2 DEF filter_binding_alias
    <2> DEFINE K == taken(s)
    <2>4. takers(s) = At(s.charts, K) /\ takers(u) = At(u.charts, K)
        BY <2>1
    <2>5. K \subseteq dom /\ s.charts \in Seq(Range(s.charts)) /\ u.charts \in Seq(Range(u.charts))
        BY DEF IsSpec, IsList
    <2> HIDE DEF takers, taken
    <2>6. CASE K = {}
        <3>1. ASSUME NEW seq, seq \in Seq(Range(seq)) PROVE At(seq, K) = <<>>
            <4> HIDE DEF K
            <4>1. At(seq, K) \in Seq(Range(seq)) /\ \A x : x \notin Range(At(seq, K))
                BY <2>6, <3>1, Kept
            <4> DEFINE kept == At(seq, K)
            <4>2. Len(kept) \in Nat /\ DOMAIN kept = 1 .. Len(kept) /\ (Len(kept) = 0 => kept = <<>>)
                BY <4>1, LenProperties, EmptySeq
            <4>3. Len(kept) # 0 => kept[1] \in Range(kept)
                BY <4>2 DEF Range
            <4> QED  BY <4>1, <4>2, <4>3
        <3> QED  BY <2>3, <2>4, <2>5, <3>1
    <2>7. CASE K # {}
        <3> HIDE DEF K
        <3>1. PICK k \in K : (\A j \in K : k <= j) /\ takers(s) # <<>> /\ takers(s)[1] = s.charts[k]
            BY <2>4, <2>5, <2>7, FirstKept
        <3>2. PICK l \in K : (\A j \in K : l <= j) /\ takers(u) # <<>> /\ takers(u)[1] = u.charts[l]
            BY <2>4, <2>5, <2>7, FirstKept
        <3>3. K \subseteq Nat
            BY <2>5, LenProperties
        <3>4. k = l
            BY <3>1, <3>2, <3>3
        <3>5. s.charts[k].query.table = u.charts[k].query.table
            BY <2>5 DEF Alike
        <3> QED  BY <2>3, <3>1, <3>2, <3>4, <3>5
    <2> QED  BY <2>6, <2>7
<1>3. ASSUME NEW i \in dom
      PROVE  chart_accepts_filter(s.charts[i], f, s) = chart_accepts_filter(u.charts[i], f, u)
    <2>1. grain_exposes_column(s.charts[i], col) = grain_exposes_column(u.charts[i], col)
        BY DEF grain_exposes_column, group_columns, Alike
    <2>2. source_exposes_column(s, here(s, i), col) = source_exposes_column(u, here(u, i), col)
        BY <1>1 DEF Alike
    <2> QED  BY <1>2, <2>1, <2>2 DEF chart_accepts_filter, Alike
<1>4. \A x \in {s, u} : \A id : id \in ScopeOf(f, x) <=>
         \E i \in DOMAIN x.charts : x.charts[i].id = id /\ chart_accepts_filter(x.charts[i], f, x)
    BY DEF ScopeOf, Range
<1>5. \A id : id \in ScopeOf(f, s) <=> id \in ScopeOf(f, u)
    BY <1>3, <1>4 DEF Alike
<1> QED  BY <1>5

\* A scope depends on the column of its filter alone.
LEMMA ColumnScope ==
    ASSUME NEW s, NEW f, NEW g, f.column = g.column
    PROVE  ScopeOf(f, s) = ScopeOf(g, s)
<1> DEFINE taken(x) == {i \in DOMAIN s.charts : IsSource(s.charts[i].query)
                            /\ source_exposes_column(s, s.charts[i].query.table, x.column)}
<1>1. ASSUME NEW x
      PROVE  filter_binding_alias(s, x)
                = IF At(s.charts, taken(x)) = <<>> THEN column_alias(x.column)
                  ELSE source_column_alias(x.column, At(s.charts, taken(x))[1].query.table)
    <2> DEFINE takers == At(s.charts, taken(x))
    <2>1. takers = Only(s.charts, LAMBDA c :
                      IsSource(c.query) /\ source_exposes_column(s, c.query.table, x.column))
        BY DEF Only, At
    <2> QED  BY <2>1 DEF filter_binding_alias
<1>2. taken(f) = taken(g)
    OBVIOUS
<1> HIDE DEF taken
<1>3. filter_binding_alias(s, f) = filter_binding_alias(s, g)
    BY <1>1, <1>2
<1>4. \A c : chart_accepts_filter(c, f, s) = chart_accepts_filter(c, g, s)
    BY <1>3 DEF chart_accepts_filter
<1> QED  BY <1>4 DEF ScopeOf

Joinless(s) == \A c \in Range(s.charts) : c.query.joins = <<>>

\* What the preview said of the filters, before the build and during it: a
\* build without joins has changed nothing it said.
ShownInv ==
    /\ phase \in {"proposed", "valid"} => preview = <<>>
    /\ phase = "approved" => preview \in {<<>>, <<Preview(spec)>>}
    /\ phase \in {"gating", "built"} /\ preview # <<>> /\ Joinless(spec) =>
          \A f \in Range(spec.filters) : preview[1].scopes[f] = ScopeOf(f, spec)

\* Normalisation leaves the scopes of a specification it adds no join to.
LEMMA ScopesKept ==
    ASSUME NEW s, IsSpec(s), Joinless(apply_chart_defaults(apply_label_joins(s))), NEW f
    PROVE  ScopeOf(f, apply_chart_defaults(apply_label_joins(s))) = ScopeOf(f, s)
<1> DEFINE n == apply_chart_defaults(apply_label_joins(s))
<1>1. /\ IsSpec(n) /\ n.charts = [i \in DOMAIN s.charts |-> TopN(LabelJoins(s.charts[i]))]
    BY NormalisedShape
<1>2. Joinless(n)
    OBVIOUS
<1> HIDE DEF n
<1>3. DOMAIN n.charts = DOMAIN s.charts
    BY <1>1
<1>4. ASSUME NEW i \in DOMAIN s.charts PROVE Alike(s.charts[i], n.charts[i])
    <2> DEFINE c == s.charts[i]
    <2>1. IsChart(c) /\ n.charts[i] = TopN(LabelJoins(c)) /\ n.charts[i] \in Range(n.charts)
        BY <1>1, <1>3 DEF IsSpec, Range
    <2>2. IsChart(LabelJoins(c))
        BY <2>1, JoinedShape
    <2>3. Alike(LabelJoins(c), TopN(LabelJoins(c)))
          /\ TopN(LabelJoins(c)).query.joins = LabelJoins(c).query.joins
        BY <2>2, TopNAlike
    <2>4. LabelJoins(c) = c
        BY <1>2, <2>1, <2>3, Unjoined DEF Joinless
    <2> QED  BY <2>1, <2>3, <2>4
<1>5. ScopeOf(f, s) = ScopeOf(f, n)
    BY <1>1, <1>3, <1>4, SameScope
<1> QED  BY <1>5 DEF n

LEMMA ShownInit == Init => ShownInv
BY DEF Init, ShownInv

\* A preview is made of the specification that is approved, and the build
\* normalises that one.
LEMMA ShownNext ==
    ASSUME GateInv, ShownInv, [Next]_vars
    PROVE  ShownInv'
<1>1. CASE UNCHANGED vars
    BY <1>1 DEF vars, ShownInv
<1>2. CASE Validate \/ Operator \/ OneShot
    BY <1>2 DEF Validate, Operator, OneShot, Accepted, Fail, ShownInv
<1>3. CASE ShowPreview
    BY <1>3 DEF ShowPreview, Fail, ShownInv
<1>4. CASE Normalise
    <2> DEFINE n == apply_chart_defaults(apply_label_joins(spec))
    <2>1. CASE Valid(n, TRUE)
        <3>1. /\ phase = "approved" /\ spec' = n /\ phase' = "gating" /\ preview' = preview
            BY <1>4, <2>1 DEF Normalise
        <3>2. n.filters = spec.filters
            BY NormalisedShape DEF GateInv
        <3>3. \A f : Joinless(n) => ScopeOf(f, n) = ScopeOf(f, spec)
            BY ScopesKept DEF GateInv
        <3> HIDE DEF n
        <3>4. ASSUME preview # <<>>, NEW f \in Range(spec.filters)
              PROVE  preview[1].scopes[f] = ScopeOf(f, spec)
            <4>1. preview = <<Preview(spec)>>
                BY <3>1, <3>4 DEF ShownInv
            <4>2. Preview(spec).scopes[f] = ScopeOf(f, spec)
                BY DEF Preview
            <4> DEFINE p == Preview(spec)
            <4> HIDE DEF p
            <4>3. preview[1] = p
                BY <4>1 DEF p
            <4> QED  BY <4>2, <4>3 DEF p
        <3> QED  BY <3>1, <3>2, <3>3, <3>4 DEF ShownInv
    <2>2. CASE ~Valid(n, TRUE)
        BY <1>4, <2>2 DEF Normalise, Fail, ShownInv
    <2> QED  BY <2>1, <2>2
<1>5. CASE Gate
    BY <1>5 DEF Gate, Fail, ShownInv
<1>6. CASE Build
    BY <1>6 DEF Build, ShownInv
<1> QED  BY <1>1, <1>2, <1>3, <1>4, <1>5, <1>6 DEF Next, Done

\* The preview stands until the dashboard is built.
THEOREM Shown == Spec => []ShownInv
<1>1. Init => ShownInv
    BY ShownInit
<1>2. GateInv /\ ShownInv /\ [Next]_vars => ShownInv'
    BY ShownNext
<1> QED  BY <1>1, <1>2, Gated, PTL DEF Spec

\* What a control moves is what was shown and what it can name.
LEMMA BuildReaches == GateInv /\ ShownInv => ControlReaches
<1> SUFFICES ASSUME GateInv, ShownInv, IsBuilt, OnSuperset PROVE ControlReaches
    BY DEF ControlReaches
<1>1. ASSUME Len(source_tables(spec)) <= 1, NEW k \in Range(TheBuild.controls), NEW id \in Ids, id \in k.scope
      PROVE  MovesColumn(k, id)
    BY <1>1, ControlMoves
<1>2. ASSUME preview # <<>>, Joinless(spec), NEW f \in Range(spec.filters)
      PROVE  ShownScope(f)
    <2>1. preview[1].scopes[f] = ScopeOf(f, spec)
        BY <1>2 DEF ShownInv, IsBuilt
    <2>2. IsSpec(spec)
        BY DEF GateInv
    <2>3. TheBuild.controls = native_filter_configuration(spec)
        <3>1. PICK large \in BOOLEAN : built = <<Compiled(spec, trials, large)>>
            BY DEF GateInv, IsBuilt
        <3> QED  BY <3>1 DEF OnSuperset, TheBuild, Compiled, SupersetBuild
    <2>4. \A k : k \in Range(TheBuild.controls) <=>
             \E g \in Range(spec.filters) : ScopeOf(g, spec) # {} /\ k = NativeFilter(spec, g)
        BY <2>2, <2>3, SupersetControls
    <2>5. \A g : NativeFilter(spec, g).column = g.column /\ NativeFilter(spec, g).scope = ScopeOf(g, spec)
        BY DEF NativeFilter
    <2>6. \A g : g.column = f.column => ScopeOf(g, spec) = ScopeOf(f, spec)
        BY ColumnScope
    <2> DEFINE moved == UNION {k.scope : k \in {x \in Range(TheBuild.controls) : x.column = f.column}}
    <2>7. ASSUME NEW id PROVE id \in moved <=> id \in ScopeOf(f, spec)
        <3>1. ASSUME id \in moved PROVE id \in ScopeOf(f, spec)
            <4>1. PICK k \in Range(TheBuild.controls) : k.column = f.column /\ id \in k.scope
                BY <3>1
            <4> QED  BY <2>4, <2>5, <2>6, <4>1
        <3>2. ASSUME id \in ScopeOf(f, spec) PROVE id \in moved
            <4>1. NativeFilter(spec, f) \in Range(TheBuild.controls)
                BY <2>4, <3>2
            <4> QED  BY <2>5, <3>2, <4>1
        <3> QED  BY <3>1, <3>2
    <2>8. moved = ScopeOf(f, spec)
        BY <2>7
    <2> QED  BY <2>1, <2>8 DEF ShownScope
<1> QED  BY <1>1, <1>2 DEF ControlReaches, Joinless

\* On dashboards of one mart, a select filter names its very column in every
\* dataset of its scope, and a time filter, which names none, moves a chart of
\* its scope by its very column where the chart can reach no other time column;
\* without joins, a filter moves the charts the preview said
\* (native_filters.py, dataset_plan.py, adapter.py, machine.py).
THEOREM ControlsReach == Spec => []ControlReaches
BY Gated, Shown, BuildReaches, PTL

-----------------------------------------------------------------------------
(* The grid. *)

\* Induction over the naturals for a set of them.
LEMMA Induct ==
    ASSUME NEW X, 0 \in X, \A n \in Nat : n \in X => n + 1 \in X
    PROVE  \A n \in Nat : n \in X
<1> DEFINE T == {n \in Nat : n \notin X}
<1> SUFFICES ASSUME T # {} PROVE FALSE
    OBVIOUS
<1>1. PICK n \in T : \A j \in T : ~(<<j, n>> \in OpToRel(<, Nat))
    BY NatLessThanWellFounded, WFMin
<1>2. \A j \in Nat : j < n => j \notin T
    BY <1>1 DEF OpToRel
<1>3. n \in Nat /\ n # 0
    OBVIOUS
<1>4. n - 1 \in Nat /\ n - 1 < n /\ (n - 1) + 1 = n
    BY <1>3
<1>5. n - 1 \in X
    BY <1>2, <1>4
<1>6. n \in X
    BY <1>4, <1>5
<1> QED  BY <1>6

\* One more sequence makes a flattened one longer by it.
LEMMA FlattenAppend ==
    ASSUME NEW S, NEW ss \in Seq(Seq(S)), NEW t \in Seq(S)
    PROVE  /\ FlattenSeq(ss) \in Seq(S)
           /\ Append(ss, t) \in Seq(Seq(S))
           /\ FlattenSeq(Append(ss, t)) = FlattenSeq(ss) \o t
<1> DEFINE app == Append(ss, t)
           n == Len(ss)
<1>1. /\ app \in Seq(Seq(S)) /\ app # <<>> /\ Len(app) = n + 1
      /\ \A i \in 1 .. n : app[i] = ss[i]
      /\ app[n + 1] = t
    BY AppendProperties
<1>2. n \in Nat
    BY LenProperties
<1>3. FlattenSeq(ss) \in Seq(S)
    BY FlattenRange
<1> HIDE DEF app, n
<1>4. PICK h : Partial(app, Len(app), h, S) /\ FlattenSeq(app) = h[Len(app)]
    BY <1>1, FlattenIsPrefix
<1>5. CASE n = 0
    <2>1. h[1] = t
        BY <1>1, <1>4, <1>5 DEF Partial
    <2>2. ss = <<>>
        BY <1>5, EmptySeq DEF n
    <2>3. FlattenSeq(ss) = <<>>
        BY <2>2 DEF FlattenSeq
    <2>4. <<>> \o t = t
        BY ConcatEmptySeq
    <2> QED  BY <1>1, <1>3, <1>4, <1>5, <2>1, <2>3, <2>4 DEF app
<1>6. CASE n # 0
    <2>1. ss # <<>>
        BY <1>6, EmptySeq DEF n
    <2>2. PICK g : Partial(ss, n, g, S) /\ FlattenSeq(ss) = g[n]
        BY <2>1, FlattenIsPrefix DEF n
    <2> DEFINE X == {i \in Nat : i + 1 <= n => h[i + 1] = g[i + 1]}
    <2>3. h[1] = g[1]
        <3>1. 1 \in 1 .. n /\ 1 \in 1 .. n + 1
            BY <1>2, <1>6
        <3> QED  BY <1>1, <1>4, <2>2, <3>1 DEF Partial
    <2>4. ASSUME NEW i \in Nat, i \in X PROVE i + 1 \in X
        <3>1. CASE i + 2 <= n
            <4>1. i + 1 <= n /\ i + 2 \in 1 .. n /\ i + 2 \in 1 .. n + 1 /\ i + 2 # 1 /\ (i + 2) - 1 = i + 1
                BY <1>2, <3>1
            <4>2. h[i + 2] = h[i + 1] \o app[i + 2]
                BY <1>1, <1>4, <4>1 DEF Partial
            <4>3. g[i + 2] = g[i + 1] \o ss[i + 2]
                BY <2>2, <4>1 DEF Partial
            <4>4. h[i + 2] = g[i + 2]
                BY <1>1, <2>4, <4>1, <4>2, <4>3
            <4> QED  BY <4>4
        <3>2. CASE ~(i + 2 <= n)
            BY <3>2, <1>2
        <3> QED  BY <3>1, <3>2
    <2>5. 0 \in X
        BY <2>3
    <2> HIDE DEF X
    <2>6. \A i \in Nat : i \in X
        BY <2>4, <2>5, Induct
    <2>7. n - 1 \in X /\ (n - 1) + 1 = n
        BY <1>2, <1>6, <2>6
    <2>8. h[n] = g[n]
        BY <2>7, <1>2 DEF X
    <2>9. n + 1 \in 1 .. n + 1 /\ n + 1 # 1 /\ (n + 1) - 1 = n
        BY <1>2, <1>6
    <2>10. h[n + 1] = h[n] \o t
        BY <1>1, <1>4, <2>9 DEF Partial
    <2> QED  BY <1>1, <1>3, <1>4, <2>2, <2>8, <2>10 DEF app
<1> QED  BY <1>5, <1>6

-----------------------------------------------------------------------------
(* The grid of Superset. *)

\* The places of the charts in the order of _pack_rows are the positions of
\* the list, each taken once.
LEMMA PlacesPermute ==
    ASSUME NEW charts, IsList(charts), \A c \in Range(charts) : c.row \in Nat
    PROVE  /\ \A i \in DOMAIN charts : Place(charts, i) \in DOMAIN charts
           /\ \A n \in DOMAIN charts : \E i \in DOMAIN charts : Place(charts, i) = n
           /\ \A i \in DOMAIN charts, j \in DOMAIN charts :
                 Place(charts, i) = Place(charts, j) => i = j
<1> DEFINE D == DOMAIN charts
           before(i) == {j \in D : \/ charts[j].row < charts[i].row
                                   \/ charts[j].row = charts[i].row /\ j <= i}
           N == Len(charts)
           f == [i \in D |-> Place(charts, i)]
<1>1. N \in Nat /\ D = 1 .. N
    BY LenProperties DEF IsList
<1>2. IsFiniteSet(D) /\ Cardinality(D) = N
    <2> HIDE DEF N
    <2>1. IsFiniteSet(1 .. N) /\ Cardinality(1 .. N) = IF 1 > N THEN 0 ELSE N - 1 + 1
        BY <1>1, FS_Interval
    <2>2. Cardinality(1 .. N) = N
        BY <1>1, <2>1
    <2> QED  BY <1>1, <2>1, <2>2
<1>3. \A i \in D : Place(charts, i) = Cardinality(before(i))
    BY DEF Place
<1>4. \A i \in D : charts[i].row \in Nat
    BY DEF Range
<1> HIDE DEF N, f, D
<1>5. ASSUME NEW i \in D PROVE IsFiniteSet(before(i)) /\ Cardinality(before(i)) \in 1 .. N /\ i \in before(i)
    <2>1. before(i) \in SUBSET D /\ i \in before(i)
        BY <1>1, <1>4 DEF D
    <2> HIDE DEF before
    <2>2. IsFiniteSet(before(i)) /\ Cardinality(before(i)) <= N
        BY <1>2, <2>1, FS_Subset
    <2>3. Cardinality(before(i)) \in Nat /\ Cardinality(before(i)) # 0
        BY <2>1, <2>2, FS_CardinalityType, FS_EmptySet
    <2> QED  BY <1>1, <2>1, <2>2, <2>3
<1>6. ASSUME NEW i \in D, NEW j \in D,
             charts[i].row < charts[j].row \/ (charts[i].row = charts[j].row /\ i < j)
      PROVE  Cardinality(before(i)) # Cardinality(before(j))
    <2>1. i \in Nat /\ j \in Nat
        BY <1>1
    <2>2. before(i) \in SUBSET before(j)
        BY <1>1, <1>4, <1>6, <2>1
    <2>3. j \notin before(i)
        BY <1>4, <1>6, <2>1
    <2>4. j \in before(j)
        BY <1>5
    <2> HIDE DEF before
    <2> QED  BY <1>5, <2>2, <2>3, <2>4, FS_Subset
<1>7. \A i \in D, j \in D : i # j => Cardinality(before(i)) # Cardinality(before(j))
    <2>1. ASSUME NEW i \in D, NEW j \in D, i # j PROVE Cardinality(before(i)) # Cardinality(before(j))
        <3> HIDE DEF before
        <3>1. \/ charts[i].row < charts[j].row \/ (charts[i].row = charts[j].row /\ i < j)
              \/ charts[j].row < charts[i].row \/ (charts[j].row = charts[i].row /\ j < i)
            BY <1>1, <1>4, <2>1
        <3> QED  BY <1>6, <3>1
    <2> QED  BY <2>1
<1>8. f \in [D -> D]
    BY <1>1, <1>3, <1>5 DEF f
<1>9. f \in Injection(D, D)
    <2>1. \A i \in D, j \in D : f[i] = f[j] => i = j
        BY <1>3, <1>7 DEF f
    <2> QED  BY <1>8, <2>1 DEF Injection, IsInjective
<1>10. f \in Surjection(D, D)
    BY <1>2, <1>9, FS_Injection
<1>11. \A n \in D : \E i \in D : f[i] = n
    BY <1>10 DEF Surjection
<1>12. \A i \in D, j \in D : f[i] = f[j] => i = j
    BY <1>9 DEF Injection, IsInjective
<1>13. \A i \in D : f[i] \in D
    BY <1>8
<1>14. \A i \in D : f[i] = Place(charts, i)
    BY DEF f
<1> HIDE DEF f
<1>15. \A i \in D : Place(charts, i) \in D
    BY <1>13, <1>14
<1>16. \A n \in D : \E i \in D : Place(charts, i) = n
    BY <1>11, <1>14
<1>17. \A i \in D, j \in D : Place(charts, i) = Place(charts, j) => i = j
    BY <1>12, <1>14
<1> QED  BY <1>15, <1>16, <1>17 DEF D

\* The order of _pack_rows is a permutation of the charts.
LEMMA HintOrder ==
    ASSUME NEW charts, IsList(charts), \A c \in Range(charts) : c.row \in Nat
    PROVE  /\ IsList(ByHintRow(charts)) /\ Len(ByHintRow(charts)) = Len(charts)
           /\ Range(ByHintRow(charts)) = Range(charts)
<1> DEFINE D == DOMAIN charts
           at(n) == CHOOSE i \in D : Place(charts, i) = n
<1>1. ByHintRow(charts) = [n \in D |-> charts[at(n)]]
    BY DEF ByHintRow
<1>2. \A n \in D : at(n) \in D /\ Place(charts, at(n)) = n
    BY PlacesPermute
<1>3. \A i \in D : Place(charts, i) \in D
    BY PlacesPermute
<1>4. ASSUME NEW i \in D PROVE at(Place(charts, i)) = i
    BY <1>2, <1>3, PlacesPermute
<1> HIDE DEF at
<1>5. Range(ByHintRow(charts)) = Range(charts)
    BY <1>1, <1>2, <1>3, <1>4 DEF Range
<1> QED  BY <1>1, <1>5, Listing


\* A list of one position more, as a recursive definition reads it.
LEMMA PackingIs ==
    ASSUME NEW charts, IsList(charts)
    PROVE  /\ Packing(charts)[0] = [rows |-> <<>>, current |-> <<>>, used |-> 0]
           /\ \A n \in 1 .. Len(charts) : Packing(charts)[n] = PackChart(Packing(charts)[n - 1], charts[n])
<1> DEFINE N == Len(charts)
           start == [rows |-> <<>>, current |-> <<>>, used |-> 0]
           Value(h, n) == IF n = 0 THEN start ELSE PackChart(h[n - 1], charts[n])
           X == {m \in Nat : \E h : h = [n \in 0 .. m |-> Value(h, n)]}
           after == CHOOSE h : h = [n \in 0 .. N |-> Value(h, n)]
<1>1. N \in Nat
    BY LenProperties DEF IsList
<1> HIDE DEF start
<1>2. 0 \in X
    <2> DEFINE h == [n \in 0 .. 0 |-> start]
    <2>1. h = [n \in 0 .. 0 |-> Value(h, n)]
        OBVIOUS
    <2> QED  BY <2>1
<1>3. ASSUME NEW m \in Nat, m \in X PROVE m + 1 \in X
    <2>1. PICK h : h = [n \in 0 .. m |-> Value(h, n)]
        BY <1>3
    <2> DEFINE g == [n \in 0 .. m + 1 |-> IF n = m + 1 THEN PackChart(h[m], charts[m + 1]) ELSE h[n]]
    <2>2. ASSUME NEW n \in 0 .. m + 1 PROVE g[n] = Value(g, n)
        <3>1. CASE n = m + 1
            BY <3>1
        <3>2. CASE n # m + 1
            <4>1. n \in 0 .. m /\ (n # 0 => n - 1 \in 0 .. m /\ n - 1 \in 0 .. m + 1 /\ n - 1 # m + 1)
                BY <3>2
            <4>2. h[n] = Value(h, n)
                BY <2>1, <4>1
            <4>3. n # 0 => g[n - 1] = h[n - 1]
                BY <4>1
            <4> QED  BY <3>2, <4>2, <4>3
        <3> QED  BY <3>1, <3>2
    <2>3. g = [n \in 0 .. m + 1 |-> Value(g, n)]
        BY <2>2
    <2> HIDE DEF g, Value
    <2>4. \E x : x = [n \in 0 .. m + 1 |-> Value(x, n)]
        BY <2>3
    <2> QED  BY <2>4
<1> HIDE DEF X
<1>4. N \in X
    BY <1>1, <1>2, <1>3, Induct
<1>5. after = [n \in 0 .. N |-> Value(after, n)]
    BY <1>4 DEF X
<1>6. Packing(charts) = after
    BY DEF Packing, start
<1> HIDE DEF after
<1>7. after[0] = start
    BY <1>1, <1>5
<1>8. \A n \in 1 .. N : after[n] = PackChart(after[n - 1], charts[n])
    BY <1>1, <1>5
<1> QED  BY <1>6, <1>7, <1>8 DEF start

\* The width of a row, chart by chart.
LEMMA WidthsIs ==
    ASSUME NEW line, IsList(line)
    PROVE  /\ Widths(line)[0] = 0
           /\ \A n \in 1 .. Len(line) : Widths(line)[n] = Widths(line)[n - 1] + line[n].w
<1> DEFINE N == Len(line)
           Value(h, n) == IF n = 0 THEN 0 ELSE h[n - 1] + line[n].w
           X == {m \in Nat : \E h : h = [n \in 0 .. m |-> Value(h, n)]}
           upto == CHOOSE h : h = [n \in 0 .. N |-> Value(h, n)]
<1>1. N \in Nat
    BY LenProperties DEF IsList
<1>2. 0 \in X
    <2> DEFINE h == [n \in 0 .. 0 |-> 0]
    <2>1. h = [n \in 0 .. 0 |-> Value(h, n)]
        OBVIOUS
    <2> QED  BY <2>1
<1>3. ASSUME NEW m \in Nat, m \in X PROVE m + 1 \in X
    <2>1. PICK h : h = [n \in 0 .. m |-> Value(h, n)]
        BY <1>3
    <2> DEFINE g == [n \in 0 .. m + 1 |-> IF n = m + 1 THEN h[m] + line[m + 1].w ELSE h[n]]
    <2>2. ASSUME NEW n \in 0 .. m + 1 PROVE g[n] = Value(g, n)
        <3>1. CASE n = m + 1
            BY <3>1
        <3>2. CASE n # m + 1
            <4>1. n \in 0 .. m /\ (n # 0 => n - 1 \in 0 .. m /\ n - 1 \in 0 .. m + 1 /\ n - 1 # m + 1)
                BY <3>2
            <4>2. h[n] = Value(h, n)
                BY <2>1, <4>1
            <4>3. n # 0 => g[n - 1] = h[n - 1]
                BY <4>1
            <4> QED  BY <3>2, <4>2, <4>3
        <3> QED  BY <3>1, <3>2
    <2>3. g = [n \in 0 .. m + 1 |-> Value(g, n)]
        BY <2>2
    <2> HIDE DEF g, Value
    <2>4. \E x : x = [n \in 0 .. m + 1 |-> Value(x, n)]
        BY <2>3
    <2> QED  BY <2>4
<1> HIDE DEF X
<1>4. N \in X
    BY <1>1, <1>2, <1>3, Induct
<1>5. upto = [n \in 0 .. N |-> Value(upto, n)]
    BY <1>4 DEF X
<1>6. Widths(line) = upto
    BY DEF Widths
<1> HIDE DEF upto
<1>7. upto[0] = 0
    BY <1>1, <1>5
<1>8. \A n \in 1 .. N : upto[n] = upto[n - 1] + line[n].w
    BY <1>1, <1>5
<1> QED  BY <1>6, <1>7, <1>8

Width(line) == Widths(line)[Len(line)]

\* An empty row has no width; one more chart makes a row wider by its width.
LEMMA WidthOf ==
    ASSUME NEW S, \A c \in S : c.w \in Nat, NEW line \in Seq(S), NEW c \in S
    PROVE  /\ Width(<<>>) = 0
           /\ Width(line) \in Nat
           /\ Width(Append(line, c)) = Width(line) + c.w
           /\ Width(<<c>>) = c.w
<1>1. Width(<<>>) = 0
    <2>1. IsList(<<>>) /\ Len(<<>>) = 0
        BY EmptySeq DEF IsList
    <2> QED  BY <2>1, WidthsIs DEF Width
<1>2. Width(<<c>>) = c.w
    <2> DEFINE one == <<c>>
    <2>1. one \in Seq({c}) /\ Len(one) = 1 /\ one[1] = c
        OBVIOUS
    <2> HIDE DEF one
    <2>2. IsList(one)
        BY <2>1, SeqOfRange DEF IsList
    <2>3. Widths(one)[0] = 0 /\ Widths(one)[1] = Widths(one)[0] + one[1].w
        <3>1. 1 \in 1 .. Len(one)
            BY <2>1
        <3>2. Widths(one)[1] = Widths(one)[1 - 1] + one[1].w
            BY <2>2, <3>1, WidthsIs
        <3> QED  BY <2>2, <3>2, WidthsIs
    <2>4. Width(one) = 0 + c.w
        BY <2>1, <2>3 DEF Width
    <2>5. 0 + c.w = c.w
        OBVIOUS
    <2> QED  BY <2>4, <2>5 DEF one
<1> DEFINE app == Append(line, c)
           N == Len(line)
<1>3. /\ app \in Seq(S) /\ Len(app) = N + 1
      /\ \A i \in 1 .. N : app[i] = line[i]
      /\ app[N + 1] = c
    BY AppendProperties
<1>4. N \in Nat /\ IsList(line)
    BY LenProperties, SeqOfRange DEF IsList
<1> HIDE DEF app
<1>5. IsList(app)
    BY <1>3, SeqOfRange DEF IsList
<1>6. \A i \in 1 .. N : line[i].w \in Nat
    BY ElementOfSeq
<1> HIDE DEF N
<1>7. /\ Widths(line)[0] = 0 /\ Widths(app)[0] = 0
      /\ \A n \in 1 .. N : Widths(line)[n] = Widths(line)[n - 1] + line[n].w
      /\ \A n \in 1 .. N + 1 : Widths(app)[n] = Widths(app)[n - 1] + app[n].w
    BY <1>3, <1>4, <1>5, WidthsIs DEF N
<1> DEFINE X == {n \in Nat : n <= N => Widths(app)[n] = Widths(line)[n] /\ Widths(line)[n] \in Nat}
<1>8. ASSUME NEW n \in Nat, n \in X PROVE n + 1 \in X
    <2>1. CASE n + 1 <= N
        <3>1. n <= N /\ n + 1 \in 1 .. N /\ n + 1 \in 1 .. N + 1 /\ (n + 1) - 1 = n
            BY <1>4, <2>1
        <3>2. /\ Widths(line)[n + 1] = Widths(line)[n] + line[n + 1].w
              /\ Widths(app)[n + 1] = Widths(app)[n] + app[n + 1].w
            BY <1>7, <3>1
        <3>3. Widths(app)[n + 1] = Widths(line)[n + 1] /\ Widths(line)[n + 1] \in Nat
            BY <1>3, <1>6, <1>8, <3>1, <3>2
        <3> QED  BY <3>3
    <2>2. CASE ~(n + 1 <= N)
        BY <2>2
    <2> QED  BY <2>1, <2>2
<1>9. 0 \in X
    BY <1>7
<1> HIDE DEF X
<1>10. N \in X
    BY <1>4, <1>8, <1>9, Induct
<1>11. Widths(app)[N] = Widths(line)[N] /\ Widths(line)[N] \in Nat
    BY <1>4, <1>10 DEF X
<1>12. N + 1 \in 1 .. N + 1 /\ (N + 1) - 1 = N
    BY <1>4
<1>13. Widths(app)[N + 1] = Widths(line)[N] + c.w
    BY <1>3, <1>7, <1>11, <1>12
<1> QED  BY <1>1, <1>2, <1>3, <1>11, <1>13 DEF Width, N, app

\* Concatenation is associative; the provers need it without its symbol.
Cat(a, b) == a \o b

LEMMA Associates ==
    \A S : \A a, b, d \in Seq(S) : Cat(Cat(a, b), d) = Cat(a, Cat(b, d))
BY ConcatAssociative DEF Cat

\* What the loop of _pack_rows keeps: the charts so far, in their order, in
\* closed rows and the open one, none wider than the grid.
Packed(acc, charts, n, S) ==
    /\ acc.rows \in Seq(Seq(S)) /\ acc.current \in Seq(S)
    /\ FlattenSeq(acc.rows) \o acc.current = SubSeq(charts, 1, n)
    /\ acc.used = Width(acc.current) /\ acc.used <= GridWidth
    /\ \A i \in 1 .. Len(acc.rows) : Width(acc.rows[i]) <= GridWidth

LEMMA PackStep ==
    ASSUME NEW S, \A c \in S : c.w \in 1 .. GridWidth,
           NEW charts \in Seq(S), NEW n \in 1 .. Len(charts),
           NEW acc, Packed(acc, charts, n - 1, S)
    PROVE  Packed(PackChart(acc, charts[n]), charts, n, S)
<1> DEFINE c == charts[n]
           rows == acc.rows
           current == acc.current
           next == PackChart(acc, c)
<1>1. /\ rows \in Seq(Seq(S)) /\ current \in Seq(S)
      /\ FlattenSeq(rows) \o current = SubSeq(charts, 1, n - 1)
      /\ acc.used = Width(current) /\ acc.used <= GridWidth
      /\ \A i \in 1 .. Len(rows) : Width(rows[i]) <= GridWidth
    BY DEF Packed
<1>2. c \in S /\ c.w \in 1 .. GridWidth /\ \A x \in S : x.w \in Nat
    BY ElementOfSeq DEF GridWidth
<1>3. SubSeq(charts, 1, n) = SubSeq(charts, 1, n - 1) \o <<c>>
    <2>1. Len(charts) \in Nat
        BY LenProperties
    <2>2. 1 \in 1 .. Len(charts) /\ n \in 1 .. Len(charts)
        BY <2>1
    <2> QED  BY <2>2, SubSeqRecursiveSecond
<1>4. <<c>> \in Seq(S)
    BY <1>2
<1> HIDE DEF c, rows, current
<1>5. FlattenSeq(rows) \in Seq(S)
    BY <1>1, FlattenRange
<1>6. CASE current # <<>> /\ (Last(current).row # c.row \/ acc.used + c.w > GridWidth)
    <2>1. next.rows = Append(rows, current) /\ next.current = <<c>> /\ next.used = c.w
        BY <1>6 DEF PackChart, rows, current
    <2>2. /\ Append(rows, current) \in Seq(Seq(S))
          /\ FlattenSeq(Append(rows, current)) = FlattenSeq(rows) \o current
        BY <1>1, FlattenAppend
    <2>3. Width(<<c>>) = c.w
        BY <1>1, <1>2, WidthOf
    <2>4. \A i \in 1 .. Len(Append(rows, current)) : Width(Append(rows, current)[i]) <= GridWidth
        <3> DEFINE k == Len(rows)
        <3>1. /\ Len(Append(rows, current)) = k + 1 /\ k \in Nat
              /\ \A i \in 1 .. k : Append(rows, current)[i] = rows[i]
              /\ Append(rows, current)[k + 1] = current
            BY <1>1, AppendProperties, LenProperties
        <3>2. \A i \in 1 .. k : Width(rows[i]) <= GridWidth
            BY <1>1
        <3>3. Width(current) <= GridWidth
            BY <1>1
        <3> HIDE DEF k
        <3>4. \A i \in 1 .. k + 1 : i \in 1 .. k \/ i = k + 1
            BY <3>1
        <3> QED  BY <3>1, <3>2, <3>3, <3>4
    <2>5. FlattenSeq(Append(rows, current)) \o <<c>> = SubSeq(charts, 1, n)
        BY <1>1, <1>3, <2>2
    <2>6. c.w <= GridWidth
        BY <1>2 DEF GridWidth
    <2> HIDE DEF next
    <2>7. Packed(next, charts, n, S)
        BY <1>4, <2>1, <2>2, <2>3, <2>4, <2>5, <2>6 DEF Packed
    <2> QED  BY <2>7 DEF next, c
<1>7. CASE ~(current # <<>> /\ (Last(current).row # c.row \/ acc.used + c.w > GridWidth))
    <2>1. next.rows = rows /\ next.current = Append(current, c) /\ next.used = acc.used + c.w
        BY <1>7 DEF PackChart, rows, current
    <2>2. /\ Width(<<>>) = 0 /\ Width(current) \in Nat
          /\ Width(Append(current, c)) = Width(current) + c.w
        BY <1>1, <1>2, WidthOf
    <2>3. acc.used + c.w <= GridWidth
        <3>1. CASE current = <<>>
            BY <1>1, <1>2, <2>2, <3>1 DEF GridWidth
        <3>2. CASE current # <<>>
            BY <1>1, <1>2, <1>7, <2>2, <3>2 DEF GridWidth
        <3> QED  BY <3>1, <3>2
    <2>4. Append(current, c) \in Seq(S) /\ Append(current, c) = current \o <<c>>
        BY <1>1, <1>2, AppendProperties, AppendIsConcat
    <2>5. FlattenSeq(rows) \o (current \o <<c>>) = SubSeq(charts, 1, n)
        <3> DEFINE flat == FlattenSeq(rows)
                   before == SubSeq(charts, 1, n - 1)
                   one == <<c>>
        <3>1. flat \in Seq(S) /\ current \in Seq(S) /\ one \in Seq(S)
            BY <1>1, <1>4, <1>5
        <3>2. flat \o current = before
            BY <1>1
        <3>3. SubSeq(charts, 1, n) = before \o one
            BY <1>3
        <3> HIDE DEF flat, before, one
        <3>4. flat \o (current \o one) = before \o one
            <4>1. Cat(Cat(flat, current), one) = Cat(flat, Cat(current, one))
                BY <3>1, Associates
            <4>2. Cat(flat, current) = before
                BY <3>2 DEF Cat
            <4>3. Cat(before, one) = Cat(flat, Cat(current, one))
                BY <4>1, <4>2
            <4> QED  BY <4>3 DEF Cat
        <3> QED  BY <3>3, <3>4 DEF flat, one
    <2> HIDE DEF next
    <2> QED  BY <1>1, <2>1, <2>2, <2>3, <2>4, <2>5 DEF Packed, next, c
<1> QED  BY <1>6, <1>7

\* The rows of _pack_rows hold every chart once, in order, none of them wider
\* than the grid.
LEMMA RowsHold ==
    ASSUME NEW charts, IsList(charts), \A c \in Range(charts) : c.w \in 1 .. GridWidth /\ c.row \in Nat
    PROVE  /\ \A line \in Range(PackRows(charts)) : Width(line) <= GridWidth
           /\ FlattenSeq(PackRows(charts)) = ByHintRow(charts)
<1> DEFINE S == Range(charts)
           ordered == ByHintRow(charts)
           N == Len(charts)
           after == Packing(ordered)
           done == after[N]
           X == {n \in Nat : n <= N => Packed(after[n], ordered, n, S)}
<1>1. ordered \in Seq(S) /\ Len(ordered) = N /\ IsList(ordered) /\ N \in Nat
    <2>1. IsList(ordered) /\ Len(ordered) = N /\ Range(ordered) = S
        BY HintOrder
    <2> QED  BY <2>1, LenProperties DEF IsList
<1> HIDE DEF S, ordered
<1>2. \A c \in S : c.w \in 1 .. GridWidth
    BY DEF S
<1>3. /\ after[0] = [rows |-> <<>>, current |-> <<>>, used |-> 0]
      /\ \A n \in 1 .. N : after[n] = PackChart(after[n - 1], ordered[n])
    BY <1>1, PackingIs
<1> HIDE DEF N, after
<1>4. 0 \in X
    <2> DEFINE none == [rows |-> <<>>, current |-> <<>>, used |-> 0]
    <2>1. none.rows = <<>> /\ none.current = <<>> /\ none.used = 0
        OBVIOUS
    <2>2. FlattenSeq(<<>>) = <<>>
        BY DEF FlattenSeq
    <2>3. <<>> \o <<>> = <<>> /\ SubSeq(ordered, 1, 0) = <<>>
        BY SubSeqEmpty, ConcatEmptySeq, EmptySeq
    <2>4. Width(<<>>) = 0
        <3>1. IsList(<<>>) /\ Len(<<>>) = 0
            BY EmptySeq DEF IsList
        <3> QED  BY <3>1, WidthsIs DEF Width
    <2>5. Len(<<>>) = 0 /\ <<>> \in Seq(S) /\ <<>> \in Seq(Seq(S))
        BY EmptySeq
    <2> HIDE DEF none
    <2>a. FlattenSeq(none.rows) \o none.current = SubSeq(ordered, 1, 0)
        BY <2>1, <2>2, <2>3
    <2>b. none.rows \in Seq(Seq(S)) /\ none.current \in Seq(S)
        BY <2>1, <2>5
    <2>c. none.used = Width(none.current) /\ none.used <= GridWidth
        BY <2>1, <2>4 DEF GridWidth
    <2>d. \A i \in 1 .. Len(none.rows) : FALSE
        BY <2>1, <2>5
    <2>6. Packed(none, ordered, 0, S)
        BY <2>a, <2>b, <2>c, <2>d DEF Packed
    <2> QED  BY <1>3, <2>6 DEF none
<1>5. ASSUME NEW n \in Nat, n \in X PROVE n + 1 \in X
    <2>1. CASE n + 1 <= N
        <3>1. n + 1 \in 1 .. Len(ordered) /\ n + 1 \in 1 .. N /\ (n + 1) - 1 = n /\ n <= N
            BY <1>1, <2>1
        <3>2. Packed(after[(n + 1) - 1], ordered, (n + 1) - 1, S)
            BY <1>5, <3>1
        <3>3. Packed(PackChart(after[(n + 1) - 1], ordered[n + 1]), ordered, n + 1, S)
            BY <1>1, <1>2, <3>1, <3>2, PackStep
        <3> QED  BY <1>3, <3>1, <3>3
    <2>2. CASE ~(n + 1 <= N)
        BY <2>2
    <2> QED  BY <2>1, <2>2
<1> HIDE DEF X
<1>6. N \in X
    BY <1>1, <1>4, <1>5, Induct
<1>7. Packed(done, ordered, N, S)
    BY <1>1, <1>6 DEF X
<1>8. SubSeq(ordered, 1, N) = ordered
    BY <1>1, SubSeqFull
<1>9. PackRows(charts) = IF done.current = <<>> THEN done.rows ELSE Append(done.rows, done.current)
    BY DEF PackRows, after, N, ordered
<1> HIDE DEF done
<1>10. /\ done.rows \in Seq(Seq(S)) /\ done.current \in Seq(S)
       /\ FlattenSeq(done.rows) \o done.current = ordered
       /\ Width(done.current) <= GridWidth
       /\ \A i \in 1 .. Len(done.rows) : Width(done.rows[i]) <= GridWidth
    BY <1>7, <1>8 DEF Packed
<1>11. FlattenSeq(done.rows) \in Seq(S)
    BY <1>10, FlattenRange
<1>12. Range(done.rows) = {done.rows[i] : i \in 1 .. Len(done.rows)}
    BY <1>10, RangeEquality
<1>13. \A line \in Range(done.rows) : Width(line) <= GridWidth
    BY <1>10, <1>12
<1>14. CASE done.current = <<>>
    <2>1. FlattenSeq(done.rows) \o <<>> = FlattenSeq(done.rows)
        BY <1>11, ConcatEmptySeq
    <2> QED  BY <1>9, <1>10, <1>13, <1>14, <2>1 DEF ordered
<1>15. CASE done.current # <<>>
    <2>1. FlattenSeq(Append(done.rows, done.current)) = ordered
        BY <1>10, FlattenAppend
    <2>2. Range(Append(done.rows, done.current)) \subseteq Range(done.rows) \cup {done.current}
        <3>1. Append(done.rows, done.current) = done.rows \o <<done.current>>
            BY <1>10, AppendIsConcat
        <3> DEFINE one == <<done.current>>
        <3>2. Range(one) = {done.current}
            BY DEF Range
        <3>3. one \in Seq(Seq(S))
            BY <1>10
        <3> HIDE DEF one
        <3>4. Range(done.rows \o one) = Range(done.rows) \cup Range(one)
            BY <1>10, <3>3, RangeConcatenation
        <3> QED  BY <3>1, <3>2, <3>4 DEF one
    <2> QED  BY <1>9, <1>10, <1>13, <1>15, <2>1, <2>2 DEF ordered
<1> QED  BY <1>14, <1>15

-----------------------------------------------------------------------------
(* The grid of DataLens. *)

\* The loop over the charts, as its recursive definition reads it.
LEMMA PlacingIs ==
    ASSUME NEW charts, IsList(charts), NEW y0
    PROVE  /\ Placing(charts, y0)[0] = [tiles |-> <<>>, x |-> 0, y |-> y0, shelf |-> 0, row |-> <<>>]
           /\ \A n \in 1 .. Len(charts) :
                 Placing(charts, y0)[n] = PlaceTile(Placing(charts, y0)[n - 1], charts[n])
<1> DEFINE N == Len(charts)
           start == [tiles |-> <<>>, x |-> 0, y |-> y0, shelf |-> 0, row |-> <<>>]
           Value(h, n) == IF n = 0 THEN start ELSE PlaceTile(h[n - 1], charts[n])
           X == {m \in Nat : \E h : h = [n \in 0 .. m |-> Value(h, n)]}
           after == CHOOSE h : h = [n \in 0 .. N |-> Value(h, n)]
<1>1. N \in Nat
    BY LenProperties DEF IsList
<1> HIDE DEF start
<1>2. 0 \in X
    <2> DEFINE h == [n \in 0 .. 0 |-> start]
    <2>1. h = [n \in 0 .. 0 |-> Value(h, n)]
        OBVIOUS
    <2> QED  BY <2>1
<1>3. ASSUME NEW m \in Nat, m \in X PROVE m + 1 \in X
    <2>1. PICK h : h = [n \in 0 .. m |-> Value(h, n)]
        BY <1>3
    <2> DEFINE g == [n \in 0 .. m + 1 |-> IF n = m + 1 THEN PlaceTile(h[m], charts[m + 1]) ELSE h[n]]
    <2>2. ASSUME NEW n \in 0 .. m + 1 PROVE g[n] = Value(g, n)
        <3>1. CASE n = m + 1
            BY <3>1
        <3>2. CASE n # m + 1
            <4>1. n \in 0 .. m /\ (n # 0 => n - 1 \in 0 .. m /\ n - 1 \in 0 .. m + 1 /\ n - 1 # m + 1)
                BY <3>2
            <4>2. h[n] = Value(h, n)
                BY <2>1, <4>1
            <4>3. n # 0 => g[n - 1] = h[n - 1]
                BY <4>1
            <4> QED  BY <3>2, <4>2, <4>3
        <3> QED  BY <3>1, <3>2
    <2>3. g = [n \in 0 .. m + 1 |-> Value(g, n)]
        BY <2>2
    <2> HIDE DEF g, Value
    <2>4. \E x : x = [n \in 0 .. m + 1 |-> Value(x, n)]
        BY <2>3
    <2> QED  BY <2>4
<1> HIDE DEF X
<1>4. N \in X
    BY <1>1, <1>2, <1>3, Induct
<1>5. after = [n \in 0 .. N |-> Value(after, n)]
    BY <1>4 DEF X
<1>6. Placing(charts, y0) = after
    BY DEF Placing, start
<1> HIDE DEF after
<1>7. after[0] = start
    BY <1>1, <1>5
<1>8. \A n \in 1 .. N : after[n] = PlaceTile(after[n - 1], charts[n])
    BY <1>1, <1>5
<1> QED  BY <1>6, <1>7, <1>8 DEF start

\* A tile that ends where the next begins does not overlap it.
Apart(a, b) == a.x + a.w <= b.x \/ b.x + b.w <= a.x \/ a.y + a.h <= b.y \/ b.y + b.h <= a.y

IsTile(t) == t.x \in Nat /\ t.y \in Nat /\ t.w \in Nat /\ t.h \in Nat

\* What the loop of build_dashboard_data keeps: the tiles so far, each above
\* the open shelf or on it, left of the cursor and no taller than the shelf.
Shelved(acc, y0, n) ==
    /\ acc.x \in 0 .. DashCols /\ acc.y \in Nat /\ y0 <= acc.y /\ acc.shelf \in Nat
    /\ IsList(acc.tiles) /\ Len(acc.tiles) = n
    /\ \A i \in 1 .. n :
          LET t == acc.tiles[i]
          IN  /\ IsTile(t) /\ t.x + t.w <= DashCols /\ y0 <= t.y
              /\ \/ t.y + t.h <= acc.y
                 \/ t.y = acc.y /\ t.x + t.w <= acc.x /\ t.h <= acc.shelf
              /\ \A j \in 1 .. n : i # j => Apart(t, acc.tiles[j])

LEMMA ShelfStep ==
    ASSUME NEW acc, NEW y0 \in Nat, NEW n \in Nat, Shelved(acc, y0, n),
           NEW c, c.w \in 1 .. 12, c.h \in 1 .. 12
    PROVE  Shelved(PlaceTile(acc, c), y0, n + 1)
<1> DEFINE w == Smaller(c.w * HintWScale, DashCols)
           h == MinHeight(c.viz) + (IF c.h > HintDefaultH THEN (c.h - HintDefaultH) * HintHScale ELSE 0)
           wraps == acc.x > 0 /\ ((acc.row # <<>> /\ acc.row # <<c.row>>) \/ acc.x + w > DashCols)
           x == IF wraps THEN 0 ELSE acc.x
           y == IF wraps THEN acc.y + acc.shelf ELSE acc.y
           shelf == Shelf(acc, c, wraps, h)
           tile == Tile(<<"chart", c.id>>, x, y, w, h)
           tiles == Append(acc.tiles, tile)
           next == PlaceTile(acc, c)
<1>1. next.tiles = tiles /\ next.x = x + w /\ next.y = y /\ next.shelf = shelf
    BY DEF PlaceTile
<1>2. tile.x = x /\ tile.y = y /\ tile.w = w /\ tile.h = h
    BY DEF Tile
<1>3. w \in 1 .. DashCols
    BY DEF Smaller, HintWScale, DashCols
<1>4. h \in Nat \ {0}
    <2>1. MinHeight(c.viz) \in Nat \ {0}
        BY DEF MinHeight
    <2> QED  BY <2>1 DEF HintDefaultH, HintHScale
<1>5. /\ acc.x \in 0 .. DashCols /\ acc.y \in Nat /\ y0 <= acc.y /\ acc.shelf \in Nat
      /\ IsList(acc.tiles) /\ Len(acc.tiles) = n
    BY DEF Shelved
<1>6. ASSUME NEW i \in 1 .. n
      PROVE  /\ IsTile(acc.tiles[i]) /\ acc.tiles[i].x + acc.tiles[i].w <= DashCols /\ y0 <= acc.tiles[i].y
             /\ \/ acc.tiles[i].y + acc.tiles[i].h <= acc.y
                \/ /\ acc.tiles[i].y = acc.y /\ acc.tiles[i].x + acc.tiles[i].w <= acc.x
                   /\ acc.tiles[i].h <= acc.shelf
             /\ \A j \in 1 .. n : i # j => Apart(acc.tiles[i], acc.tiles[j])
    BY DEF Shelved
<1> HIDE DEF w, h, tile, next
<1>a. wraps => x = 0 /\ y = acc.y + acc.shelf /\ shelf = h
    BY DEF Shelf
<1>b. ~wraps => /\ x = acc.x /\ y = acc.y /\ shelf = Larger(acc.shelf, h)
                /\ acc.x = 0 \/ acc.x + w <= DashCols
    <2> DEFINE X == acc.x
    <2>1. X \in 0 .. 24 /\ w \in 1 .. 24
        BY <1>3, <1>5 DEF DashCols
    <2> HIDE DEF X
    <2>2. ~(X > 0 /\ X + w > 24) => X = 0 \/ X + w <= 24
        BY <2>1
    <2>3. ~wraps => ~(X > 0 /\ X + w > 24)
        BY DEF X, DashCols
    <2>4. ~wraps => x = acc.x /\ y = acc.y /\ shelf = Larger(acc.shelf, h)
        BY DEF Shelf
    <2> HIDE DEF wraps, x, y, shelf
    <2> QED  BY <2>2, <2>3, <2>4 DEF X, DashCols
<1>c. \/ x = 0 /\ y = acc.y + acc.shelf /\ shelf = h
      \/ /\ x = acc.x /\ y = acc.y /\ shelf = Larger(acc.shelf, h)
         /\ acc.x = 0 \/ acc.x + w <= DashCols
    BY <1>a, <1>b
<1> HIDE DEF wraps, x, y, shelf
<1>7. /\ x \in 0 .. DashCols /\ x + w <= DashCols /\ y \in Nat /\ acc.y <= y
      /\ shelf \in Nat /\ h <= shelf
      /\ y = acc.y + acc.shelf \/ (x = acc.x /\ y = acc.y /\ acc.shelf <= shelf)
    <2> DEFINE X == acc.x
               Y == acc.y
               s == acc.shelf
    <2>1. X \in 0 .. 24 /\ Y \in Nat /\ s \in Nat /\ w \in 1 .. 24 /\ h \in Nat
        BY <1>3, <1>4, <1>5 DEF DashCols
    <2>2. \/ x = 0 /\ y = Y + s /\ shelf = h
          \/ x = X /\ y = Y /\ shelf = Larger(s, h) /\ (X = 0 \/ X + w <= 24)
        BY <1>c DEF DashCols
    <2> HIDE DEF X, Y, s
    <2>3. /\ x \in 0 .. 24 /\ x + w <= 24 /\ y \in Nat /\ Y <= y /\ shelf \in Nat /\ h <= shelf
          /\ y = Y + s \/ (x = X /\ y = Y /\ s <= shelf)
        BY <2>1, <2>2 DEF Larger
    <2> QED  BY <2>3 DEF X, Y, s, DashCols
<1>8. ASSUME NEW i \in 1 .. n
      PROVE  \/ acc.tiles[i].y + acc.tiles[i].h <= y
             \/ /\ acc.tiles[i].y = y /\ acc.tiles[i].x + acc.tiles[i].w <= x
                /\ acc.tiles[i].h <= shelf
    <2> DEFINE t == acc.tiles[i]
    <2>1. /\ IsTile(t)
          /\ \/ t.y + t.h <= acc.y
             \/ t.y = acc.y /\ t.x + t.w <= acc.x /\ t.h <= acc.shelf
        BY <1>6
    <2> HIDE DEF t
    <2>2. t.y + t.h <= y \/ (t.y = y /\ t.x + t.w <= x /\ t.h <= shelf)
        BY SMTT(20), <1>5, <1>7, <2>1 DEF IsTile, DashCols
    <2> QED  BY <2>2 DEF t
<1>9. /\ IsList(tiles) /\ Len(tiles) = n + 1
      /\ \A i \in 1 .. n : tiles[i] = acc.tiles[i]
      /\ tiles[n + 1] = tile
    <2> DEFINE S == Range(acc.tiles) \cup {tile}
               old == acc.tiles
    <2>1. old \in Seq(S) /\ tile \in S /\ Len(old) = n
        BY <1>5, SeqMonotonic DEF IsList
    <2> HIDE DEF S, old
    <2>2. /\ Append(old, tile) \in Seq(S) /\ Len(Append(old, tile)) = n + 1
          /\ \A i \in 1 .. n : Append(old, tile)[i] = old[i]
          /\ Append(old, tile)[n + 1] = tile
        BY <2>1, AppendProperties
    <2>3. IsList(Append(old, tile))
        BY <2>2, SeqOfRange DEF IsList
    <2> QED  BY <2>2, <2>3 DEF old
<1> HIDE DEF tiles
<1>10. IsTile(tile)
    BY <1>2, <1>3, <1>4, <1>7 DEF IsTile
<1>11. ASSUME NEW i \in 1 .. n PROVE Apart(acc.tiles[i], tile) /\ Apart(tile, acc.tiles[i])
    <2> DEFINE t == acc.tiles[i]
    <2>1. t.y + t.h <= y \/ (t.y = y /\ t.x + t.w <= x)
        BY <1>8
    <2> HIDE DEF t
    <2>2. Apart(t, tile) /\ Apart(tile, t)
        BY <1>2, <2>1 DEF Apart
    <2> QED  BY <2>2 DEF t
<1>12. ASSUME NEW i \in 1 .. n + 1
       PROVE  /\ IsTile(tiles[i]) /\ tiles[i].x + tiles[i].w <= DashCols /\ y0 <= tiles[i].y
              /\ \/ tiles[i].y + tiles[i].h <= y
                 \/ tiles[i].y = y /\ tiles[i].x + tiles[i].w <= x + w /\ tiles[i].h <= shelf
              /\ \A j \in 1 .. n + 1 : i # j => Apart(tiles[i], tiles[j])
    <2>0. \A j \in 1 .. n + 1 : j \in 1 .. n \/ j = n + 1
        OBVIOUS
    <2>1. CASE i = n + 1
        <3>1. \A j \in 1 .. n : Apart(tile, tiles[j])
            BY <1>9, <1>11
        <3>2. tile.x + tile.w <= DashCols /\ y0 <= tile.y /\ tile.h <= shelf /\ tile.x + tile.w <= x + w
            BY <1>2, <1>3, <1>5, <1>7 DEF DashCols
        <3>3. \A j \in 1 .. n + 1 : i # j => Apart(tiles[i], tiles[j])
            BY <1>9, <2>0, <2>1, <3>1
        <3> QED  BY <1>2, <1>9, <1>10, <2>1, <3>2, <3>3
    <2>2. CASE i \in 1 .. n
        <3> DEFINE t == acc.tiles[i]
        <3>1. tiles[i] = t
            BY <1>9, <2>2
        <3>2. /\ IsTile(t) /\ t.x + t.w <= DashCols /\ y0 <= t.y
              /\ \A j \in 1 .. n : i # j => Apart(t, acc.tiles[j])
            BY <1>6, <2>2
        <3>3. t.y + t.h <= y \/ (t.y = y /\ t.x + t.w <= x /\ t.h <= shelf)
            BY <1>8, <2>2
        <3>4. Apart(t, tile)
            BY <1>11, <2>2
        <3> HIDE DEF t
        <3>5. t.x + t.w <= x => t.x + t.w <= x + w
            BY <1>3, <1>7, <3>2 DEF IsTile, DashCols
        <3>6. \A j \in 1 .. n + 1 : i # j => Apart(t, tiles[j])
            BY <1>9, <2>0, <3>2, <3>4
        <3> QED  BY <3>1, <3>2, <3>3, <3>5, <3>6
    <2> QED  BY <2>0, <2>1, <2>2
<1>13. x + w \in 0 .. DashCols /\ y0 <= y
    BY <1>3, <1>5, <1>7 DEF DashCols
<1>14. Shelved(next, y0, n + 1)
    BY <1>1, <1>7, <1>9, <1>12, <1>13 DEF Shelved
<1> QED  BY <1>14 DEF next

\* The tiles of the charts start below the controls and are apart.
LEMMA TilesHold ==
    ASSUME NEW charts, IsList(charts), \A c \in Range(charts) : c.w \in 1 .. 12 /\ c.h \in 1 .. 12,
           NEW y0 \in Nat
    PROVE  Shelved(Placing(charts, y0)[Len(charts)], y0, Len(charts))
<1> DEFINE N == Len(charts)
           after == Placing(charts, y0)
           start == [tiles |-> <<>>, x |-> 0, y |-> y0, shelf |-> 0, row |-> <<>>]
           X == {n \in Nat : n <= N => Shelved(after[n], y0, n)}
<1>1. N \in Nat /\ DOMAIN charts = 1 .. N
    BY LenProperties DEF IsList
<1>2. after[0] = start /\ \A n \in 1 .. N : after[n] = PlaceTile(after[n - 1], charts[n])
    BY PlacingIs
<1> HIDE DEF after
<1>3. 0 \in X
    <2>1. start.x = 0 /\ start.y = y0 /\ start.shelf = 0 /\ start.tiles = <<>>
        OBVIOUS
    <2>2. IsList(<<>>) /\ Len(<<>>) = 0
        BY EmptySeq DEF IsList
    <2> HIDE DEF start
    <2>3. Shelved(start, y0, 0)
        BY <2>1, <2>2 DEF Shelved, DashCols
    <2> QED  BY <1>2, <2>3
<1> HIDE DEF start
<1>4. ASSUME NEW n \in Nat, n \in X PROVE n + 1 \in X
    <2>1. CASE n + 1 <= N
        <3>1. n + 1 \in 1 .. N /\ (n + 1) - 1 = n /\ n <= N
            BY <1>1, <2>1
        <3>2. Shelved(after[n], y0, n)
            BY <1>4, <3>1
        <3>3. charts[n + 1].w \in 1 .. 12 /\ charts[n + 1].h \in 1 .. 12
            BY <1>1, <3>1 DEF Range
        <3>4. Shelved(PlaceTile(after[n], charts[n + 1]), y0, n + 1)
            BY <3>2, <3>3, ShelfStep
        <3>5. after[n + 1] = PlaceTile(after[n], charts[n + 1])
            BY <1>2, <3>1
        <3> QED  BY <3>4, <3>5
    <2>2. CASE ~(n + 1 <= N)
        BY <2>2
    <2> QED  BY <2>1, <2>2
<1> HIDE DEF X
<1>5. N \in X
    BY <1>1, <1>3, <1>4, Induct
<1> QED  BY <1>1, <1>5 DEF X, after

\* The controls fill rows of four above the charts.
LEMMA ControlsHold ==
    ASSUME NEW n \in Nat
    PROVE  LET tiles == ControlTiles(n)
               y0 == ((n + CtrlsPerRow - 1) \div CtrlsPerRow) * CtrlH
           IN  /\ IsList(tiles) /\ Len(tiles) = n /\ y0 \in Nat
               /\ \A i \in 1 .. n :
                     /\ IsTile(tiles[i]) /\ tiles[i].x + tiles[i].w <= DashCols
                     /\ tiles[i].y + tiles[i].h <= y0
                     /\ \A j \in 1 .. n : i # j => Apart(tiles[i], tiles[j])
<1> DEFINE tiles == ControlTiles(n)
           y0 == ((n + CtrlsPerRow - 1) \div CtrlsPerRow) * CtrlH
           per == IF n = 0 THEN 1 ELSE Smaller(n, CtrlsPerRow)
           w == Larger(CtrlW, DashCols \div per)
           Col(j) == (j - 1) % CtrlsPerRow
           Row(j) == (j - 1) \div CtrlsPerRow
<1>1. tiles = [j \in 1 .. n |-> Tile(<<"control", ToString(j)>>, Col(j) * w, Row(j) * CtrlH, w, CtrlH)]
    BY DEF ControlTiles
<1>2. IsList(tiles) /\ Len(tiles) = n
    <2>1. DOMAIN tiles = 1 .. n /\ tiles \in [1 .. n -> Range(tiles)]
        BY <1>1 DEF Range
    <2> HIDE DEF tiles
    <2> QED  BY <2>1 DEF IsList
<1>3. \A j \in 1 .. n : /\ tiles[j].x = Col(j) * w /\ tiles[j].y = Row(j) * 2
                        /\ tiles[j].w = w /\ tiles[j].h = 2
    BY <1>1 DEF Tile, CtrlH
<1>4. \A j \in 1 .. n : /\ Col(j) \in 0 .. 3 /\ Row(j) \in Nat /\ j - 1 = 4 * Row(j) + Col(j)
    BY DEF CtrlsPerRow
<1>5. \/ n = 0
      \/ n = 1 /\ w = 24
      \/ n = 2 /\ w = 12
      \/ n = 3 /\ w = 8
      \/ n >= 4 /\ w = 6
    BY DEF Smaller, Larger, CtrlsPerRow, CtrlW, DashCols
<1>6. y0 \in Nat /\ \A j \in 1 .. n : Row(j) * 2 + 2 <= y0
    <2>1. y0 \in Nat
        BY DEF CtrlsPerRow, CtrlH
    <2>2. ASSUME NEW j \in 1 .. n PROVE Row(j) * 2 + 2 <= y0
        BY DEF CtrlsPerRow, CtrlH
    <2> QED  BY <2>1, <2>2
<1> HIDE DEF w, Col, Row, tiles, y0
<1>7. ASSUME NEW i \in 1 .. n
      PROVE  /\ IsTile(tiles[i]) /\ tiles[i].x + tiles[i].w <= DashCols
             /\ tiles[i].y + tiles[i].h <= y0
    <2>1. Col(i) \in 0 .. 3 /\ Row(i) \in Nat /\ i - 1 = 4 * Row(i) + Col(i)
        BY <1>4
    <2>2. Col(i) * w \in Nat /\ w \in Nat /\ Col(i) * w + w <= 24
        <3>1. n # 0 /\ Col(i) < n
            BY <1>7, <2>1
        <3>2. CASE n = 1 /\ w = 24
            <4>1. Col(i) = 0
                BY <2>1, <3>1, <3>2
            <4> QED  BY <3>2, <4>1
        <3>3. CASE n = 2 /\ w = 12
            <4>1. Col(i) = 0 \/ Col(i) = 1
                BY <2>1, <3>1, <3>3
            <4> QED  BY <3>3, <4>1
        <3>4. CASE n = 3 /\ w = 8
            <4>1. Col(i) = 0 \/ Col(i) = 1 \/ Col(i) = 2
                BY <2>1, <3>1, <3>4
            <4> QED  BY <3>4, <4>1
        <3>5. CASE n >= 4 /\ w = 6
            <4>1. Col(i) = 0 \/ Col(i) = 1 \/ Col(i) = 2 \/ Col(i) = 3
                BY <2>1
            <4> QED  BY <3>5, <4>1
        <3> QED  BY <1>5, <3>1, <3>2, <3>3, <3>4, <3>5
    <2> QED  BY <1>3, <1>6, <2>1, <2>2 DEF IsTile, DashCols
<1>8. ASSUME NEW i \in 1 .. n, NEW j \in 1 .. n, i # j PROVE Apart(tiles[i], tiles[j])
    <2>1. /\ Col(i) \in 0 .. 3 /\ Row(i) \in Nat /\ i - 1 = 4 * Row(i) + Col(i)
          /\ Col(j) \in 0 .. 3 /\ Row(j) \in Nat /\ j - 1 = 4 * Row(j) + Col(j)
        BY <1>4
    <2>2. CASE Row(i) # Row(j)
        <3>1. Row(i) * 2 + 2 <= Row(j) * 2 \/ Row(j) * 2 + 2 <= Row(i) * 2
            BY <2>1, <2>2
        <3> QED  BY <1>3, <3>1 DEF Apart
    <2>3. CASE Row(i) = Row(j)
        <3>1. Col(i) # Col(j)
            BY <1>8, <2>1, <2>3
        <3>2. Col(i) * w + w <= Col(j) * w \/ Col(j) * w + w <= Col(i) * w
            BY <1>5, <2>1, <3>1
        <3> QED  BY <1>3, <3>2 DEF Apart
    <2> QED  BY <2>2, <2>3
<1>9. \A i \in 1 .. n :
         /\ IsTile(tiles[i]) /\ tiles[i].x + tiles[i].w <= DashCols
         /\ tiles[i].y + tiles[i].h <= y0
         /\ \A j \in 1 .. n : i # j => Apart(tiles[i], tiles[j])
    BY <1>7, <1>8
<1> QED  BY <1>2, <1>6, <1>9 DEF tiles, y0

\* Tiles that are apart do not overlap.
LEMMA ApartTiles ==
    ASSUME NEW a, NEW b, IsTile(a), IsTile(b), Apart(a, b)
    PROVE  ~Overlap(a, b)
BY DEF IsTile, Apart, Overlap

\* The selectors are a list.
LEMMA SelectorsList ==
    ASSUME NEW s, IsSpec(s)
    PROVE  IsList(build_selectors(s))
<1> DEFINE seq == s.filters
           K == {i \in DOMAIN seq : Reached(s, seq[i]) # <<>>}
           kept == At(seq, K)
<1>1. kept = Only(seq, LAMBDA f : Reached(s, f) # <<>>)
    BY DEF At, Only
<1>2. build_selectors(s) = [i \in DOMAIN kept |-> Selector(s, kept[i])]
    BY <1>1 DEF build_selectors, Map
<1>3. seq \in Seq(Range(seq))
    BY DEF IsSpec, IsList
<1> HIDE DEF K
<1>4. kept \in Seq(Range(seq))
    BY <1>3, Kept
<1> HIDE DEF kept
<1>5. IsList(kept)
    BY <1>4, SeqOfRange DEF IsList
<1> QED  BY <1>2, <1>5, Listing

\* The dashboard of DataLens: the controls above the charts, all of it apart
\* and inside the grid.
LEMMA LayoutHolds ==
    ASSUME NEW s, IsSpec(s)
    PROVE  \A i, j \in DOMAIN DashLayout(s) :
              /\ DashLayout(s)[i].x + DashLayout(s)[i].w <= DashCols
              /\ i # j => ~Overlap(DashLayout(s)[i], DashLayout(s)[j])
<1> DEFINE n == Len(build_selectors(s))
           y0 == ((n + CtrlsPerRow - 1) \div CtrlsPerRow) * CtrlH
           above == ControlTiles(n)
           N == Len(s.charts)
           placed == Placing(s.charts, y0)[N]
           below == placed.tiles
           grid == above \o below
<1>1. n \in Nat /\ N \in Nat /\ IsList(s.charts)
    <2>1. IsList(build_selectors(s))
        BY SelectorsList
    <2> QED  BY <2>1, LenProperties DEF IsSpec, IsList
<1>2. DashLayout(s) = grid
    BY DEF DashLayout
<1> HIDE DEF n
<1>3. /\ IsList(above) /\ Len(above) = n /\ y0 \in Nat
      /\ \A i \in 1 .. n :
            /\ IsTile(above[i]) /\ above[i].x + above[i].w <= DashCols
            /\ above[i].y + above[i].h <= y0
            /\ \A j \in 1 .. n : i # j => Apart(above[i], above[j])
    BY <1>1, ControlsHold
<1>4. \A c \in Range(s.charts) : c.w \in 1 .. 12 /\ c.h \in 1 .. 12
    BY DEF IsSpec, IsChart
<1> HIDE DEF y0
<1>5. Shelved(placed, y0, N)
    BY <1>1, <1>3, <1>4, TilesHold
<1> HIDE DEF placed, N
<1>6. /\ IsList(below) /\ Len(below) = N
      /\ \A i \in 1 .. N :
            /\ IsTile(below[i]) /\ below[i].x + below[i].w <= DashCols /\ y0 <= below[i].y
            /\ \A j \in 1 .. N : i # j => Apart(below[i], below[j])
    BY <1>5 DEF Shelved
<1> HIDE DEF above, below
<1>7. /\ DOMAIN grid = 1 .. n + N
      /\ \A i \in 1 .. n + N : grid[i] = IF i <= n THEN above[i] ELSE below[i - n]
    <2> DEFINE S == Range(above) \cup Range(below)
    <2>1. above \in Seq(S) /\ below \in Seq(S)
        BY <1>3, <1>6, SeqMonotonic DEF IsList
    <2> HIDE DEF S
    <2>2. /\ above \o below \in Seq(S) /\ Len(above \o below) = n + N
          /\ \A i \in 1 .. n + N : (above \o below)[i] = IF i <= n THEN above[i] ELSE below[i - n]
        BY <1>3, <1>6, <2>1, ConcatProperties
    <2> QED  BY <2>2, LenProperties
<1> HIDE DEF grid
<1>8. ASSUME NEW i \in 1 .. n + N
      PROVE  /\ IsTile(grid[i]) /\ grid[i].x + grid[i].w <= DashCols
             /\ \A j \in 1 .. n + N : i # j => Apart(grid[i], grid[j])
    <2>1. \A k \in 1 .. n + N : k \in 1 .. n \/ (~(k <= n) /\ k - n \in 1 .. N)
        BY <1>1
    <2>2. CASE i \in 1 .. n
        <3> DEFINE t == above[i]
        <3>1. /\ IsTile(t) /\ t.x + t.w <= DashCols /\ t.y + t.h <= y0
              /\ \A j \in 1 .. n : i # j => Apart(t, above[j])
            BY <1>3, <2>2
        <3>2. grid[i] = t
            BY <1>1, <1>7, <2>2
        <3> HIDE DEF t
        <3>3. ASSUME NEW j \in 1 .. n + N, i # j PROVE Apart(t, grid[j])
            <4>1. CASE j \in 1 .. n
                <5>1. grid[j] = above[j]
                    BY <1>1, <1>7, <4>1
                <5> QED  BY <3>1, <3>3, <4>1, <5>1
            <4>2. CASE ~(j <= n) /\ j - n \in 1 .. N
                <5> DEFINE u == below[j - n]
                <5>1. grid[j] = u
                    BY <1>7, <4>2
                <5>2. IsTile(u) /\ y0 <= u.y
                    BY <1>6, <4>2
                <5> HIDE DEF u
                <5>3. t.y + t.h <= u.y
                    BY <1>3, <3>1, <5>2 DEF IsTile
                <5> QED  BY <5>1, <5>3 DEF Apart
            <4> QED  BY <2>1, <4>1, <4>2
        <3> QED  BY <3>1, <3>2, <3>3
    <2>3. CASE ~(i <= n) /\ i - n \in 1 .. N
        <3> DEFINE t == below[i - n]
        <3>1. /\ IsTile(t) /\ t.x + t.w <= DashCols /\ y0 <= t.y
              /\ \A j \in 1 .. N : i - n # j => Apart(t, below[j])
            BY <1>6, <2>3
        <3>2. grid[i] = t
            BY <1>7, <2>3
        <3> HIDE DEF t
        <3>3. ASSUME NEW j \in 1 .. n + N, i # j PROVE Apart(t, grid[j])
            <4>1. CASE j \in 1 .. n
                <5> DEFINE u == above[j]
                <5>1. grid[j] = u
                    BY <1>1, <1>7, <4>1
                <5>2. IsTile(u) /\ u.y + u.h <= y0
                    BY <1>3, <4>1
                <5> HIDE DEF u
                <5>3. u.y + u.h <= t.y
                    BY <1>3, <3>1, <5>2 DEF IsTile
                <5> QED  BY <5>1, <5>3 DEF Apart
            <4>2. CASE ~(j <= n) /\ j - n \in 1 .. N
                <5>1. grid[j] = below[j - n]
                    BY <1>7, <4>2
                <5>2. i - n # j - n
                    BY <1>1, <3>3
                <5> QED  BY <3>1, <4>2, <5>1, <5>2
            <4> QED  BY <2>1, <4>1, <4>2
        <3> QED  BY <3>1, <3>2, <3>3
    <2> QED  BY <2>1, <2>2, <2>3
<1>9. ASSUME NEW i \in 1 .. n + N, NEW j \in 1 .. n + N
      PROVE  /\ grid[i].x + grid[i].w <= DashCols
             /\ i # j => ~Overlap(grid[i], grid[j])
    BY <1>8, ApartTiles
<1> QED  BY <1>2, <1>7, <1>9

\* The grid of a built dashboard.
LEMMA BuildGrid == GateInv => GridHolds
<1> SUFFICES ASSUME GateInv, IsBuilt
             PROVE  IF OnSuperset
                    THEN /\ \A line \in Range(TheBuild.grid) : Widths(line)[Len(line)] <= GridWidth
                         /\ Range(FlattenSeq(TheBuild.grid)) = Range(spec.charts)
                         /\ Len(FlattenSeq(TheBuild.grid)) = Len(spec.charts)
                    ELSE \A i, j \in DOMAIN TheBuild.grid :
                            /\ TheBuild.grid[i].x + TheBuild.grid[i].w <= DashCols
                            /\ i # j => ~Overlap(TheBuild.grid[i], TheBuild.grid[j])
    BY DEF GridHolds
<1>1. IsSpec(spec)
    BY DEF GateInv
<1>2. PICK large \in BOOLEAN : built = <<Compiled(spec, trials, large)>>
    BY DEF GateInv, IsBuilt
<1>3. CASE OnSuperset
    <2>1. TheBuild.grid = PackRows(spec.charts)
        BY <1>2, <1>3 DEF TheBuild, Compiled, SupersetBuild, OnSuperset
    <2>2. IsList(spec.charts) /\ \A c \in Range(spec.charts) : c.w \in 1 .. GridWidth /\ c.row \in Nat
        BY <1>1 DEF IsSpec, IsChart, GridWidth
    <2>3. /\ \A line \in Range(PackRows(spec.charts)) : Width(line) <= GridWidth
          /\ FlattenSeq(PackRows(spec.charts)) = ByHintRow(spec.charts)
        BY <2>2, RowsHold
    <2>4. /\ Len(ByHintRow(spec.charts)) = Len(spec.charts)
          /\ Range(ByHintRow(spec.charts)) = Range(spec.charts)
        BY <2>2, HintOrder
    <2> QED  BY <1>3, <2>1, <2>3, <2>4 DEF Width
<1>4. CASE ~OnSuperset
    <2>1. TheBuild.grid = DashLayout(spec)
        BY <1>2, <1>4 DEF TheBuild, Compiled, DataLensBuild, OnSuperset
    <2> QED  BY <1>1, <1>4, <2>1, LayoutHolds
<1> QED  BY <1>3, <1>4

\* Every chart of a built dashboard is on its grid once, no row of Superset is
\* wider than the grid, and no two tiles of DataLens overlap or leave it, for
\* any number of charts and controls and any sizes the IR accepts.
THEOREM GridSound == Spec => []GridHolds
BY Gated, BuildGrid, PTL

===============================================================================
