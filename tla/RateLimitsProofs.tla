--------------------------- MODULE RateLimitsProofs ---------------------------
(***************************************************************************)
(* Proofs about RateLimits, for any policies, any number of keys and any   *)
(* caps: what a limiter lets through in one window is bounded whatever     *)
(* strikes, lockouts and purges come between; a purge drops nothing that   *)
(* could still refuse anyone; and every place of the stream gate is        *)
(* accounted for.  What holds of a key is said of the values it has, so    *)
(* that the lemmas about a step speak of plain numbers and tables.         *)
(***************************************************************************)
EXTENDS RateLimits, FiniteSetTheorems, WellFoundedInduction, TLAPS

-----------------------------------------------------------------------------
(* What a table of numbers comes to. *)

LEMMA UnitsOf ==
    ASSUME NEW S, NEW f \in [S -> Nat]
    PROVE  /\ \A u \in Units(f) : /\ u = <<u[1], u[2]>>
                                  /\ u[1] \in S
                                  /\ u[2] \in 1 .. f[u[1]]
           /\ \A x \in S : \A y \in 1 .. f[x] : <<x, y>> \in Units(f)
BY DEF Units

LEMMA CountFinite ==
    ASSUME NEW S, IsFiniteSet(S), NEW f \in [S -> Nat]
    PROVE  /\ IsFiniteSet(Units(f))
           /\ Count(f) \in Nat
<1> DEFINE P == {{x} \X (1 .. f[x]) : x \in S}
           F == [x \in S |-> {x} \X (1 .. f[x])]
<1>1. F \in Surjection(S, P)
    BY DEF Surjection
<1>2. IsFiniteSet(P)
    BY <1>1, FS_Surjection
<1>3. ASSUME NEW T \in P PROVE IsFiniteSet(T)
    <2>1. PICK x \in S : T = {x} \X (1 .. f[x])
        OBVIOUS
    <2>2. IsFiniteSet({x})
        BY FS_Singleton, Zenon
    <2>3. IsFiniteSet(1 .. f[x])
        <3>1. 1 \in Int /\ f[x] \in Int
            OBVIOUS
        <3> QED  BY <3>1, FS_Interval
    <2>4. IsFiniteSet({x} \X (1 .. f[x]))
        BY <2>2, <2>3, FS_Product, Zenon
    <2> QED  BY <2>1, <2>4
<1>4. Units(f) = UNION P
    BY DEF Units
<1> HIDE DEF P
<1>5. IsFiniteSet(Units(f))
    BY <1>2, <1>3, <1>4, FS_UNION
<1> QED  BY <1>5, FS_CardinalityType DEF Count

LEMMA CountMono ==
    ASSUME NEW S, IsFiniteSet(S), NEW f \in [S -> Nat], NEW h \in [S -> Nat],
           \A x \in S : h[x] <= f[x]
    PROVE  Count(h) <= Count(f)
<1>1. Units(h) \subseteq Units(f)
    <2> SUFFICES ASSUME NEW x \in S, NEW y \in 1 .. h[x] PROVE y \in 1 .. f[x]
        BY DEF Units
    <2>1. h[x] \in Nat /\ f[x] \in Nat /\ h[x] <= f[x]
        OBVIOUS
    <2> QED  BY <2>1
<1>2. IsFiniteSet(Units(f))
    BY CountFinite
<1> QED  BY <1>1, <1>2, FS_Subset DEF Count

LEMMA CountZero ==
    ASSUME NEW S, NEW f \in [S -> Nat], \A x \in S : f[x] = 0
    PROVE  Count(f) = 0
<1>1. Units(f) = {}
    <2>1. \A x \in S : 1 .. f[x] = {}
        OBVIOUS
    <2> QED  BY <2>1 DEF Units
<1> QED  BY <1>1, FS_EmptySet DEF Count

LEMMA CountMore ==
    ASSUME NEW S, IsFiniteSet(S), NEW f \in [S -> Nat], NEW s \in S,
           NEW h \in [S -> Nat], h = [f EXCEPT ![s] = @ + 1]
    PROVE  Count(h) <= Count(f) + 1
<1> DEFINE u == <<s, f[s] + 1>>
<1>1. Units(h) \subseteq Units(f) \cup {u}
    <2> SUFFICES ASSUME NEW x \in S, NEW y \in 1 .. h[x]
                 PROVE  y \in 1 .. f[x] \/ (x = s /\ y = f[s] + 1)
        BY DEF Units
    <2>1. h[x] = (IF x = s THEN f[s] + 1 ELSE f[x]) /\ f[x] \in Nat
        OBVIOUS
    <2> QED  BY <2>1
<1> HIDE DEF u
<1>2. IsFiniteSet(Units(f)) /\ Count(f) \in Nat
    BY CountFinite
<1>3. /\ IsFiniteSet(Units(f) \cup {u})
      /\ Cardinality(Units(f) \cup {u}) = (IF u \in Units(f) THEN Count(f) ELSE Count(f) + 1)
    BY <1>2, FS_AddElement DEF Count
<1>4. Count(h) <= Cardinality(Units(f) \cup {u})
    BY <1>1, <1>3, FS_Subset DEF Count
<1>5. Count(h) \in Nat
    BY CountFinite
<1> QED  BY <1>2, <1>3, <1>4, <1>5

\* A table that is one step older than another counts no more.
LEMMA CountOlder ==
    ASSUME NEW n \in Nat, NEW f \in [0 .. n - 1 -> Nat], NEW h \in [0 .. n - 1 -> Nat],
           \A x \in 0 .. n - 1 : h[x] > 0 => x > 0 /\ h[x] <= f[x - 1]
    PROVE  Count(h) <= Count(f)
<1> DEFINE F == [u \in Units(h) |-> <<u[1] - 1, u[2]>>]
<1>1. \A u \in Units(h) : /\ u = <<u[1], u[2]>>
                          /\ u[1] \in 0 .. n - 1
                          /\ u[2] \in 1 .. h[u[1]]
    BY UnitsOf
<1>2. ASSUME NEW u \in Units(h) PROVE F[u] \in Units(f)
    <2>1. u[1] \in 0 .. n - 1 /\ u[2] \in 1 .. h[u[1]]
        BY <1>1
    <2>2. h[u[1]] \in Nat /\ h[u[1]] > 0
        BY <2>1
    <2>3. u[1] > 0 /\ h[u[1]] <= f[u[1] - 1]
        BY <2>1, <2>2
    <2>4. u[1] - 1 \in 0 .. n - 1 /\ f[u[1] - 1] \in Nat
        BY <2>1, <2>3
    <2>5. u[2] \in 1 .. f[u[1] - 1]
        BY <2>1, <2>2, <2>3, <2>4
    <2>6. <<u[1] - 1, u[2]>> \in Units(f)
        BY <2>4, <2>5, UnitsOf
    <2> QED  BY <2>6
<1>3. ASSUME NEW u \in Units(h), NEW v \in Units(h), F[u] = F[v] PROVE u = v
    <2>1. u[1] - 1 = v[1] - 1 /\ u[2] = v[2]
        BY <1>3
    <2>2. u[1] = v[1]
        BY <1>1, <2>1
    <2> QED  BY <1>1, <2>1, <2>2
<1>4. F \in Injection(Units(h), Units(f))
    BY <1>2, <1>3 DEF Injection, IsInjective
<1>5. IsFiniteSet(Units(f))
    <2>1. IsFiniteSet(0 .. n - 1)
        <3>1. 0 \in Int /\ n - 1 \in Int
            OBVIOUS
        <3> QED  BY <3>1, FS_Interval
    <2> QED  BY <2>1, CountFinite
<1> QED  BY <1>4, <1>5, FS_Injection DEF Count

LEMMA CountSum ==
    ASSUME NEW S, IsFiniteSet(S), NEW f \in [S -> Nat], NEW h \in [S -> Nat],
           NEW e \in [S -> Nat], \A x \in S : e[x] <= f[x] + h[x]
    PROVE  Count(e) <= Count(f) + Count(h)
<1> DEFINE D == Units(e) \ Units(f)
           F == [u \in D |-> <<u[1], u[2] - f[u[1]]>>]
<1>1. ASSUME NEW u \in D
      PROVE  /\ u = <<u[1], u[2]>>
             /\ u[1] \in S
             /\ u[2] \in Nat
             /\ u[2] - f[u[1]] \in 1 .. h[u[1]]
    <2>1. u = <<u[1], u[2]>> /\ u[1] \in S /\ u[2] \in 1 .. e[u[1]]
        BY UnitsOf
    <2>2. f[u[1]] \in Nat /\ h[u[1]] \in Nat /\ e[u[1]] \in Nat /\ e[u[1]] <= f[u[1]] + h[u[1]]
        BY <2>1
    <2>3. u[2] \notin 1 .. f[u[1]]
        BY <2>1, UnitsOf
    <2> QED  BY <2>1, <2>2, <2>3
<1>2. ASSUME NEW u \in D PROVE F[u] \in Units(h)
    <2>1. <<u[1], u[2] - f[u[1]]>> \in Units(h)
        BY <1>1, UnitsOf
    <2> QED  BY <2>1
<1>3. ASSUME NEW u \in D, NEW v \in D, F[u] = F[v] PROVE u = v
    <2>1. u[1] = v[1] /\ u[2] - f[u[1]] = v[2] - f[v[1]]
        BY <1>3
    <2>2. u[2] \in Nat /\ v[2] \in Nat /\ f[u[1]] \in Nat
        BY <1>1
    <2>3. u[2] = v[2]
        BY <2>1, <2>2
    <2> QED  BY <1>1, <2>1, <2>3
<1>4. F \in Injection(D, Units(h))
    BY <1>2, <1>3 DEF Injection, IsInjective
<1>5. /\ IsFiniteSet(Units(h)) /\ Count(h) \in Nat
      /\ IsFiniteSet(Units(f)) /\ Count(f) \in Nat
      /\ Count(e) \in Nat
    BY CountFinite
<1>6. IsFiniteSet(D) /\ Cardinality(D) <= Count(h)
    BY <1>4, <1>5, FS_Injection DEF Count
<1>7. /\ IsFiniteSet(Units(f) \cup D)
      /\ Cardinality(Units(f) \cup D) = Count(f) + Cardinality(D) - Cardinality(Units(f) \cap D)
    BY <1>5, <1>6, FS_Union DEF Count
<1>8. Cardinality(D) \in Nat /\ Cardinality(Units(f) \cap D) \in Nat
    BY <1>5, <1>6, FS_Intersection, FS_CardinalityType
<1>9. Units(e) \subseteq Units(f) \cup D
    OBVIOUS
<1>10. Count(e) <= Cardinality(Units(f) \cup D)
    BY <1>7, <1>9, FS_Subset DEF Count
<1> HIDE DEF D
<1> QED  BY <1>5, <1>6, <1>7, <1>8, <1>10

-----------------------------------------------------------------------------
(* Lengths of lockouts. *)

\* The powers of two up to a bound, and that Power is the table of them.
Doubles(m, h) ==
    /\ h \in [0 .. m -> Nat]
    /\ h[0] = 1
    /\ \A i \in 1 .. m : h[i] = 2 * h[i - 1]

LEMMA PowerExists == \A m \in Nat : \E h : Doubles(m, h)
<1> DEFINE T == {m \in Nat : ~\E h : Doubles(m, h)}
<1> SUFFICES ASSUME T # {} PROVE FALSE
    OBVIOUS
<1>1. PICK m \in T : \A j \in T : ~(<<j, m>> \in OpToRel(<, Nat))
    BY NatLessThanWellFounded, WFMin
<1>2. \A j \in Nat : j < m => j \notin T
    BY <1>1 DEF OpToRel
<1>3. CASE m = 0
    <2>1. Doubles(0, [i \in 0 .. 0 |-> 1])
        BY DEF Doubles
    <2> QED  BY <1>3, <2>1
<1>4. CASE m # 0
    <2>1. m \in Nat /\ m - 1 \in Nat /\ m - 1 < m
        BY <1>4
    <2>2. PICK h : Doubles(m - 1, h)
        BY <1>2, <2>1
    <2> DEFINE g == [i \in 0 .. m |-> IF i = m THEN 2 * h[m - 1] ELSE h[i]]
    <2>3. g \in [0 .. m -> Nat]
        BY <2>1, <2>2 DEF Doubles
    <2>4. g[0] = 1
        BY <2>1, <2>2, <1>4 DEF Doubles
    <2>5. ASSUME NEW i \in 1 .. m PROVE g[i] = 2 * g[i - 1]
        BY <2>1, <2>2 DEF Doubles
    <2>6. Doubles(m, g)
        BY <2>3, <2>4, <2>5 DEF Doubles
    <2> QED  BY <2>6
<1> QED  BY <1>3, <1>4

LEMMA Powers ==
    /\ Power \in [0 .. FloatExp -> Nat]
    /\ Power[0] = 1
    /\ \A n \in 1 .. FloatExp : Power[n] = 2 * Power[n - 1]
<1> DEFINE F(h) == [n \in 0 .. FloatExp |-> IF n = 0 THEN 1 ELSE 2 * h[n - 1]]
<1>1. PICK h : Doubles(FloatExp, h)
    BY PowerExists, BoundAssumption
<1>2. h = F(h)
    <2>1. FloatExp \in Nat
        BY BoundAssumption
    <2>2. \A n \in 0 .. FloatExp : h[n] = IF n = 0 THEN 1 ELSE 2 * h[n - 1]
        BY <1>1, <2>1 DEF Doubles
    <2>3. h = [n \in 0 .. FloatExp |-> h[n]]
        BY <1>1 DEF Doubles
    <2> QED  BY <2>2, <2>3
<1>3. Power = F(Power)
    BY <1>2 DEF Power
<1>31. \A n \in 0 .. FloatExp : Power[n] = IF n = 0 THEN 1 ELSE 2 * Power[n - 1]
    BY <1>3
<1>4. ASSUME NEW m \in 0 .. FloatExp PROVE Power[m] = h[m]
    <2> DEFINE T == {j \in Nat : j <= FloatExp /\ Power[j] # h[j]}
    <2> SUFFICES ASSUME T # {} PROVE FALSE
        BY BoundAssumption
    <2>1. PICK j \in T : \A i \in T : ~(<<i, j>> \in OpToRel(<, Nat))
        BY NatLessThanWellFounded, WFMin
    <2>2. \A i \in Nat : i < j => i \notin T
        BY <2>1 DEF OpToRel
    <2>3. j # 0
        BY <1>1, <1>3, BoundAssumption DEF Doubles
    <2>4. j - 1 \in Nat /\ j - 1 < j /\ j \in 1 .. FloatExp
        BY <2>3, BoundAssumption
    <2>5. Power[j - 1] = h[j - 1]
        BY <2>2, <2>4, BoundAssumption
    <2>6. Power[j] = 2 * Power[j - 1]
        BY <1>31, <2>3, <2>4, BoundAssumption
    <2> QED  BY <1>1, <2>4, <2>5, <2>6 DEF Doubles
<1>5. DOMAIN Power = 0 .. FloatExp /\ Power = [n \in 0 .. FloatExp |-> Power[n]]
    BY <1>3
<1>6. Power = h
    BY <1>1, <1>4, <1>5 DEF Doubles
<1> QED  BY <1>1, <1>6 DEF Doubles

LEMMA MaxOfTwo ==
    ASSUME NEW x \in Int, NEW y \in Int
    PROVE  Max({x, y}) = IF x >= y THEN x ELSE y
BY DEF Max

LEMMA MinOfTwo ==
    ASSUME NEW x \in Int, NEW y \in Int
    PROVE  Min({x, y}) = IF x <= y THEN x ELSE y
BY DEF Min

LEMMA PowersGrow ==
    /\ Power \in [0 .. FloatExp -> Nat]
    /\ \A n \in 0 .. FloatExp : Power[n] >= 1 /\ (n > 0 => Power[n] >= 2)
<1> DEFINE T == {j \in Nat : j <= FloatExp /\ ~(Power[j] >= 1)}
<1>1. T = {}
    <2> SUFFICES ASSUME T # {} PROVE FALSE
        OBVIOUS
    <2>1. PICK j \in T : \A i \in T : ~(<<i, j>> \in OpToRel(<, Nat))
        BY NatLessThanWellFounded, WFMin
    <2>2. \A i \in Nat : i < j => i \notin T
        BY <2>1 DEF OpToRel
    <2>3. j # 0
        BY Powers
    <2>4. j - 1 \in Nat /\ j - 1 < j /\ j \in 1 .. FloatExp /\ j - 1 \in 0 .. FloatExp
        BY <2>3, BoundAssumption
    <2>5. Power[j - 1] >= 1
        BY <2>2, <2>4, BoundAssumption
    <2>6. Power[j] = 2 * Power[j - 1] /\ Power[j - 1] \in Nat
        BY <2>4, Powers
    <2> QED  BY <2>4, <2>5, <2>6
<1>2. ASSUME NEW n \in 0 .. FloatExp PROVE Power[n] \in Nat /\ Power[n] >= 1
    <2>1. n \in Nat /\ n <= FloatExp
        BY BoundAssumption
    <2>2. Power[n] \in Nat
        BY Powers
    <2>3. n \notin T
        BY <1>1
    <2> QED  BY <2>1, <2>2, <2>3
<1>3. ASSUME NEW n \in 1 .. FloatExp PROVE Power[n] >= 2
    <2>1. n - 1 \in 0 .. FloatExp
        BY BoundAssumption
    <2> QED  BY <1>2, <2>1, Powers
<1>4. \A n \in 0 .. FloatExp : n > 0 => n \in 1 .. FloatExp
    BY BoundAssumption
<1> QED  BY <1>2, <1>3, <1>4, Powers

\* A first lockout lasts the base, a later one at least twice that or the cap.
LEMMA LengthBounds ==
    ASSUME NEW p \in Policies, NEW n \in 1 .. FloatExp
    PROVE  /\ Length(p, n) \in Nat
           /\ Length(p, n) >= p.base
           /\ n >= 2 => Length(p, n) >= 2 * p.base \/ Length(p, n) >= p.cap
<1> DEFINE w == Power[n - 1]
           b == p.base
           c == p.cap
<1>1. b \in Nat /\ b > 0 /\ c \in Nat /\ b <= c
    BY PolicyAssumption
<1>2. n - 1 \in 0 .. FloatExp
    BY BoundAssumption
<1>3. w \in Nat /\ w >= 1 /\ (n >= 2 => w >= 2)
    BY <1>2, PowersGrow
<1>4. Length(p, n) = Min({b * w, c})
    BY DEF Length
<1> HIDE DEF w, b, c
<1>5. b * w \in Nat /\ b * w >= b /\ (w >= 2 => b * w >= 2 * b)
    <2>1. b * w \in Nat
        BY <1>1, <1>3
    <2>2. PICK d \in Nat : w = 1 + d
        <3>1. w - 1 \in Nat /\ w = 1 + (w - 1)
            BY <1>3
        <3> QED  BY <3>1
    <2>3. b * w = b + b * d /\ b * d \in Nat
        BY <1>1, <2>2
    <2>4. ASSUME w >= 2 PROVE b * w >= 2 * b
        <3>1. PICK e \in Nat : w = 2 + e
            <4>1. w - 2 \in Nat /\ w = 2 + (w - 2)
                BY <1>3, <2>4
            <4> QED  BY <4>1
        <3>2. b * w = 2 * b + b * e /\ b * e \in Nat
            BY <1>1, <3>1
        <3> QED  BY <1>1, <3>2
    <2> QED  BY <1>1, <2>1, <2>3, <2>4
<1>6. Length(p, n) = IF b * w <= c THEN b * w ELSE c
    BY <1>1, <1>4, <1>5, MinOfTwo
<1>7. /\ Length(p, n) \in Nat
      /\ Length(p, n) >= b
      /\ n >= 2 => Length(p, n) >= 2 * b \/ Length(p, n) >= c
    BY <1>1, <1>3, <1>5, <1>6
<1> QED  BY <1>7 DEF b, c

-----------------------------------------------------------------------------
(* What holds of one key.  While 2 base >= window:                         *)
(*  - not locked, all it was let through more recently than the base is    *)
(*    counted, and what is not counted any more is at most one batch;      *)
(*  - locked, nothing is counted, two batches are in the window at most,   *)
(*    and only one of them is young enough to be there when the lockout    *)
(*    ends;                                                                *)
(*  - when a lockout covers the window, the batch before it is gone at its *)
(*    end.                                                                 *)

Less(g, f)     == [x \in DOMAIN g |-> g[x] - f[x]]
Younger(g, m)  == [x \in DOMAIN g |-> IF x < m THEN g[x] ELSE 0]
OneBatch(p, n) == p.base >= p.window \/ (n >= 2 /\ p.cap >= p.window)

KeyTypeOK(p, a, g, l, n, i) ==
    /\ a \in [Ages(p) -> Nat]
    /\ g \in [Ages(p) -> Nat]
    /\ l \in Nat
    /\ n \in 0 .. StrikeTop
    /\ i \in Nat

\* Nothing was let through since the key was last seen.
SeenInv(p, a, g, i) == \A x \in Ages(p) : a[x] <= g[x] /\ (x < i => g[x] = 0)

OpenInv(p, a, g) ==
    /\ \A x \in Ages(p) : x < p.base => g[x] = a[x]
    /\ Count(Less(g, a)) <= p.limit

LockedInv(p, a, g, l) ==
    /\ a = Empty(p)
    /\ Count(g) <= 2 * p.limit
    /\ Count(Younger(g, 2 * p.base - l)) <= p.limit
    /\ \A x \in Ages(p) : x < p.base - l => g[x] = 0

BatchInv(p, a, g, l, n) ==
    OneBatch(p, n) =>
        /\ l = 0 => g = a
        /\ \A x \in Ages(p) : l > 0 /\ x < p.window - l => g[x] = 0
        /\ p.base >= p.window => Count(g) <= p.limit

WindowInv(p, a, g, l, n) ==
    2 * p.base >= p.window =>
        /\ l = 0 => OpenInv(p, a, g)
        /\ l > 0 => LockedInv(p, a, g, l)
        /\ BatchInv(p, a, g, l, n)

KeyInv(p, a, g, l, n, i) ==
    /\ KeyTypeOK(p, a, g, l, n, i)
    /\ SeenInv(p, a, g, i)
    /\ Count(a) <= p.limit
    /\ WindowInv(p, a, g, l, n)

LimiterInv ==
    /\ policy \in Policies
    /\ \A k \in Keys :
        KeyInv(policy, attempts[k], granted[k], lockout[k], strikes[k], idle[k])

LEMMA PolicyNumbers ==
    ASSUME NEW p \in Policies
    PROVE  /\ p.limit \in Nat /\ p.limit > 0
           /\ p.window \in Nat /\ p.window > 0
           /\ p.base \in Nat /\ p.base > 0
           /\ p.cap \in Nat /\ p.base <= p.cap
           /\ IsFiniteSet(Ages(p))
           /\ \A x \in Ages(p) : x \in Nat /\ x < p.window
           /\ 0 \in Ages(p)
           /\ Empty(p) \in [Ages(p) -> Nat]
           /\ Count(Empty(p)) = 0
<1>1. /\ p.limit \in Nat /\ p.limit > 0
      /\ p.window \in Nat /\ p.window > 0
      /\ p.base \in Nat /\ p.base > 0
      /\ p.cap \in Nat /\ p.base <= p.cap
    BY PolicyAssumption
<1>2. IsFiniteSet(Ages(p))
    <2>1. 0 \in Int /\ p.window - 1 \in Int
        BY <1>1
    <2> QED  BY <2>1, FS_Interval DEF Ages
<1>3. 0 \in Ages(p) /\ \A x \in Ages(p) : x \in Nat /\ x < p.window
    BY <1>1 DEF Ages
<1>4. Empty(p) \in [Ages(p) -> Nat] /\ \A x \in Ages(p) : Empty(p)[x] = 0
    BY DEF Empty
<1>5. Count(Empty(p)) = 0
    BY <1>4, CountZero
<1> QED  BY <1>1, <1>2, <1>3, <1>4, <1>5

\* The tables the invariant counts are tables of numbers.
LEMMA TablesOf ==
    ASSUME NEW p, NEW a \in [Ages(p) -> Nat], NEW g \in [Ages(p) -> Nat], NEW m \in Int,
           \A x \in Ages(p) : a[x] <= g[x]
    PROVE  /\ Less(g, a) \in [Ages(p) -> Nat]
           /\ \A x \in Ages(p) : Less(g, a)[x] = g[x] - a[x]
           /\ Younger(g, m) \in [Ages(p) -> Nat]
           /\ \A x \in Ages(p) : Younger(g, m)[x] = IF x < m THEN g[x] ELSE 0
<1>1. \A x \in Ages(p) : a[x] \in Nat /\ g[x] \in Nat /\ g[x] - a[x] \in Nat
    OBVIOUS
<1> QED  BY <1>1 DEF Less, Younger

\* A key nothing is known of.
LEMMA KeyFresh ==
    ASSUME NEW p \in Policies, NEW n \in 0 .. StrikeTop, NEW i \in Nat
    PROVE  KeyInv(p, Empty(p), Empty(p), 0, n, i)
<1> DEFINE e == Empty(p)
<1>1. e \in [Ages(p) -> Nat] /\ (\A x \in Ages(p) : e[x] = 0) /\ Count(e) = 0
    BY PolicyNumbers DEF Empty
<1>2. /\ Less(e, e) \in [Ages(p) -> Nat]
      /\ \A x \in Ages(p) : Less(e, e)[x] = 0
    BY <1>1 DEF Less
<1>3. Count(Less(e, e)) = 0
    BY <1>2, CountZero
<1>4. p.limit \in Nat
    BY PolicyNumbers
<1> HIDE DEF e
<1>5. KeyTypeOK(p, e, e, 0, n, i) /\ SeenInv(p, e, e, i) /\ Count(e) <= p.limit
    BY <1>1, <1>4 DEF KeyTypeOK, SeenInv
<1>6. OpenInv(p, e, e)
    BY <1>3, <1>4 DEF OpenInv
<1>7. BatchInv(p, e, e, 0, n)
    BY <1>1, <1>4 DEF BatchInv
<1>8. KeyInv(p, e, e, 0, n, i)
    BY <1>5, <1>6, <1>7 DEF KeyInv, WindowInv
<1> QED  BY <1>8 DEF e

\* Being seen changes nothing but the age of the last time.
LEMMA KeySeen ==
    ASSUME NEW p, NEW a, NEW g, NEW l, NEW n, NEW i, KeyInv(p, a, g, l, n, i)
    PROVE  KeyInv(p, a, g, l, n, 0)
<1>1. KeyTypeOK(p, a, g, l, n, 0)
    BY DEF KeyInv, KeyTypeOK
<1>2. \A x \in Ages(p) : a[x] <= g[x] /\ ~(x < 0)
    BY DEF KeyInv, SeenInv, Ages
<1> QED  BY <1>1, <1>2 DEF KeyInv, SeenInv

\* What is in the window is what is counted and what is not any more.
LEMMA TwoBatches ==
    ASSUME NEW p \in Policies, NEW a, NEW g, NEW n, NEW i,
           KeyInv(p, a, g, 0, n, i), 2 * p.base >= p.window
    PROVE  Count(g) <= 2 * p.limit
<1>1. /\ a \in [Ages(p) -> Nat] /\ g \in [Ages(p) -> Nat]
      /\ \A x \in Ages(p) : a[x] <= g[x]
      /\ Count(a) <= p.limit
      /\ Count(Less(g, a)) <= p.limit
    BY DEF KeyInv, KeyTypeOK, SeenInv, WindowInv, OpenInv
<1>2. /\ Less(g, a) \in [Ages(p) -> Nat]
      /\ \A x \in Ages(p) : Less(g, a)[x] = g[x] - a[x]
    <2>1. 0 \in Int
        OBVIOUS
    <2> QED  BY <1>1, <2>1, TablesOf
<1>3. \A x \in Ages(p) : g[x] <= a[x] + Less(g, a)[x]
    BY <1>1, <1>2
<1>4. IsFiniteSet(Ages(p)) /\ p.limit \in Nat
    BY PolicyNumbers
<1>5. Count(g) <= Count(a) + Count(Less(g, a))
    BY <1>1, <1>2, <1>3, <1>4, CountSum
<1>6. Count(g) \in Nat /\ Count(a) \in Nat /\ Count(Less(g, a)) \in Nat
    BY <1>1, <1>2, <1>4, CountFinite
<1> QED  BY <1>1, <1>4, <1>5, <1>6

\* The strike that starts a lockout.
LEMMA KeyStrikes ==
    ASSUME NEW p \in Policies, NEW a, NEW g, NEW n, NEW i,
           KeyInv(p, a, g, 0, n, i), n + 1 \in 1 .. FloatExp
    PROVE  KeyInv(p, Empty(p), g, Length(p, n + 1), n + 1, 0)
<1> DEFINE m == n + 1
           l == Length(p, m)
           e == Empty(p)
<1>1. /\ a \in [Ages(p) -> Nat] /\ g \in [Ages(p) -> Nat]
      /\ n \in 0 .. StrikeTop
      /\ \A x \in Ages(p) : a[x] <= g[x]
      /\ Count(a) <= p.limit
    BY DEF KeyInv, KeyTypeOK, SeenInv
<1>2. /\ p.limit \in Nat /\ p.window \in Nat
      /\ p.base \in Nat /\ p.base > 0 /\ p.cap \in Nat
      /\ IsFiniteSet(Ages(p))
      /\ \A x \in Ages(p) : x \in Nat /\ x < p.window
    BY PolicyNumbers
<1>3. /\ l \in Nat /\ l >= p.base
      /\ m >= 2 => l >= 2 * p.base \/ l >= p.cap
    BY LengthBounds
<1>4. e \in [Ages(p) -> Nat] /\ (\A x \in Ages(p) : e[x] = 0) /\ Count(e) = 0
    BY PolicyNumbers DEF Empty
<1>5. m \in 0 .. StrikeTop /\ m \in Nat
    BY BoundAssumption DEF StrikeTop
<1> HIDE DEF l, e, m
<1>6. KeyTypeOK(p, e, g, l, m, 0)
    BY <1>1, <1>3, <1>4, <1>5 DEF KeyTypeOK
<1>7. SeenInv(p, e, g, 0)
    <2> SUFFICES ASSUME NEW x \in Ages(p) PROVE e[x] <= g[x] /\ (x < 0 => g[x] = 0)
        BY DEF SeenInv
    <2>1. g[x] \in Nat /\ x \in Nat /\ e[x] = 0
        BY <1>1, <1>2, <1>4
    <2> QED  BY <2>1
<1>8. ASSUME 2 * p.base >= p.window
      PROVE  l > 0 /\ LockedInv(p, e, g, l) /\ BatchInv(p, e, g, l, m)
    <2>1. l > 0
        BY <1>2, <1>3
    <2>2. OpenInv(p, a, g) /\ BatchInv(p, a, g, 0, n)
        BY <1>8 DEF KeyInv, WindowInv
    <2>3. Count(g) <= 2 * p.limit
        BY <1>8, TwoBatches
    <2>4. Count(Younger(g, 2 * p.base - l)) <= p.limit
        <3> DEFINE y == Younger(g, 2 * p.base - l)
        <3>1. 2 * p.base - l \in Int /\ 2 * p.base - l <= p.base
            BY <1>2, <1>3
        <3>2. /\ y \in [Ages(p) -> Nat]
              /\ \A x \in Ages(p) : y[x] = IF x < 2 * p.base - l THEN g[x] ELSE 0
            BY <1>1, <3>1, TablesOf
        <3>3. \A x \in Ages(p) : y[x] <= a[x]
            <4> TAKE x \in Ages(p)
            <4>1. x \in Nat /\ a[x] \in Nat /\ (x < p.base => g[x] = a[x])
                BY <1>1, <1>2, <2>2 DEF OpenInv
            <4>2. x < 2 * p.base - l => x < p.base
                BY <1>2, <3>1, <4>1
            <4>3. y[x] = a[x] \/ y[x] = 0
                BY <3>2, <4>1, <4>2
            <4> QED  BY <4>1, <4>3
        <3> HIDE DEF y
        <3>4. Count(y) <= Count(a)
            BY <1>1, <1>2, <3>2, <3>3, CountMono
        <3>5. Count(y) \in Nat /\ Count(a) \in Nat
            BY <1>1, <1>2, <3>2, CountFinite
        <3>6. Count(y) <= p.limit
            BY <1>1, <1>2, <3>4, <3>5
        <3> QED  BY <3>6 DEF y
    <2>5. \A x \in Ages(p) : ~(x < p.base - l)
        BY <1>2, <1>3
    <2>6. LockedInv(p, e, g, l)
        BY <2>3, <2>4, <2>5 DEF LockedInv, e
    <2>7. BatchInv(p, e, g, l, m)
        <3> SUFFICES ASSUME OneBatch(p, m)
                     PROVE  /\ \A x \in Ages(p) : x < p.window - l => g[x] = 0
                            /\ p.base >= p.window => Count(g) <= p.limit
            BY <2>1 DEF BatchInv
        <3>1. l >= p.window
            BY <1>2, <1>3, <1>5, <1>8 DEF OneBatch
        <3>2. \A x \in Ages(p) : ~(x < p.window - l)
            BY <1>2, <1>3, <3>1
        <3>3. p.base >= p.window => Count(g) <= p.limit
            BY <2>2 DEF BatchInv, OneBatch
        <3> QED  BY <3>2, <3>3
    <2> QED  BY <2>1, <2>6, <2>7
<1>9. WindowInv(p, e, g, l, m)
    BY <1>8 DEF WindowInv
<1>10. KeyInv(p, e, g, l, m, 0)
    BY <1>2, <1>4, <1>6, <1>7, <1>9 DEF KeyInv
<1> QED  BY <1>10 DEF e, l, m

\* The strike that is counted and raises: no list is emptied and no lockout
\* starts, but it is at least the third.
LEMMA KeyRaises ==
    ASSUME NEW p, NEW a, NEW g, NEW n, NEW i, KeyInv(p, a, g, 0, n, i), n >= 2
    PROVE  KeyInv(p, a, g, 0, StrikeTop, 0)
<1>1. KeyInv(p, a, g, 0, n, 0)
    BY KeySeen
<1>2. StrikeTop \in 0 .. StrikeTop
    BY BoundAssumption DEF StrikeTop
<1>3. KeyTypeOK(p, a, g, 0, StrikeTop, 0)
    BY <1>1, <1>2 DEF KeyInv, KeyTypeOK
<1>4. OneBatch(p, StrikeTop) => OneBatch(p, n)
    BY DEF OneBatch
<1>5. BatchInv(p, a, g, 0, n) => BatchInv(p, a, g, 0, StrikeTop)
    BY <1>4 DEF BatchInv
<1> QED  BY <1>1, <1>3, <1>5 DEF KeyInv, WindowInv

\* The attempt that is let through.
LEMMA KeyAdmits ==
    ASSUME NEW p \in Policies, NEW a, NEW g, NEW n, NEW i,
           KeyInv(p, a, g, 0, n, i), Count(a) < p.limit
    PROVE  KeyInv(p, [a EXCEPT ![0] = @ + 1], [g EXCEPT ![0] = @ + 1], 0, n, 0)
<1> DEFINE b == [a EXCEPT ![0] = @ + 1]
           h == [g EXCEPT ![0] = @ + 1]
<1>1. /\ a \in [Ages(p) -> Nat] /\ g \in [Ages(p) -> Nat]
      /\ n \in 0 .. StrikeTop
      /\ \A x \in Ages(p) : a[x] <= g[x]
      /\ Count(a) <= p.limit
    BY DEF KeyInv, KeyTypeOK, SeenInv
<1>2. /\ p.limit \in Nat /\ p.window \in Nat /\ p.base \in Nat
      /\ IsFiniteSet(Ages(p))
      /\ 0 \in Ages(p)
      /\ \A x \in Ages(p) : x \in Nat
    BY PolicyNumbers
<1>3. /\ b \in [Ages(p) -> Nat] /\ h \in [Ages(p) -> Nat]
      /\ \A x \in Ages(p) : b[x] = (IF x = 0 THEN a[x] + 1 ELSE a[x])
      /\ \A x \in Ages(p) : h[x] = (IF x = 0 THEN g[x] + 1 ELSE g[x])
    BY <1>1, <1>2
<1>4. Count(b) <= Count(a) + 1
    BY <1>1, <1>2, <1>3, CountMore
<1>5. Count(a) \in Nat /\ Count(b) \in Nat /\ Count(g) \in Nat /\ Count(h) \in Nat
    BY <1>1, <1>2, <1>3, CountFinite
<1>6. g = a => h = b
    OBVIOUS
<1>7. Less(h, b) = Less(g, a)
    <2>1. \A x \in Ages(p) : h[x] - b[x] = g[x] - a[x]
        BY <1>1, <1>3
    <2>2. DOMAIN h = Ages(p) /\ DOMAIN g = Ages(p)
        BY <1>1, <1>3
    <2> HIDE DEF h, b
    <2> QED  BY <2>1, <2>2 DEF Less
<1> HIDE DEF b, h
<1>8. KeyTypeOK(p, b, h, 0, n, 0)
    BY <1>1, <1>3 DEF KeyTypeOK
<1>9. SeenInv(p, b, h, 0)
    <2> SUFFICES ASSUME NEW x \in Ages(p) PROVE b[x] <= h[x] /\ (x < 0 => h[x] = 0)
        BY DEF SeenInv
    <2>1. a[x] \in Nat /\ g[x] \in Nat /\ a[x] <= g[x] /\ x \in Nat
        BY <1>1, <1>2
    <2> QED  BY <1>3, <2>1
<1>10. Count(b) <= p.limit
    BY <1>2, <1>4, <1>5
<1>11. ASSUME 2 * p.base >= p.window PROVE OpenInv(p, b, h) /\ BatchInv(p, b, h, 0, n)
    <2>1. OpenInv(p, a, g) /\ BatchInv(p, a, g, 0, n)
        BY <1>11 DEF KeyInv, WindowInv
    <2>2. \A x \in Ages(p) : x < p.base => h[x] = b[x]
        BY <1>3, <2>1 DEF OpenInv
    <2>3. OpenInv(p, b, h)
        BY <1>7, <2>1, <2>2 DEF OpenInv
    <2>4. OneBatch(p, n) => h = b
        BY <1>6, <2>1 DEF BatchInv
    <2>5. BatchInv(p, b, h, 0, n)
        BY <1>10, <2>4 DEF BatchInv
    <2> QED  BY <2>3, <2>5
<1>12. WindowInv(p, b, h, 0, n)
    BY <1>11 DEF WindowInv
<1>13. KeyInv(p, b, h, 0, n, 0)
    BY <1>8, <1>9, <1>10, <1>12 DEF KeyInv
<1> QED  BY <1>13 DEF b, h

\* The table of the next moment.
LEMMA AgedOf ==
    ASSUME NEW p \in Policies, NEW f \in [Ages(p) -> Nat]
    PROVE  /\ Aged(f) \in [Ages(p) -> Nat]
           /\ \A x \in Ages(p) : Aged(f)[x] = IF x = 0 THEN 0 ELSE f[x - 1]
           /\ \A x \in Ages(p) : x # 0 => x - 1 \in Ages(p)
           /\ Count(Aged(f)) <= Count(f)
           /\ Count(Aged(f)) \in Nat
           /\ Count(f) \in Nat
<1>1. \A x \in Ages(p) : x # 0 => x - 1 \in Ages(p)
    BY PolicyNumbers DEF Ages
<1>2. /\ Aged(f) \in [Ages(p) -> Nat]
      /\ \A x \in Ages(p) : Aged(f)[x] = IF x = 0 THEN 0 ELSE f[x - 1]
    BY <1>1 DEF Aged
<1>3. Count(Aged(f)) <= Count(f)
    <2> DEFINE h == Aged(f)
    <2>1. p.window \in Nat /\ Ages(p) = 0 .. p.window - 1
        BY PolicyNumbers DEF Ages
    <2>2. h \in [0 .. p.window - 1 -> Nat] /\ f \in [0 .. p.window - 1 -> Nat]
        BY <1>2, <2>1
    <2>3. \A x \in 0 .. p.window - 1 : h[x] > 0 => x > 0 /\ h[x] <= f[x - 1]
        <3> TAKE x \in 0 .. p.window - 1
        <3> HAVE h[x] > 0
        <3>1. x # 0 /\ h[x] = f[x - 1]
            BY <1>2, <2>1
        <3>2. h[x] \in Nat
            BY <2>2
        <3> QED  BY <2>1, <3>1, <3>2
    <2> HIDE DEF h
    <2>4. Count(h) <= Count(f)
        BY <2>1, <2>2, <2>3, CountOlder
    <2> QED  BY <2>4 DEF h
<1>4. IsFiniteSet(Ages(p))
    BY PolicyNumbers
<1> QED  BY <1>1, <1>2, <1>3, <1>4, CountFinite

\* A table each of whose numbers was there one age before counts no more.
LEMMA CountPassed ==
    ASSUME NEW p \in Policies, NEW f \in [Ages(p) -> Nat], NEW h \in [Ages(p) -> Nat],
           \A x \in Ages(p) : IF x = 0 THEN h[x] = 0 ELSE h[x] <= f[x - 1]
    PROVE  Count(h) <= Count(f)
<1>1. p.window \in Nat /\ Ages(p) = 0 .. p.window - 1
    BY PolicyNumbers DEF Ages
<1>2. h \in [0 .. p.window - 1 -> Nat] /\ f \in [0 .. p.window - 1 -> Nat]
    BY <1>1
<1>3. \A x \in 0 .. p.window - 1 : h[x] > 0 => x > 0 /\ h[x] <= f[x - 1]
    BY <1>1
<1> QED  BY <1>1, <1>2, <1>3, CountOlder

LEMMA KeyTicksOpen ==
    ASSUME NEW p \in Policies, NEW a, NEW g, NEW n, NEW i, KeyInv(p, a, g, 0, n, i)
    PROVE  WindowInv(p, Aged(a), Aged(g), 0, n)
<1> DEFINE b == Aged(a)
           h == Aged(g)
<1>1. /\ a \in [Ages(p) -> Nat] /\ g \in [Ages(p) -> Nat]
      /\ \A x \in Ages(p) : a[x] <= g[x]
    BY DEF KeyInv, KeyTypeOK, SeenInv
<1>2. /\ p.limit \in Nat /\ p.window \in Nat /\ p.base \in Nat
      /\ IsFiniteSet(Ages(p))
      /\ \A x \in Ages(p) : x \in Nat
    BY PolicyNumbers
<1>3. /\ b \in [Ages(p) -> Nat] /\ h \in [Ages(p) -> Nat]
      /\ \A x \in Ages(p) : b[x] = IF x = 0 THEN 0 ELSE a[x - 1]
      /\ \A x \in Ages(p) : h[x] = IF x = 0 THEN 0 ELSE g[x - 1]
      /\ \A x \in Ages(p) : x # 0 => x - 1 \in Ages(p)
      /\ Count(h) <= Count(g) /\ Count(h) \in Nat /\ Count(g) \in Nat
    BY <1>1, AgedOf
<1>4. g = a => h = b
    OBVIOUS
<1> HIDE DEF b, h
<1>5. \A x \in Ages(p) : b[x] <= h[x]
    BY <1>1, <1>3
<1>6. ASSUME 2 * p.base >= p.window PROVE OpenInv(p, b, h) /\ BatchInv(p, b, h, 0, n)
    <2>1. OpenInv(p, a, g) /\ BatchInv(p, a, g, 0, n)
        BY <1>6 DEF KeyInv, WindowInv
    <2>2. \A x \in Ages(p) : x < p.base => h[x] = b[x]
        <3> TAKE x \in Ages(p)
        <3> HAVE x < p.base
        <3>1. CASE x = 0
            BY <1>3, <3>1
        <3>2. CASE x # 0
            <4>1. x - 1 \in Ages(p) /\ x - 1 < p.base
                BY <1>2, <1>3, <3>2
            <4>2. g[x - 1] = a[x - 1]
                BY <2>1, <4>1 DEF OpenInv
            <4> QED  BY <1>3, <3>2, <4>2
        <3> QED  BY <3>1, <3>2
    <2>3. Count(Less(h, b)) <= p.limit
        <3> DEFINE d == Less(g, a)
                   e == Less(h, b)
        <3>1. 0 \in Int
            OBVIOUS
        <3>2. /\ d \in [Ages(p) -> Nat]
              /\ \A x \in Ages(p) : d[x] = g[x] - a[x]
            BY <1>1, <3>1, TablesOf
        <3>3. /\ e \in [Ages(p) -> Nat]
              /\ \A x \in Ages(p) : e[x] = h[x] - b[x]
            BY <1>3, <1>5, <3>1, TablesOf
        <3>4. Count(d) <= p.limit
            BY <2>1 DEF OpenInv
        <3> HIDE DEF d, e
        <3>5. \A x \in Ages(p) : IF x = 0 THEN e[x] = 0 ELSE e[x] <= d[x - 1]
            <4> TAKE x \in Ages(p)
            <4>1. e[x] = h[x] - b[x]
                BY <3>3
            <4>2. CASE x = 0
                BY <1>3, <4>1, <4>2
            <4>3. CASE x # 0
                <5>1. x - 1 \in Ages(p) /\ h[x] = g[x - 1] /\ b[x] = a[x - 1]
                    BY <1>3, <4>3
                <5>2. e[x] = d[x - 1] /\ d[x - 1] \in Nat
                    BY <3>2, <4>1, <5>1
                <5> QED  BY <4>3, <5>2
            <4> QED  BY <4>2, <4>3
        <3>6. Count(e) <= Count(d)
            BY <3>2, <3>3, <3>5, CountPassed
        <3>7. Count(e) \in Nat /\ Count(d) \in Nat
            BY <1>2, <3>2, <3>3, CountFinite
        <3>8. Count(e) <= p.limit
            BY <1>2, <3>4, <3>6, <3>7
        <3> QED  BY <3>8 DEF e
    <2>4. OneBatch(p, n) => h = b
        BY <1>4, <2>1 DEF BatchInv
    <2>5. p.base >= p.window => Count(h) <= p.limit
        <3> HAVE p.base >= p.window
        <3>1. Count(g) <= p.limit
            BY <2>1 DEF BatchInv, OneBatch
        <3> QED  BY <1>2, <1>3, <3>1
    <2>6. OpenInv(p, b, h)
        BY <2>2, <2>3 DEF OpenInv
    <2>7. BatchInv(p, b, h, 0, n)
        BY <2>4, <2>5 DEF BatchInv
    <2> QED  BY <2>6, <2>7
<1>7. WindowInv(p, b, h, 0, n)
    BY <1>6 DEF WindowInv
<1> QED  BY <1>7 DEF b, h

LEMMA KeyTicksLocked ==
    ASSUME NEW p \in Policies, NEW a, NEW g, NEW l, NEW n, NEW i,
           KeyInv(p, a, g, l, n, i), l > 0
    PROVE  WindowInv(p, Aged(a), Aged(g), l - 1, n)
<1> DEFINE b == Aged(a)
           h == Aged(g)
           m == l - 1
<1>1. /\ a \in [Ages(p) -> Nat] /\ g \in [Ages(p) -> Nat]
      /\ l \in Nat
      /\ \A x \in Ages(p) : a[x] <= g[x]
    BY DEF KeyInv, KeyTypeOK, SeenInv
<1>2. /\ p.limit \in Nat /\ p.window \in Nat /\ p.base \in Nat
      /\ IsFiniteSet(Ages(p))
      /\ \A x \in Ages(p) : x \in Nat /\ x < p.window
    BY PolicyNumbers
<1>3. /\ b \in [Ages(p) -> Nat] /\ h \in [Ages(p) -> Nat]
      /\ \A x \in Ages(p) : b[x] = IF x = 0 THEN 0 ELSE a[x - 1]
      /\ \A x \in Ages(p) : h[x] = IF x = 0 THEN 0 ELSE g[x - 1]
      /\ \A x \in Ages(p) : x # 0 => x - 1 \in Ages(p)
      /\ Count(h) <= Count(g) /\ Count(h) \in Nat /\ Count(g) \in Nat
    BY <1>1, AgedOf
<1>4. m \in Nat /\ l = m + 1
    BY <1>1
<1> HIDE DEF b, h, m
<1>5. ASSUME 2 * p.base >= p.window
      PROVE  /\ m = 0 => OpenInv(p, b, h)
             /\ m > 0 => LockedInv(p, b, h, m)
             /\ BatchInv(p, b, h, m, n)
    <2>1. LockedInv(p, a, g, l) /\ BatchInv(p, a, g, l, n)
        BY <1>5 DEF KeyInv, WindowInv
    <2>2. \A x \in Ages(p) : a[x] = 0
        BY <2>1 DEF LockedInv, Empty
    <2>3. b = Empty(p) /\ \A x \in Ages(p) : b[x] = 0
        <3>1. \A x \in Ages(p) : b[x] = 0
            BY <1>3, <2>2
        <3> QED  BY <1>3, <3>1 DEF Empty
    <2>4. Count(h) <= 2 * p.limit
        BY <1>2, <1>3, <2>1 DEF LockedInv
    <2>5. \A x \in Ages(p) : x < p.base - m => h[x] = 0
        <3> TAKE x \in Ages(p)
        <3> HAVE x < p.base - m
        <3>1. CASE x = 0
            BY <1>3, <3>1
        <3>2. CASE x # 0
            <4>1. x - 1 \in Ages(p) /\ x - 1 < p.base - l
                BY <1>2, <1>3, <1>4, <3>2
            <4>2. g[x - 1] = 0
                BY <2>1, <4>1 DEF LockedInv
            <4> QED  BY <1>3, <3>2, <4>2
        <3> QED  BY <3>1, <3>2
    <2> DEFINE y == Younger(g, 2 * p.base - l)
               z == Younger(h, 2 * p.base - m)
    <2>6. /\ y \in [Ages(p) -> Nat]
          /\ \A x \in Ages(p) : y[x] = IF x < 2 * p.base - l THEN g[x] ELSE 0
        <3>1. 2 * p.base - l \in Int
            BY <1>1, <1>2
        <3>2. \A x \in Ages(p) : y[x] = IF x < 2 * p.base - l THEN g[x] ELSE 0
            BY <1>1 DEF Younger
        <3>3. y = [x \in Ages(p) |-> y[x]] /\ \A x \in Ages(p) : g[x] \in Nat
            BY <1>1 DEF Younger
        <3>4. \A x \in Ages(p) : y[x] \in Nat
            BY <3>2, <3>3
        <3> HIDE DEF y
        <3> QED  BY <3>2, <3>3, <3>4
    <2>7. /\ z \in [Ages(p) -> Nat]
          /\ \A x \in Ages(p) : z[x] = IF x < 2 * p.base - m THEN h[x] ELSE 0
        <3>1. 2 * p.base - m \in Int
            BY <1>2, <1>4
        <3>2. \A x \in Ages(p) : b[x] <= h[x]
            BY <1>3, <2>3
        <3> QED  BY <1>3, <3>1, <3>2, TablesOf
    <2>8. Count(y) <= p.limit
        BY <2>1 DEF LockedInv
    <2>9. LockedInv(p, b, h, m) <=> Count(z) <= p.limit
        BY <2>3, <2>4, <2>5 DEF LockedInv
    <2> HIDE DEF y, z
    <2>10. \A x \in Ages(p) : IF x = 0 THEN z[x] = 0 ELSE z[x] <= y[x - 1]
        <3> TAKE x \in Ages(p)
        <3>1. CASE x = 0
            BY <1>3, <2>7, <3>1
        <3>2. CASE x # 0
            <4>1. x - 1 \in Ages(p) /\ h[x] = g[x - 1] /\ y[x - 1] \in Nat /\ x \in Nat
                BY <1>2, <1>3, <2>6, <3>2
            <4>2. x < 2 * p.base - m => x - 1 < 2 * p.base - l
                BY <1>2, <1>4, <4>1
            <4>3. z[x] = y[x - 1] \/ z[x] = 0
                BY <2>6, <2>7, <4>1, <4>2
            <4> QED  BY <3>2, <4>1, <4>3
        <3> QED  BY <3>1, <3>2
    <2>11. Count(z) <= p.limit /\ Count(z) \in Nat
        <3>1. Count(z) <= Count(y)
            BY <2>6, <2>7, <2>10, CountPassed
        <3>2. Count(z) \in Nat /\ Count(y) \in Nat
            BY <1>2, <2>6, <2>7, CountFinite
        <3> QED  BY <1>2, <2>8, <3>1, <3>2
    <2>12. m = 0 => OpenInv(p, b, h)
        <3> HAVE m = 0
        <3>1. \A x \in Ages(p) : x < p.base => h[x] = b[x]
            BY <1>2, <2>3, <2>5
        <3>2. Less(h, b) = h
            <4>1. \A x \in Ages(p) : h[x] - b[x] = h[x]
                BY <1>3, <2>3
            <4> QED  BY <1>3, <4>1 DEF Less
        <3>3. z = h
            <4>1. \A x \in Ages(p) : x < 2 * p.base - m
                BY <1>2, <1>5
            <4>2. \A x \in Ages(p) : z[x] = h[x]
                BY <2>7, <4>1
            <4> QED  BY <1>3, <2>7, <4>2
        <3> QED  BY <2>11, <3>1, <3>2, <3>3 DEF OpenInv
    <2>13. BatchInv(p, b, h, m, n)
        <3> SUFFICES ASSUME OneBatch(p, n)
                     PROVE  /\ m = 0 => h = b
                            /\ \A x \in Ages(p) : m > 0 /\ x < p.window - m => h[x] = 0
                            /\ p.base >= p.window => Count(h) <= p.limit
            BY DEF BatchInv
        <3>1. \A x \in Ages(p) : x < p.window - l => g[x] = 0
            BY <2>1 DEF BatchInv
        <3>2. \A x \in Ages(p) : x < p.window - m => h[x] = 0
            <4> TAKE x \in Ages(p)
            <4> HAVE x < p.window - m
            <4>1. CASE x = 0
                BY <1>3, <4>1
            <4>2. CASE x # 0
                <5>1. x - 1 \in Ages(p) /\ x - 1 < p.window - l
                    BY <1>2, <1>3, <1>4, <4>2
                <5> QED  BY <1>3, <3>1, <4>2, <5>1
            <4> QED  BY <4>1, <4>2
        <3>3. m = 0 => h = b
            <4> HAVE m = 0
            <4>1. \A x \in Ages(p) : h[x] = b[x]
                BY <1>2, <2>3, <3>2
            <4> QED  BY <1>3, <4>1
        <3>4. p.base >= p.window => Count(h) <= p.limit
            <4> HAVE p.base >= p.window
            <4>1. Count(g) <= p.limit
                BY <2>1 DEF BatchInv
            <4> QED  BY <1>2, <1>3, <4>1
        <3> QED  BY <3>2, <3>3, <3>4
    <2> QED  BY <2>9, <2>11, <2>12, <2>13
<1>6. WindowInv(p, b, h, m, n)
    BY <1>5 DEF WindowInv
<1> QED  BY <1>6 DEF b, h, m

\* A moment passes for a key.
LEMMA KeyTicks ==
    ASSUME NEW p \in Policies, NEW a, NEW g, NEW l, NEW n, NEW i, KeyInv(p, a, g, l, n, i),
           NEW m \in Nat, m = IF l = 0 THEN 0 ELSE l - 1,
           NEW j \in Nat, j <= i + 1
    PROVE  KeyInv(p, Aged(a), Aged(g), m, n, j)
<1>1. /\ a \in [Ages(p) -> Nat] /\ g \in [Ages(p) -> Nat]
      /\ l \in Nat /\ n \in 0 .. StrikeTop /\ i \in Nat
      /\ \A x \in Ages(p) : a[x] <= g[x] /\ (x < i => g[x] = 0)
      /\ Count(a) <= p.limit
    BY DEF KeyInv, KeyTypeOK, SeenInv
<1>2. p.limit \in Nat /\ \A x \in Ages(p) : x \in Nat
    BY PolicyNumbers
<1>3. /\ Aged(a) \in [Ages(p) -> Nat] /\ Aged(g) \in [Ages(p) -> Nat]
      /\ \A x \in Ages(p) : Aged(a)[x] = IF x = 0 THEN 0 ELSE a[x - 1]
      /\ \A x \in Ages(p) : Aged(g)[x] = IF x = 0 THEN 0 ELSE g[x - 1]
      /\ \A x \in Ages(p) : x # 0 => x - 1 \in Ages(p)
      /\ Count(Aged(a)) <= Count(a) /\ Count(Aged(a)) \in Nat /\ Count(a) \in Nat
    BY <1>1, AgedOf
<1>4. KeyTypeOK(p, Aged(a), Aged(g), m, n, j)
    BY <1>1, <1>3 DEF KeyTypeOK
<1>5. SeenInv(p, Aged(a), Aged(g), j)
    <2> SUFFICES ASSUME NEW x \in Ages(p)
                 PROVE  Aged(a)[x] <= Aged(g)[x] /\ (x < j => Aged(g)[x] = 0)
        BY DEF SeenInv
    <2>1. CASE x = 0
        BY <1>3, <2>1
    <2>2. CASE x # 0
        <3>1. x - 1 \in Ages(p) /\ (x < j => x - 1 < i)
            BY <1>1, <1>2, <1>3, <2>2
        <3> QED  BY <1>1, <1>3, <2>2, <3>1
    <2> QED  BY <2>1, <2>2
<1>6. Count(Aged(a)) <= p.limit
    BY <1>1, <1>2, <1>3
<1>7. WindowInv(p, Aged(a), Aged(g), m, n)
    <2>1. CASE l = 0
        BY <2>1, KeyTicksOpen
    <2>2. CASE l # 0
        <3>1. l > 0 /\ m = l - 1
            BY <1>1, <2>2
        <3> QED  BY <3>1, KeyTicksLocked
    <2> QED  BY <2>1, <2>2
<1> QED  BY <1>4, <1>5, <1>6, <1>7 DEF KeyInv

-----------------------------------------------------------------------------
(* The limiter. *)

LEMMA LimiterInit == Init => LimiterInv
<1> SUFFICES ASSUME Init, NEW k \in Keys
             PROVE  KeyInv(policy, attempts[k], granted[k], lockout[k], strikes[k], idle[k])
    BY DEF Init, LimiterInv
<1>1. policy \in Policies
    BY DEF Init
<1>2. Retention + 1 \in Nat
    <2>1. /\ policy.window \in Nat /\ policy.cap \in Nat
        BY <1>1, PolicyNumbers
    <2> QED  BY <2>1, MaxOfTwo DEF Retention
<1>3. 0 \in 0 .. StrikeTop
    BY BoundAssumption DEF StrikeTop
<1>4. KeyInv(policy, Empty(policy), Empty(policy), 0, 0, Retention + 1)
    BY <1>1, <1>2, <1>3, KeyFresh
<1>5. /\ attempts[k] = Empty(policy) /\ granted[k] = Empty(policy)
      /\ lockout[k] = 0 /\ strikes[k] = 0 /\ idle[k] = Retention + 1
    BY DEF Init
<1> QED  BY <1>4, <1>5

\* Of a key the purge drops, nothing is in the window.
LEMMA StaleIsEmpty ==
    ASSUME LimiterInv, NEW k \in Keys, NEW j \in Stale(k)
    PROVE  /\ j \in Keys \ {k}
           /\ attempts[j] = Empty(policy)
           /\ granted[j] = Empty(policy)
           /\ lockout[j] = 0
<1>1. j \in Keys \ {k} /\ idle[j] > Retention /\ lockout[j] = 0
    BY DEF Stale
<1>2. /\ policy \in Policies
      /\ attempts[j] \in [Ages(policy) -> Nat]
      /\ granted[j] \in [Ages(policy) -> Nat]
      /\ idle[j] \in Nat
      /\ \A x \in Ages(policy) : /\ attempts[j][x] <= granted[j][x]
                                 /\ x < idle[j] => granted[j][x] = 0
    BY <1>1 DEF LimiterInv, KeyInv, KeyTypeOK, SeenInv
<1>3. /\ policy.window \in Nat /\ policy.cap \in Nat
      /\ \A x \in Ages(policy) : x \in Nat /\ x < policy.window
    BY <1>2, PolicyNumbers
<1>4. Retention \in Nat /\ Retention >= policy.window
    BY <1>3, MaxOfTwo DEF Retention
<1>5. \A x \in Ages(policy) : x < idle[j]
    BY <1>1, <1>2, <1>3, <1>4
<1>6. \A x \in Ages(policy) : granted[j][x] = 0 /\ attempts[j][x] = 0
    BY <1>2, <1>5
<1> QED  BY <1>1, <1>2, <1>6 DEF Empty

\* A call of one key leaves another as it is, or forgets it.
LEMMA Bystander ==
    ASSUME LimiterInv, NEW k \in Keys, NEW j \in Keys, j # k,
           policy' = policy, granted'[j] = granted[j], idle'[j] = idle[j],
           attempts'[j] = Swept(attempts, k, Empty(policy))[j],
           lockout'[j] = Swept(lockout, k, 0)[j],
           strikes'[j] = Swept(strikes, k, 0)[j]
    PROVE  KeyInv(policy', attempts'[j], granted'[j], lockout'[j], strikes'[j], idle'[j])
<1>1. KeyInv(policy, attempts[j], granted[j], lockout[j], strikes[j], idle[j])
    BY DEF LimiterInv
<1>2. CASE j \in Purged(k)
    <2>1. j \in Stale(k)
        BY <1>2 DEF Purged
    <2>2. granted[j] = Empty(policy)
        BY <2>1, StaleIsEmpty
    <2>3. attempts'[j] = Empty(policy) /\ lockout'[j] = 0 /\ strikes'[j] = 0
        BY <1>2 DEF Swept
    <2>4. policy \in Policies /\ idle[j] \in Nat
        BY <1>1 DEF LimiterInv, KeyInv, KeyTypeOK
    <2>5. 0 \in 0 .. StrikeTop
        BY BoundAssumption DEF StrikeTop
    <2>6. KeyInv(policy, Empty(policy), Empty(policy), 0, 0, idle[j])
        BY <2>4, <2>5, KeyFresh
    <2> QED  BY <2>2, <2>3, <2>6
<1>3. CASE j \notin Purged(k)
    <2>1. attempts'[j] = attempts[j] /\ lockout'[j] = lockout[j] /\ strikes'[j] = strikes[j]
        BY <1>3 DEF Swept
    <2> QED  BY <1>1, <2>1
<1> QED  BY <1>2, <1>3

\* The key of the call itself is never purged.
LEMMA NotPurged ==
    ASSUME NEW k \in Keys, NEW f, NEW e
    PROVE  /\ Swept(f, k, e)[k] = f[k]
           /\ DOMAIN Swept(f, k, e) = Keys
BY DEF Swept, Purged, Stale

LEMMA RefusedInv ==
    ASSUME LimiterInv, NEW k \in Keys, Refused(k), idle \in [Keys -> Nat]
    PROVE  LimiterInv'
<1>1. /\ policy' = policy /\ granted' = granted
      /\ attempts' = Swept(attempts, k, Empty(policy))
      /\ lockout' = Swept(lockout, k, 0)
      /\ strikes' = Swept(strikes, k, 0)
      /\ idle' = [idle EXCEPT ![k] = 0]
    BY DEF Refused, Seen
<1>2. ASSUME NEW j \in Keys
      PROVE  KeyInv(policy', attempts'[j], granted'[j], lockout'[j], strikes'[j], idle'[j])
    <2>1. CASE j = k
        <3>1. KeyInv(policy, attempts[k], granted[k], lockout[k], strikes[k], 0)
            BY KeySeen DEF LimiterInv
        <3>2. /\ attempts'[k] = attempts[k] /\ lockout'[k] = lockout[k]
              /\ strikes'[k] = strikes[k] /\ idle'[k] = 0
            BY <1>1, NotPurged
        <3> QED  BY <1>1, <2>1, <3>1, <3>2
    <2>2. CASE j # k
        BY <1>1, <2>2, Bystander
    <2> QED  BY <2>1, <2>2
<1> QED  BY <1>1, <1>2 DEF LimiterInv

LEMMA AdmitInv ==
    ASSUME LimiterInv, NEW k \in Keys, Admit(k),
           idle \in [Keys -> Nat], DOMAIN granted = Keys
    PROVE  LimiterInv'
<1> DEFINE swept == Swept(attempts, k, Empty(policy))
<1>1. /\ policy' = policy
      /\ granted' = [granted EXCEPT ![k][0] = @ + 1]
      /\ attempts' = [swept EXCEPT ![k][0] = @ + 1]
      /\ lockout' = Swept(lockout, k, 0)
      /\ strikes' = Swept(strikes, k, 0)
      /\ idle' = [idle EXCEPT ![k] = 0]
      /\ lockout[k] = 0
      /\ Count(attempts[k]) < policy.limit
    BY DEF Admit, Seen
<1>2. swept[k] = attempts[k] /\ DOMAIN swept = Keys
    BY NotPurged
<1> HIDE DEF swept
<1>3. attempts'[k] = [attempts[k] EXCEPT ![0] = @ + 1]
    BY <1>1, <1>2
<1>4. granted'[k] = [granted[k] EXCEPT ![0] = @ + 1]
    BY <1>1
<1>5. \A j \in Keys \ {k} : attempts'[j] = swept[j] /\ granted'[j] = granted[j]
    BY <1>1, <1>2
<1>6. ASSUME NEW j \in Keys
      PROVE  KeyInv(policy', attempts'[j], granted'[j], lockout'[j], strikes'[j], idle'[j])
    <2>1. CASE j = k
        <3>1. KeyInv(policy, attempts[k], granted[k], 0, strikes[k], idle[k])
            BY <1>1 DEF LimiterInv
        <3>2. policy \in Policies
            BY DEF LimiterInv
        <3>3. KeyInv(policy, [attempts[k] EXCEPT ![0] = @ + 1],
                     [granted[k] EXCEPT ![0] = @ + 1], 0, strikes[k], 0)
            BY <1>1, <3>1, <3>2, KeyAdmits
        <3>4. lockout'[k] = 0 /\ strikes'[k] = strikes[k] /\ idle'[k] = 0
            BY <1>1, NotPurged
        <3> QED  BY <1>1, <1>3, <1>4, <2>1, <3>3, <3>4
    <2>2. CASE j # k
        <3>1. attempts'[j] = Swept(attempts, k, Empty(policy))[j] /\ granted'[j] = granted[j]
            BY <1>5, <2>2 DEF swept
        <3>2. idle'[j] = idle[j]
            BY <1>1, <2>2
        <3> QED  BY <1>1, <2>2, <3>1, <3>2, Bystander
    <2> QED  BY <2>1, <2>2
<1>7. policy' \in Policies
    BY <1>1 DEF LimiterInv
<1> QED  BY <1>6, <1>7 DEF LimiterInv

LEMMA StrikeInv ==
    ASSUME LimiterInv, NEW k \in Keys, Strike(k), idle \in [Keys -> Nat]
    PROVE  LimiterInv'
<1> DEFINE n == Older(strikes[k], StrikeTop)
<1>1. /\ policy' = policy /\ granted' = granted
      /\ strikes' = [Swept(strikes, k, 0) EXCEPT ![k] = n]
      /\ idle' = [idle EXCEPT ![k] = 0]
      /\ lockout[k] = 0
    BY DEF Strike, Seen
<1>2. /\ n - 1 >= FloatExp =>
              /\ attempts' = Swept(attempts, k, Empty(policy))
              /\ lockout' = Swept(lockout, k, 0)
      /\ ~(n - 1 >= FloatExp) =>
              /\ attempts' = [Swept(attempts, k, Empty(policy)) EXCEPT ![k] = Empty(policy)]
              /\ lockout' = [Swept(lockout, k, 0) EXCEPT ![k] = Length(policy, n)]
    BY DEF Strike
<1>3. /\ KeyInv(policy, attempts[k], granted[k], 0, strikes[k], idle[k])
      /\ strikes[k] \in 0 .. StrikeTop
      /\ policy \in Policies
    BY <1>1 DEF LimiterInv, KeyInv, KeyTypeOK
<1>4. FloatExp \in Nat /\ FloatExp >= 2 /\ StrikeTop = FloatExp + 1
    BY BoundAssumption DEF StrikeTop
<1>5. /\ n = IF strikes[k] + 1 <= StrikeTop THEN strikes[k] + 1 ELSE StrikeTop
      /\ strikes[k] \in Nat
    BY <1>3, <1>4, MinOfTwo DEF Older
<1> HIDE DEF n
<1>6. strikes'[k] = n /\ \A j \in Keys \ {k} : strikes'[j] = Swept(strikes, k, 0)[j]
    BY <1>1, NotPurged
<1>7. idle'[k] = 0 /\ \A j \in Keys \ {k} : idle'[j] = idle[j]
    BY <1>1
<1>8. CASE n - 1 >= FloatExp
    <2>1. n = StrikeTop /\ strikes[k] >= 2
        BY <1>3, <1>4, <1>5, <1>8
    <2>2. KeyInv(policy, attempts[k], granted[k], 0, StrikeTop, 0)
        BY <1>3, <2>1, KeyRaises
    <2>3. attempts'[k] = attempts[k] /\ lockout'[k] = 0
        BY <1>1, <1>8, <1>2, NotPurged
    <2>4. KeyInv(policy', attempts'[k], granted'[k], lockout'[k], strikes'[k], idle'[k])
        BY <1>1, <1>6, <1>7, <2>1, <2>2, <2>3
    <2>5. \A j \in Keys \ {k} : /\ attempts'[j] = Swept(attempts, k, Empty(policy))[j]
                                /\ lockout'[j] = Swept(lockout, k, 0)[j]
        BY <1>8, <1>2
    <2>6. ASSUME NEW j \in Keys, j # k
          PROVE  KeyInv(policy', attempts'[j], granted'[j], lockout'[j], strikes'[j], idle'[j])
        BY <1>1, <1>6, <1>7, <2>5, <2>6, Bystander
    <2> QED  BY <1>1, <1>3, <2>4, <2>6 DEF LimiterInv
<1>9. CASE ~(n - 1 >= FloatExp)
    <2>1. n = strikes[k] + 1 /\ n \in 1 .. FloatExp
        BY <1>3, <1>4, <1>5, <1>9
    <2>2. KeyInv(policy, Empty(policy), granted[k], Length(policy, n), n, 0)
        BY <1>3, <2>1, KeyStrikes
    <2>3. attempts'[k] = Empty(policy) /\ lockout'[k] = Length(policy, n)
        BY <1>9, <1>2, NotPurged
    <2>4. KeyInv(policy', attempts'[k], granted'[k], lockout'[k], strikes'[k], idle'[k])
        BY <1>1, <1>6, <1>7, <2>2, <2>3
    <2>5. \A j \in Keys \ {k} : /\ attempts'[j] = Swept(attempts, k, Empty(policy))[j]
                                /\ lockout'[j] = Swept(lockout, k, 0)[j]
        BY <1>9, <1>2, NotPurged
    <2>6. ASSUME NEW j \in Keys, j # k
          PROVE  KeyInv(policy', attempts'[j], granted'[j], lockout'[j], strikes'[j], idle'[j])
        BY <1>1, <1>6, <1>7, <2>5, <2>6, Bystander
    <2> QED  BY <1>1, <1>3, <2>4, <2>6 DEF LimiterInv
<1> QED  BY <1>8, <1>9

LEMMA TickInv ==
    ASSUME LimiterInv, Tick
    PROVE  LimiterInv'
<1> SUFFICES ASSUME NEW k \in Keys
             PROVE  KeyInv(policy', attempts'[k], granted'[k], lockout'[k], strikes'[k], idle'[k])
    BY DEF LimiterInv, Tick
<1>1. /\ policy' = policy /\ strikes' = strikes
      /\ attempts'[k] = Aged(attempts[k])
      /\ granted'[k] = Aged(granted[k])
      /\ lockout'[k] = Max({lockout[k] - 1, 0})
      /\ idle'[k] = Older(idle[k], Retention + 1)
    BY DEF Tick
<1>2. /\ KeyInv(policy, attempts[k], granted[k], lockout[k], strikes[k], idle[k])
      /\ lockout[k] \in Nat /\ idle[k] \in Nat
      /\ policy \in Policies
    BY DEF LimiterInv, KeyInv, KeyTypeOK
<1>3. lockout'[k] \in Nat /\ lockout'[k] = IF lockout[k] = 0 THEN 0 ELSE lockout[k] - 1
    <2>1. lockout[k] - 1 \in Int /\ 0 \in Int
        BY <1>2
    <2>2. lockout'[k] = IF lockout[k] - 1 >= 0 THEN lockout[k] - 1 ELSE 0
        BY <1>1, <2>1, MaxOfTwo
    <2> QED  BY <1>2, <2>2
<1>4. Retention + 1 \in Nat
    <2>1. policy.window \in Nat /\ policy.cap \in Nat
        BY <1>2, PolicyNumbers
    <2> QED  BY <2>1, MaxOfTwo DEF Retention
<1>5. idle'[k] \in Nat /\ idle'[k] <= idle[k] + 1
    BY <1>1, <1>2, <1>4, MinOfTwo DEF Older
<1>6. KeyInv(policy, Aged(attempts[k]), Aged(granted[k]), lockout'[k], strikes[k], idle'[k])
    BY <1>2, <1>3, <1>5, KeyTicks
<1> QED  BY <1>1, <1>6

LimiterTypeOK ==
    /\ policy \in Policies
    /\ idle \in [Keys -> Nat]
    /\ granted \in [Keys -> [Ages(policy) -> Nat]]

LEMMA LimiterTypeInit == Init => LimiterTypeOK
<1> SUFFICES ASSUME Init PROVE LimiterTypeOK
    OBVIOUS
<1>1. /\ policy \in Policies
      /\ idle = [k \in Keys |-> Retention + 1]
      /\ granted = [k \in Keys |-> Empty(policy)]
    BY DEF Init
<1>2. Empty(policy) \in [Ages(policy) -> Nat]
    BY <1>1, PolicyNumbers
<1>3. Retention + 1 \in Nat
    <2>1. policy.window \in Nat /\ policy.cap \in Nat
        BY <1>1, PolicyNumbers
    <2> QED  BY <2>1, MaxOfTwo DEF Retention
<1> QED  BY <1>1, <1>2, <1>3 DEF LimiterTypeOK

LEMMA LimiterTypeStep ==
    ASSUME LimiterTypeOK, LimiterInv', LimiterStep
    PROVE  LimiterTypeOK'
<1>1. policy' = policy /\ DOMAIN idle' = Keys /\ DOMAIN granted' = Keys
    BY DEF LimiterStep, LimiterTypeOK, Tick, Refused, Strike, Admit, Seen
<1>2. idle' = [k \in Keys |-> idle'[k]] /\ granted' = [k \in Keys |-> granted'[k]]
    <2>1. CASE Tick
        BY <2>1 DEF Tick
    <2>2. ASSUME NEW k \in Keys, Refused(k) \/ Strike(k) \/ Admit(k)
          PROVE  idle' = [j \in Keys |-> idle'[j]] /\ granted' = [j \in Keys |-> granted'[j]]
        BY <2>2 DEF LimiterTypeOK, Refused, Strike, Admit, Seen
    <2> QED  BY <2>1, <2>2 DEF LimiterStep
<1>3. \A k \in Keys : idle'[k] \in Nat /\ granted'[k] \in [Ages(policy') -> Nat]
    BY DEF LimiterInv, KeyInv, KeyTypeOK
<1>4. idle' \in [Keys -> Nat] /\ granted' \in [Keys -> [Ages(policy') -> Nat]]
    BY <1>2, <1>3
<1>5. policy' \in Policies
    BY <1>1 DEF LimiterTypeOK
<1> QED  BY <1>4, <1>5 DEF LimiterTypeOK

LEMMA LimiterNext ==
    ASSUME LimiterTypeOK, LimiterInv, [Next]_vars
    PROVE  LimiterTypeOK' /\ LimiterInv'
<1>1. CASE UNCHANGED limiterVars
    BY <1>1 DEF limiterVars, LimiterTypeOK, LimiterInv
<1>2. CASE LimiterStep
    <2>1. idle \in [Keys -> Nat] /\ DOMAIN granted = Keys
        BY DEF LimiterTypeOK
    <2>2. LimiterInv'
        BY <1>2, <2>1, TickInv, RefusedInv, StrikeInv, AdmitInv DEF LimiterStep
    <2> QED  BY <1>2, <2>2, LimiterTypeStep
<1> QED  BY <1>1, <1>2 DEF Next, vars

\* The invariant of a limiter, under any policy in use (ratelimit.py, check).
THEOREM Limited == Spec => [](LimiterTypeOK /\ LimiterInv)
<1>1. Init => LimiterTypeOK /\ LimiterInv
    BY LimiterInit, LimiterTypeInit
<1>2. LimiterTypeOK /\ LimiterInv /\ [Next]_vars => (LimiterTypeOK /\ LimiterInv)'
    BY LimiterNext
<1> QED  BY <1>1, <1>2, PTL DEF Spec

LEMMA BatchesBound == LimiterInv => GrantsBounded
<1> SUFFICES ASSUME LimiterInv, 2 * policy.base >= policy.window, NEW k \in Keys
             PROVE  Count(granted[k]) <= Batches(k) * policy.limit
    BY DEF GrantsBounded
<1> DEFINE a == attempts[k]
           g == granted[k]
           l == lockout[k]
           n == strikes[k]
<1>1. /\ policy \in Policies
      /\ KeyInv(policy, a, g, l, n, idle[k])
      /\ l \in Nat
      /\ Count(a) <= policy.limit
      /\ WindowInv(policy, a, g, l, n)
    BY DEF LimiterInv, KeyInv, KeyTypeOK
<1>2. policy.limit \in Nat
    BY <1>1, PolicyNumbers
<1>3. BatchInv(policy, a, g, l, n)
    BY <1>1 DEF WindowInv
<1>4. CASE policy.base >= policy.window
    <2>1. Batches(k) = 1
        BY <1>4 DEF Batches
    <2>2. Count(g) <= policy.limit
        BY <1>3, <1>4 DEF BatchInv, OneBatch
    <2> QED  BY <1>2, <2>1, <2>2
<1>5. CASE n >= 2 /\ l = 0 /\ policy.cap >= policy.window
    <2>1. Batches(k) = 1
        BY <1>5 DEF Batches
    <2>2. g = a
        BY <1>3, <1>5 DEF BatchInv, OneBatch
    <2> QED  BY <1>1, <1>2, <2>1, <2>2
<1>6. CASE ~(policy.base >= policy.window) /\ ~(n >= 2 /\ l = 0 /\ policy.cap >= policy.window)
    <2>1. Batches(k) = 2
        BY <1>6 DEF Batches
    <2>2. Count(g) <= 2 * policy.limit
        <3>1. CASE l = 0
            BY <1>1, <3>1, TwoBatches
        <3>2. CASE l # 0
            <4>1. LockedInv(policy, a, g, l)
                BY <1>1, <3>2 DEF WindowInv
            <4> QED  BY <4>1 DEF LockedInv
        <3> QED  BY <3>1, <3>2
    <2> QED  BY <2>1, <2>2
<1> QED  BY <1>4, <1>5, <1>6

\* When a lockout is at least half the window, what one window lets through
\* is two batches at most: one, when the lockout covers the window or the
\* client comes back from its second one (ratelimit.py, LoginRateLimiter).
THEOREM GrantsBoundedHolds == Spec => []GrantsBounded
BY Limited, BatchesBound, PTL

LEMMA PurgeStep ==
    ASSUME LimiterTypeOK, LimiterInv, [Next]_vars, NEW j \in Keys,
           strikes[j] > 0, strikes'[j] = 0
    PROVE  lockout[j] = 0 /\ attempts[j] = Empty(policy) /\ granted[j] = Empty(policy)
<1>1. strikes[j] \in 0 .. StrikeTop /\ FloatExp \in Nat /\ StrikeTop = FloatExp + 1
    BY BoundAssumption DEF LimiterInv, KeyInv, KeyTypeOK, StrikeTop
<1>2. strikes'[j] # strikes[j]
    BY <1>1
<1>3. ~(UNCHANGED limiterVars)
    BY <1>2 DEF limiterVars
<1>4. PICK k \in Keys : Refused(k) \/ Strike(k) \/ Admit(k)
    BY <1>2, <1>3 DEF Next, vars, LimiterStep, Tick
<1>5. j # k \/ strikes'[k] = strikes[k] \/ strikes'[k] = Older(strikes[k], StrikeTop)
    BY <1>4, NotPurged DEF Refused, Strike, Admit
<1>6. j # k
    <2> SUFFICES ASSUME j = k PROVE FALSE
        OBVIOUS
    <2>1. strikes'[j] = Older(strikes[j], StrikeTop)
        BY <1>2, <1>5
    <2>2. Older(strikes[j], StrikeTop) > 0
        BY <1>1, MinOfTwo DEF Older
    <2> QED  BY <2>1, <2>2
<1>7. strikes'[j] = Swept(strikes, k, 0)[j]
    BY <1>4, <1>6, NotPurged DEF Refused, Strike, Admit
<1>8. j \in Stale(k)
    BY <1>2, <1>7 DEF Swept, Purged
<1> QED  BY <1>8, StaleIsEmpty

\* The strikes of a key are forgotten only when nothing of it is in the
\* window and no lockout of it is running (ratelimit.py, _purge_stale_locked:
\* "the entry carries no live state").
THEOREM PurgeDropsNothing == Spec => PurgeDropsNothingLive
<1>1. LimiterTypeOK /\ LimiterInv /\ [Next]_vars =>
         [\A k \in Keys :
            strikes[k] > 0 /\ strikes'[k] = 0 =>
                lockout[k] = 0 /\ attempts[k] = Empty(policy) /\ granted[k] = Empty(policy)]_vars
    BY PurgeStep
<1> QED  BY <1>1, Limited, PTL DEF Spec, PurgeDropsNothingLive

-----------------------------------------------------------------------------
(* The gate. *)

Consumes(s) == {c \in Consumers : stream[c] = s}

GateTypeOK ==
    /\ held \in [Sessions -> Nat]
    /\ stream \in [Consumers -> Sessions \cup {Nobody}]
    /\ open \subseteq {c \in Consumers : stream[c] # Nobody}

GateInv ==
    /\ \A s \in Sessions : Cardinality(Consumes(s)) <= held[s]
    /\ MaxTotal > 0 => Places <= MaxTotal
    /\ MaxPerSession > 0 => \A s \in Sessions : held[s] <= MaxPerSession

LEMMA ConsumersFinite ==
    ASSUME NEW C, C \subseteq Consumers
    PROVE  IsFiniteSet(C) /\ Cardinality(C) \in Nat
<1>1. IsFiniteSet(C)
    BY FS_Subset, ConsumerAssumption
<1> QED  BY <1>1, FS_CardinalityType

\* No place is taken: the caps stay as they are respected.
LEMMA NoMorePlaces ==
    ASSUME GateTypeOK, GateTypeOK', GateInv, \A s \in Sessions : held'[s] <= held[s]
    PROVE  /\ MaxTotal > 0 => Places' <= MaxTotal
           /\ MaxPerSession > 0 => \A s \in Sessions : held'[s] <= MaxPerSession
<1>1. held \in [Sessions -> Nat] /\ held' \in [Sessions -> Nat]
    BY DEF GateTypeOK
<1>2. PICK f \in [Sessions -> Nat], h \in [Sessions -> Nat] : f = held /\ h = held'
    BY <1>1
<1>3. Count(h) <= Count(f) /\ Count(f) \in Nat /\ Count(h) \in Nat
    BY <1>2, CountMono, CountFinite, ConsumerAssumption
<1>4. Places = Count(f) /\ Places' = Count(h)
    BY <1>2 DEF Places, Count, Units
<1>5. MaxTotal \in Nat /\ MaxPerSession \in Nat
    BY BoundAssumption
<1>6. MaxTotal > 0 => Places' <= MaxTotal
    BY <1>3, <1>4, <1>5 DEF GateInv
<1>7. MaxPerSession > 0 => \A s \in Sessions : held'[s] <= MaxPerSession
    BY <1>1, <1>5 DEF GateInv
<1> QED  BY <1>6, <1>7

LEMMA ConnectInv ==
    ASSUME GateTypeOK, GateInv, NEW c \in Consumers, NEW s \in Sessions, Connect(c, s)
    PROVE  GateTypeOK' /\ GateInv'
<1>1. /\ stream[c] = Nobody /\ Free(s)
      /\ held' = [held EXCEPT ![s] = @ + 1]
      /\ stream' = [stream EXCEPT ![c] = s]
      /\ open' = open
    BY DEF Connect
<1>2. Nobody \notin Sessions
    BY ConsumerAssumption
<1>3. GateTypeOK'
    BY <1>1, <1>2 DEF GateTypeOK
<1>4. ASSUME NEW t \in Sessions PROVE Cardinality(Consumes(t)') <= held'[t]
    <2>1. Cardinality(Consumes(t)) <= held[t] /\ held[t] \in Nat
        BY DEF GateInv, GateTypeOK
    <2>2. IsFiniteSet(Consumes(t)) /\ Cardinality(Consumes(t)) \in Nat
        BY ConsumersFinite DEF Consumes
    <2>3. CASE t = s
        <3>1. Consumes(t)' = Consumes(t) \cup {c} /\ c \notin Consumes(t)
            BY <1>1, <1>2, <2>3 DEF Consumes, GateTypeOK
        <3>2. Cardinality(Consumes(t)') = Cardinality(Consumes(t)) + 1
            BY <2>2, <3>1, FS_AddElement
        <3>3. held'[t] = held[t] + 1
            BY <1>1, <2>3 DEF GateTypeOK
        <3> QED  BY <1>1, <2>1, <2>2, <3>2, <3>3
    <2>4. CASE t # s
        <3>1. Consumes(t)' = Consumes(t)
            BY <1>1, <1>2, <2>4 DEF Consumes, GateTypeOK
        <3>2. held'[t] = held[t]
            BY <1>1, <2>4 DEF GateTypeOK
        <3> QED  BY <1>1, <2>1, <3>1, <3>2
    <2> QED  BY <2>3, <2>4
<1>5. MaxTotal > 0 => Places' <= MaxTotal
    <2> HAVE MaxTotal > 0
    <2>1. held \in [Sessions -> Nat] /\ held' \in [Sessions -> Nat]
        BY <1>3 DEF GateTypeOK
    <2>2. PICK f \in [Sessions -> Nat], h \in [Sessions -> Nat] : f = held /\ h = held'
        BY <2>1
    <2>3. h = [f EXCEPT ![s] = @ + 1]
        BY <1>1, <2>2
    <2>4. Count(h) <= Count(f) + 1 /\ Count(f) \in Nat /\ Count(h) \in Nat
        BY <2>2, <2>3, CountMore, CountFinite, ConsumerAssumption
    <2>5. Places = Count(f) /\ Places' = Count(h)
        BY <2>2 DEF Places, Count, Units
    <2>6. Places < MaxTotal
        BY <1>1 DEF Free
    <2> QED  BY <2>4, <2>5, <2>6, BoundAssumption
<1>6. MaxPerSession > 0 => \A t \in Sessions : held'[t] <= MaxPerSession
    <2> SUFFICES ASSUME MaxPerSession > 0, NEW t \in Sessions PROVE held'[t] <= MaxPerSession
        OBVIOUS
    <2>1. held[s] < MaxPerSession /\ held[s] \in Nat /\ MaxPerSession \in Nat
        BY <1>1, BoundAssumption DEF Free, GateTypeOK
    <2>2. held'[t] = IF t = s THEN held[t] + 1 ELSE held[t]
        BY <1>1 DEF GateTypeOK
    <2> QED  BY <2>1, <2>2 DEF GateInv
<1> QED  BY <1>3, <1>4, <1>5, <1>6 DEF GateInv

\* A consumer leaves: its place is given back, or lost.
LEMMA LeaveInv ==
    ASSUME GateTypeOK, GateInv, NEW c \in Consumers, NEW s \in Sessions, stream[c] = s,
           stream' = [stream EXCEPT ![c] = Nobody],
           c \notin open', open' \subseteq open,
           held' = held \/ held' = [held EXCEPT ![s] = @ - 1]
    PROVE  GateTypeOK' /\ GateInv'
<1>1. Nobody \notin Sessions
    BY ConsumerAssumption
<1>2. ASSUME NEW t \in Sessions
      PROVE  /\ IsFiniteSet(Consumes(t))
             /\ Cardinality(Consumes(t)) \in Nat
             /\ Cardinality(Consumes(t)) <= held[t] /\ held[t] \in Nat
    BY ConsumersFinite DEF Consumes, GateInv, GateTypeOK
<1>3. c \in Consumes(s)
    BY DEF Consumes
<1>4. Consumes(s)' = Consumes(s) \ {c}
    BY <1>1 DEF Consumes, GateTypeOK
<1>5. /\ Cardinality(Consumes(s)') = Cardinality(Consumes(s)) - 1
      /\ Cardinality(Consumes(s)') \in Nat
    <2>1. Cardinality(Consumes(s)') = Cardinality(Consumes(s)) - 1
        BY <1>2, <1>3, <1>4, FS_RemoveElement
    <2>2. Cardinality(Consumes(s)') \in Nat
        BY <1>4, ConsumersFinite DEF Consumes
    <2> QED  BY <2>1, <2>2
<1>6. held[s] - 1 \in Nat
    BY <1>2, <1>5
<1>7. GateTypeOK'
    <2>1. held' \in [Sessions -> Nat]
        BY <1>2, <1>6 DEF GateTypeOK
    <2>2. stream' \in [Consumers -> Sessions \cup {Nobody}]
        BY DEF GateTypeOK
    <2>3. open' \subseteq {d \in Consumers : stream'[d] # Nobody}
        BY DEF GateTypeOK
    <2> QED  BY <2>1, <2>2, <2>3 DEF GateTypeOK
<1>8. ASSUME NEW t \in Sessions
      PROVE  Cardinality(Consumes(t)') <= held'[t] /\ held'[t] <= held[t]
    <2>1. CASE t = s
        <3>1. held'[s] = held[s] \/ held'[s] = held[s] - 1
            BY DEF GateTypeOK
        <3> QED  BY <1>2, <1>5, <2>1, <3>1
    <2>2. CASE t # s
        <3>1. Consumes(t)' = Consumes(t)
            BY <1>1, <2>2 DEF Consumes, GateTypeOK
        <3>2. held'[t] = held[t]
            BY <2>2 DEF GateTypeOK
        <3> QED  BY <1>2, <3>1, <3>2
    <2> QED  BY <2>1, <2>2
<1> QED  BY <1>7, <1>8, NoMorePlaces DEF GateInv

LEMMA GateNext ==
    ASSUME GateTypeOK, GateInv, [Next]_vars
    PROVE  GateTypeOK' /\ GateInv'
<1>1. CASE UNCHANGED gateVars
    BY <1>1 DEF gateVars, GateTypeOK, GateInv, Consumes, Places, Count, Units
<1>2. ASSUME NEW c \in Consumers, NEW s \in Sessions, Connect(c, s)
      PROVE  GateTypeOK' /\ GateInv'
    BY <1>2, ConnectInv
<1>3. ASSUME NEW c \in Consumers, Start(c) PROVE GateTypeOK' /\ GateInv'
    <2>1. GateTypeOK'
        BY <1>3 DEF Start, GateTypeOK
    <2> QED  BY <1>3, <2>1 DEF Start, GateInv, Consumes, Places, Count, Units
<1>4. ASSUME NEW c \in Consumers, Vanish(c) PROVE GateTypeOK' /\ GateInv'
    <2>1. PICK s \in Sessions : stream[c] = s
        BY <1>4 DEF Vanish, GateTypeOK
    <2>2. /\ stream' = [stream EXCEPT ![c] = Nobody]
          /\ c \notin open' /\ open' = open
          /\ held' = held
        BY <1>4, <2>1 DEF Vanish
    <2> QED  BY <2>1, <2>2, LeaveInv
<1>5. ASSUME NEW c \in Consumers, Close(c) PROVE GateTypeOK' /\ GateInv'
    <2>1. PICK s \in Sessions : stream[c] = s
        BY <1>5 DEF Close, GateTypeOK
    <2>2. /\ stream' = [stream EXCEPT ![c] = Nobody]
          /\ c \notin open' /\ open' \subseteq open
          /\ held' = [held EXCEPT ![s] = @ - 1]
        BY <1>5, <2>1 DEF Close
    <2> QED  BY <2>1, <2>2, LeaveInv
<1> QED  BY <1>1, <1>2, <1>3, <1>4, <1>5 DEF Next, vars, GateStep

LEMMA GateInit == Init => GateTypeOK /\ GateInv
<1> SUFFICES ASSUME Init PROVE GateTypeOK /\ GateInv
    OBVIOUS
<1>1. /\ held = [s \in Sessions |-> 0]
      /\ stream = [c \in Consumers |-> Nobody] /\ open = {}
    BY DEF Init
<1>2. GateTypeOK
    BY <1>1 DEF GateTypeOK
<1>3. \A s \in Sessions : Consumes(s) = {}
    BY <1>1, ConsumerAssumption DEF Consumes
<1>4. Places = 0
    <2>1. held \in [Sessions -> Nat] /\ \A s \in Sessions : held[s] = 0
        BY <1>1
    <2>2. PICK f \in [Sessions -> Nat] : f = held
        BY <2>1
    <2> QED  BY <2>1, <2>2, CountZero DEF Places
<1>5. Cardinality({}) = 0
    BY FS_EmptySet
<1>6. \A s \in Sessions : Cardinality(Consumes(s)) = 0 /\ held[s] = 0
    BY <1>1, <1>3, <1>5
<1> QED  BY <1>2, <1>4, <1>6, BoundAssumption DEF GateInv

\* Every stream has a place of its session, whatever places consumers that went
\* before their generator started leave behind, and the caps hold (ratelimit.py,
\* SSEGate; app.py, build_events).
THEOREM StreamsCappedHolds == Spec => []StreamsCapped
<1>1. Init => GateTypeOK /\ GateInv
    BY GateInit
<1>2. GateTypeOK /\ GateInv /\ [Next]_vars => (GateTypeOK /\ GateInv)'
    BY GateNext
<1>3. GateInv => StreamsCapped
    BY DEF GateInv, StreamsCapped, Consumes
<1> QED  BY <1>1, <1>2, <1>3, PTL DEF Spec
=============================================================================
