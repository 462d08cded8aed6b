---------------------------- MODULE LLMCallsProofs ----------------------------
(***************************************************************************)
(* Proofs about LLMCalls, for any number of sessions and any bounds: a     *)
(* session exceeds its budget by less than what its last attempt cost, and *)
(* the three nested loops of a turn send no more requests than the product *)
(* of their bounds.                                                        *)
(***************************************************************************)
EXTENDS LLMCalls, FiniteSetTheorems, TLAPS

\* What the session had used when its attempt was admitted was within the
\* limit, and stays so until the attempt is logged.
AdmittedWithin == \A s \in Sessions : pc[s] = "call" => used[s] <= SessionMax - 1

\* The requests of the rounds and attempts that are over, and of this one.
Sent(t) == t.round * PerRound + t.attempt * PerAttempt
RequestsCounted ==
    \A s \in Sessions :
        /\ pc[s] = "check" => posts[s] <= Sent(turn[s])
        /\ pc[s] = "call" => posts[s] <= Sent(turn[s]) + tries[s]

LInv == TypeOK /\ AdmittedWithin /\ SessionBudget /\ RequestsCounted /\ RequestsBounded

-----------------------------------------------------------------------------
(* Products of the bounds. *)

LEMMA Products ==
    ASSUME NEW x \in Nat, NEW y \in Nat, NEW z \in Nat, x <= y
    PROVE  x * z <= y * z /\ (x + 1) * z = x * z + z /\ x * z \in Nat /\ y * z \in Nat
<1>1. PICK d \in Nat : y = x + d
    <2>1. y - x \in Nat /\ y = x + (y - x)
        OBVIOUS
    <2> QED  BY <2>1
<1>2. y * z = x * z + d * z
    BY <1>1, SMT
<1>3. d * z >= 0 /\ d * z \in Nat /\ x * z \in Nat /\ y * z \in Nat
    BY SMT
<1>4. (x + 1) * z = x * z + z
    BY SMT
<1> QED  BY <1>2, <1>3, <1>4

LEMMA Bounds == PerAttempt \in Nat \ {0} /\ PerRound \in Nat \ {0} /\ PerTurn \in Nat
<1>1. PerAttempt \in Nat \ {0}
    BY LoopAssumption DEF PerAttempt
<1>2. 1 + MaxRepairs \in Nat /\ 1 <= 1 + MaxRepairs /\ 1 + MaxRounds \in Nat
    BY LoopAssumption
<1>3. PerRound \in Nat \ {0}
    BY <1>1, <1>2, Products DEF PerRound
<1>4. PerTurn \in Nat
    BY <1>2, <1>3, Products DEF PerTurn
<1> QED  BY <1>1, <1>3, <1>4

\* An attempt that is over fits into its round, and a round into its turn.
LEMMA SentBounds ==
    ASSUME NEW t \in Loops
    PROVE  /\ Sent(t) \in Nat
           /\ Sent([t EXCEPT !.attempt = @ + 1]) = Sent(t) + PerAttempt
           /\ Sent(t) + PerAttempt <= (t.round + 1) * PerRound
           /\ (t.round + 1) * PerRound <= PerTurn
<1> USE LoopAssumption
<1>1. t.round \in Nat /\ t.attempt \in Nat /\ t.round <= MaxRounds /\ t.attempt <= MaxRepairs
    BY DEF Loops
<1>2. t.attempt * PerAttempt \in Nat /\ t.round * PerRound \in Nat
    BY <1>1, Bounds, Products
<1>3. (t.attempt + 1) * PerAttempt = t.attempt * PerAttempt + PerAttempt
    BY <1>1, Bounds, Products
<1>4. (t.attempt + 1) * PerAttempt <= PerRound
    <2>1. t.attempt + 1 \in Nat /\ 1 + MaxRepairs \in Nat /\ t.attempt + 1 <= 1 + MaxRepairs
        BY <1>1
    <2> QED  BY <2>1, Bounds, Products DEF PerRound
<1>5. (t.round + 1) * PerRound = t.round * PerRound + PerRound
    BY <1>1, Bounds, Products
<1>6. (t.round + 1) * PerRound <= PerTurn
    <2>1. t.round + 1 \in Nat /\ 1 + MaxRounds \in Nat /\ t.round + 1 <= 1 + MaxRounds
        BY <1>1
    <2> QED  BY <2>1, Bounds, Products DEF PerTurn
<1>7. Sent(t) \in Nat
    BY <1>2 DEF Sent
<1>8. Sent([t EXCEPT !.attempt = @ + 1]) = Sent(t) + PerAttempt
    <2>1. /\ [t EXCEPT !.attempt = @ + 1].round = t.round
          /\ [t EXCEPT !.attempt = @ + 1].attempt = t.attempt + 1
        BY DEF Loops
    <2> QED  BY <2>1, <1>2, <1>3, Bounds DEF Sent
<1>9. Sent(t) + PerAttempt <= (t.round + 1) * PerRound
    BY <1>2, <1>3, <1>4, <1>5, Bounds DEF Sent
<1> QED  BY <1>6, <1>7, <1>8, <1>9

LEMMA SentFits ==
    ASSUME NEW t \in Loops
    PROVE  Sent(t) + PerAttempt <= PerTurn
<1>1. /\ Sent(t) \in Nat /\ PerAttempt \in Nat /\ PerTurn \in Nat
      /\ Sent(t) + PerAttempt <= (t.round + 1) * PerRound
      /\ (t.round + 1) * PerRound <= PerTurn
    BY SentBounds, Bounds
<1>2. t.round + 1 \in Nat /\ PerRound \in Nat
    BY Bounds, LoopAssumption DEF Loops
<1>3. (t.round + 1) * PerRound \in Nat
    BY <1>2, Products
<1> QED  BY <1>1, <1>3

-----------------------------------------------------------------------------
(* What the parts of an action do. *)

LEMMA FreshTyped == \A v \in BOOLEAN : Fresh(v) \in Loops /\ Sent(Fresh(v)) = 0
<1>1. \A v \in BOOLEAN : Fresh(v) \in Loops
    BY LoopAssumption DEF Fresh, Loops
<1>2. \A v \in BOOLEAN : Fresh(v).round = 0 /\ Fresh(v).attempt = 0
    BY DEF Fresh
<1>3. 0 * PerRound = 0 /\ 0 * PerAttempt = 0
    BY Bounds, SMT
<1> QED  BY <1>1, <1>2, <1>3 DEF Sent

\* The counters after an answer that is fed back.
LEMMA NextAttempt ==
    ASSUME NEW t \in Loops, NEW a \in Broken, t.attempt + 1 \in 0 .. MaxRepairs
    PROVE  LET u == [t EXCEPT !.attempt = @ + 1, !.lastAnswer = a]
           IN  u \in Loops /\ u.round = t.round /\ u.attempt = t.attempt + 1
BY DEF Loops

LEMMA NextRound ==
    ASSUME NEW n \in 0 .. MaxRounds, NEW a \in Invalid, 0 \in 0 .. MaxRepairs
    PROVE  LET u == [Fresh(TRUE) EXCEPT !.round = n, !.lastSpec = a]
           IN  u \in Loops /\ u.round = n /\ u.attempt = 0
BY DEF Loops, Fresh

\* The turn goes on with other counters, or is over.
LEMMA Turned ==
    ASSUME TypeOK, NEW s \in Sessions, NEW t \in Loops, NEW where \in {"idle", "check"},
           pc' = [pc EXCEPT ![s] = where], turn' = [turn EXCEPT ![s] = t], tries' = [tries EXCEPT ![s] = 0]
    PROVE  /\ pc' \in [Sessions -> {"idle", "check", "call"}]
           /\ turn' \in [Sessions -> Loops] /\ tries' \in [Sessions -> 0 .. MaxRetries]
           /\ pc'[s] = where /\ turn'[s] = t
           /\ \A x \in Sessions \ {s} : pc'[x] = pc[x] /\ turn'[x] = turn[x] /\ tries'[x] = tries[x]
BY LoopAssumption DEF TypeOK

LEMMA Logged ==
    ASSUME TypeOK, NEW s \in Sessions, Log(s)
    PROVE  /\ used' \in [Sessions -> Nat] /\ recent' \in [Sessions -> Nat]
           /\ \A x \in Sessions : recent'[x] <= used'[x]
           /\ used'[s] <= used[s] + MaxCost
           /\ \A x \in Sessions \ {s} : used'[x] = used[x]
<1> USE CostAssumption
<1>1. CASE UNCHANGED <<used, recent>>
    BY <1>1 DEF TypeOK
<1>2. CASE \E c \in Costs : /\ used' = [used EXCEPT ![s] = @ + c]
                          /\ recent' = [recent EXCEPT ![s] = @ + c]
    <2>1. PICK c \in 1 .. MaxCost : /\ used' = [used EXCEPT ![s] = @ + c]
                                  /\ recent' = [recent EXCEPT ![s] = @ + c]
        BY <1>2
    <2> QED  BY <2>1 DEF TypeOK
<1> QED  BY <1>1, <1>2 DEF Log

-----------------------------------------------------------------------------
(* The invariant of the other sessions, and of the one that moves. *)

Kept(x) ==
    /\ pc[x] = "call" => used[x] <= SessionMax - 1
    /\ used[x] <= SessionMax - 1 + MaxCost
    /\ pc[x] = "check" => posts[x] <= Sent(turn[x])
    /\ pc[x] = "call" => posts[x] <= Sent(turn[x]) + tries[x]
    /\ posts[x] <= PerTurn

LEMMA InvSplit == LInv <=> TypeOK /\ \A x \in Sessions : Kept(x)
BY DEF LInv, AdmittedWithin, SessionBudget, RequestsCounted, RequestsBounded, Kept

LEMMA InvNext == TypeOK' /\ (\A x \in Sessions : Kept(x)') => LInv'
BY DEF LInv, AdmittedWithin, SessionBudget, RequestsCounted, RequestsBounded, Kept

LEMMA OthersKept ==
    ASSUME NEW s \in Sessions, NEW x \in Sessions \ {s}, Kept(x),
           pc'[x] = pc[x], turn'[x] = turn[x], tries'[x] = tries[x], used'[x] = used[x], posts'[x] = posts[x]
    PROVE  Kept(x)'
BY DEF Kept, Sent

\* An attempt that is answered or failed: one request more, one row at most.
LEMMA AttemptOver ==
    ASSUME LInv, NEW s \in Sessions, pc[s] = "call", Log(s), posts' = [posts EXCEPT ![s] = @ + 1],
           NEW t \in Loops, NEW where \in {"idle", "check"},
           pc' = [pc EXCEPT ![s] = where], turn' = [turn EXCEPT ![s] = t], tries' = [tries EXCEPT ![s] = 0],
           where = "check" => Sent(turn[s]) + PerAttempt <= Sent(t)
    PROVE  LInv'
<1>1. TypeOK /\ \A x \in Sessions : Kept(x)
    BY InvSplit
<1>2. posts' \in [Sessions -> Nat] /\ posts'[s] = posts[s] + 1 /\ \A x \in Sessions \ {s} : posts'[x] = posts[x]
    BY <1>1 DEF TypeOK
<1>3. TypeOK'
    BY <1>1, <1>2, Turned, Logged DEF TypeOK
<1>4. \A x \in Sessions \ {s} : Kept(x)'
    <2> TAKE x \in Sessions \ {s}
    <2>1. /\ pc'[x] = pc[x] /\ turn'[x] = turn[x] /\ tries'[x] = tries[x]
          /\ used'[x] = used[x] /\ posts'[x] = posts[x]
        BY <1>1, <1>2, Turned, Logged
    <2> QED  BY <1>1, <2>1, OthersKept
<1>5. Kept(s)'
    <2>1. /\ used[s] \in Nat /\ used'[s] \in Nat /\ posts[s] \in Nat /\ tries[s] \in 0 .. MaxRetries /\ turn[s] \in Loops
          /\ SessionMax \in Nat /\ MaxCost \in Nat /\ MaxRetries \in Nat
        BY <1>1, <1>3, LimitAssumption, CostAssumption, LoopAssumption DEF TypeOK
    <2>2. used[s] <= SessionMax - 1 /\ used'[s] <= used[s] + MaxCost
        BY <1>1, Logged DEF Kept
    <2>3. posts[s] <= Sent(turn[s]) + tries[s] /\ PerAttempt = 1 + MaxRetries
        BY <1>1 DEF Kept, PerAttempt
    <2>4. posts[s] + 1 <= Sent(turn[s]) + PerAttempt
        <3>1. tries[s] \in Nat /\ tries[s] <= MaxRetries
            BY <2>1
        <3>2. Sent(turn[s]) \in Nat
            BY <2>1, SentBounds
        <3> QED  BY <3>1, <3>2, <2>1, <2>3
    <2>5. Sent(turn[s]) + PerAttempt <= PerTurn
        BY <2>1, SentFits
    <2>6. pc'[s] = where /\ turn'[s] = t
        BY <1>1, Turned
    <2>7. Sent(turn[s]) \in Nat /\ Sent(t) \in Nat /\ PerAttempt \in Nat /\ PerTurn \in Nat
        BY <2>1, SentBounds, Bounds
    <2>8. used'[s] <= SessionMax - 1 + MaxCost /\ posts'[s] <= PerTurn
        BY <1>2, <2>1, <2>2, <2>4, <2>5, <2>7
    <2>9. where = "check" => posts'[s] <= Sent(t)
        BY <1>2, <2>1, <2>4, <2>7
    <2> QED  BY <2>6, <2>8, <2>9 DEF Kept, Sent
<1> QED  BY <1>3, <1>4, <1>5, InvNext

-----------------------------------------------------------------------------
(* One lemma per kind of step, then the theorems. *)

LEMMA InitInv == Init => LInv
<1> SUFFICES ASSUME Init PROVE LInv
    OBVIOUS
<1>1. \A x \in Sessions : pc[x] = "idle" /\ used[x] = 0 /\ posts[x] = 0
    BY DEF Init
<1>2. TypeOK
    <2>1. Fresh(FALSE) \in Loops
        BY FreshTyped
    <2>2. 0 \in 0 .. MaxRetries
        BY LoopAssumption
    <2>3. turn \in [Sessions -> Loops]
        BY <2>1, Zenon DEF Init
    <2>4. pc \in [Sessions -> {"idle", "check", "call"}] /\ tries \in [Sessions -> 0 .. MaxRetries]
        BY <2>2 DEF Init
    <2>5. /\ used \in [Sessions -> Nat] /\ recent \in [Sessions -> Nat] /\ posts \in [Sessions -> Nat]
          /\ \A s \in Sessions : recent[s] <= used[s]
        BY DEF Init
    <2> QED  BY <2>3, <2>4, <2>5 DEF TypeOK
<1>3. \A x \in Sessions : Kept(x)
    <2>1. 0 <= SessionMax - 1 + MaxCost /\ 0 <= PerTurn
        BY Bounds, LimitAssumption, CostAssumption
    <2> QED  BY <1>1, <2>1 DEF Kept
<1> QED  BY <1>2, <1>3, InvSplit

\* A turn that ends without a request.
LEMMA EndInv ==
    ASSUME LInv, NEW s \in Sessions, End(s), UNCHANGED <<used, recent, posts>>
    PROVE  LInv'
<1>1. TypeOK /\ \A x \in Sessions : Kept(x)
    BY InvSplit
<1>2. /\ pc' = [pc EXCEPT ![s] = "idle"] /\ turn' = [turn EXCEPT ![s] = Fresh(FALSE)]
      /\ tries' = [tries EXCEPT ![s] = 0] /\ Fresh(FALSE) \in Loops
    BY FreshTyped DEF End
<1>3. /\ pc' \in [Sessions -> {"idle", "check", "call"}]
      /\ turn' \in [Sessions -> Loops] /\ tries' \in [Sessions -> 0 .. MaxRetries]
      /\ pc'[s] = "idle"
      /\ \A x \in Sessions \ {s} : pc'[x] = pc[x] /\ turn'[x] = turn[x] /\ tries'[x] = tries[x]
    BY <1>1, <1>2, Turned
<1>4. TypeOK'
    BY <1>1, <1>3 DEF TypeOK
<1>5. \A x \in Sessions \ {s} : Kept(x)'
    BY <1>1, <1>3, OthersKept
<1>6. Kept(s)'
    BY <1>1, <1>3 DEF Kept
<1> QED  BY <1>4, <1>5, <1>6, InvNext

LEMMA BeginInv ==
    ASSUME LInv, NEW s \in Sessions, Begin(s)
    PROVE  LInv'
<1>1. TypeOK /\ \A x \in Sessions : Kept(x)
    BY InvSplit
<1>2. PICK v \in BOOLEAN : Repeat(s, Fresh(v))
    BY DEF Begin
<1>3. /\ pc' = [pc EXCEPT ![s] = "check"] /\ turn' = [turn EXCEPT ![s] = Fresh(v)]
      /\ tries' = [tries EXCEPT ![s] = 0] /\ Fresh(v) \in Loops /\ Sent(Fresh(v)) = 0
      /\ posts' = [posts EXCEPT ![s] = 0] /\ UNCHANGED <<used, recent>>
    BY <1>2, FreshTyped DEF Begin, Repeat
<1>4. /\ pc' \in [Sessions -> {"idle", "check", "call"}]
      /\ turn' \in [Sessions -> Loops] /\ tries' \in [Sessions -> 0 .. MaxRetries]
      /\ pc'[s] = "check" /\ turn'[s] = Fresh(v)
      /\ \A x \in Sessions \ {s} : pc'[x] = pc[x] /\ turn'[x] = turn[x] /\ tries'[x] = tries[x]
    BY <1>1, <1>3, Turned
<1>5. posts' \in [Sessions -> Nat] /\ posts'[s] = 0 /\ \A x \in Sessions \ {s} : posts'[x] = posts[x]
    BY <1>1, <1>3 DEF TypeOK
<1>6. TypeOK'
    BY <1>1, <1>3, <1>4, <1>5 DEF TypeOK
<1>7. \A x \in Sessions \ {s} : Kept(x)'
    BY <1>1, <1>3, <1>4, <1>5, OthersKept
<1>8. Kept(s)'
    <2>1. Sent(turn'[s]) = 0 /\ 0 <= PerTurn
        BY <1>3, <1>4, Bounds
    <2>2. used'[s] <= SessionMax - 1 + MaxCost
        BY <1>1, <1>3 DEF Kept
    <2> QED  BY <1>4, <1>5, <2>1, <2>2 DEF Kept, Sent
<1> QED  BY <1>6, <1>7, <1>8, InvNext

LEMMA CheckInv ==
    ASSUME LInv, NEW s \in Sessions, Check(s)
    PROVE  LInv'
<1>1. TypeOK /\ \A x \in Sessions : Kept(x)
    BY InvSplit
<1>2. /\ pc' \in [Sessions -> {"idle", "check", "call"}] /\ pc'[s] = "call" /\ pc[s] = "check"
      /\ \A x \in Sessions \ {s} : pc'[x] = pc[x]
      /\ UNCHANGED <<turn, tries, used, recent, posts>>
    BY <1>1 DEF Check, TypeOK
<1>3. TypeOK'
    BY <1>1, <1>2 DEF TypeOK
<1>4. \A x \in Sessions \ {s} : Kept(x)'
    BY <1>1, <1>2, OthersKept
<1>5. Kept(s)'
    <2>1. used[s] \in Nat /\ posts[s] \in Nat /\ tries[s] \in Nat /\ turn[s] \in Loops /\ SessionMax \in Nat
        BY <1>1, LimitAssumption, LoopAssumption DEF TypeOK
    <2>2. used[s] <= SessionMax - 1
        BY <2>1 DEF Check, Admitted
    <2>3. posts[s] <= Sent(turn[s]) + tries[s]
        <3>1. posts[s] <= Sent(turn[s]) /\ Sent(turn[s]) \in Nat
            BY <1>1, <1>2, <2>1, SentBounds DEF Kept
        <3> QED  BY <2>1, <3>1
    <2>4. used[s] <= SessionMax - 1 + MaxCost /\ posts[s] <= PerTurn
        BY <1>1 DEF Kept
    <2> QED  BY <1>2, <2>2, <2>3, <2>4 DEF Kept, Sent
<1> QED  BY <1>3, <1>4, <1>5, InvNext

LEMMA ThrottledInv ==
    ASSUME LInv, NEW s \in Sessions, Throttled(s)
    PROVE  LInv'
<1>1. TypeOK /\ \A x \in Sessions : Kept(x)
    BY InvSplit
<1>2. /\ pc[s] = "call" /\ tries[s] \in Nat /\ tries[s] + 1 <= MaxRetries /\ posts[s] \in Nat
      /\ turn[s] \in Loops /\ MaxRetries \in Nat
    BY <1>1, LoopAssumption DEF Throttled, TypeOK
<1>3. /\ tries' \in [Sessions -> 0 .. MaxRetries] /\ tries'[s] = tries[s] + 1
      /\ posts' \in [Sessions -> Nat] /\ posts'[s] = posts[s] + 1
      /\ \A x \in Sessions \ {s} : tries'[x] = tries[x] /\ posts'[x] = posts[x]
      /\ UNCHANGED <<pc, turn, used, recent>>
    BY <1>1, <1>2 DEF Throttled, TypeOK
<1>4. TypeOK'
    BY <1>1, <1>3 DEF TypeOK
<1>5. \A x \in Sessions \ {s} : Kept(x)'
    BY <1>1, <1>3, OthersKept
<1>6. Kept(s)'
    <2>1. posts[s] <= Sent(turn[s]) + tries[s] /\ used[s] <= SessionMax - 1 /\ used[s] <= SessionMax - 1 + MaxCost
        BY <1>1, <1>2 DEF Kept
    <2>2. Sent(turn[s]) \in Nat /\ PerAttempt \in Nat /\ PerTurn \in Nat /\ PerAttempt = 1 + MaxRetries
        BY <1>2, SentBounds, Bounds DEF PerAttempt
    <2>3. posts[s] + 1 <= Sent(turn[s]) + (tries[s] + 1)
        BY <1>2, <2>1, <2>2
    <2>4. Sent(turn[s]) + PerAttempt <= PerTurn
        BY <1>2, SentFits
    <2>5. posts[s] + 1 <= PerTurn
        BY <1>2, <2>2, <2>3, <2>4
    <2> QED  BY <1>2, <1>3, <2>1, <2>3, <2>5 DEF Kept, Sent
<1> QED  BY <1>4, <1>5, <1>6, InvNext

LEMMA CallFailsInv ==
    ASSUME LInv, NEW s \in Sessions, CallFails(s)
    PROVE  LInv'
BY AttemptOver, FreshTyped DEF CallFails, End

LEMMA AnswerInv ==
    ASSUME LInv, NEW s \in Sessions, Answer(s)
    PROVE  LInv'
<1> DEFINE t == turn[s]
<1>1. t \in Loops /\ MaxRepairs \in Nat /\ MaxRounds \in Nat
    BY LoopAssumption DEF LInv, TypeOK
<1>2. CASE End(s)
    BY <1>2, AttemptOver, FreshTyped DEF Answer, End
<1>3. ASSUME NEW a \in Broken, Repair(s, a), ~End(s)
      PROVE  LInv'
    <2> DEFINE u == [t EXCEPT !.attempt = @ + 1, !.lastAnswer = a]
    <2>1. t.attempt # MaxRepairs /\ Repeat(s, u)
        BY <1>3 DEF Repair
    <2>2. u \in Loops /\ u.round = t.round /\ u.attempt = t.attempt + 1
        <3>1. t.attempt \in 0 .. MaxRepairs /\ t.attempt + 1 \in 0 .. MaxRepairs
            BY <1>1, <2>1 DEF Loops
        <3> HIDE DEF t
        <3> QED  BY <1>1, <1>3, <3>1, NextAttempt
    <2>3. Sent(u) = Sent(t) + PerAttempt
        <3>1. /\ [t EXCEPT !.attempt = @ + 1].round = u.round
              /\ [t EXCEPT !.attempt = @ + 1].attempt = u.attempt
            BY <1>1, <2>2 DEF Loops
        <3>2. Sent([t EXCEPT !.attempt = @ + 1]) = Sent(t) + PerAttempt
            BY <1>1, SentBounds
        <3> QED  BY <3>1, <3>2 DEF Sent
    <2>4. Sent(t) + PerAttempt <= Sent(u)
        <3>1. Sent(t) \in Nat /\ PerAttempt \in Nat
            BY <1>1, Bounds, SentBounds
        <3> HIDE DEF u
        <3> QED  BY <2>3, <3>1
    <2> HIDE DEF u
    <2> QED  BY <2>1, <2>2, <2>4, AttemptOver DEF Answer, Repeat
<1>4. ASSUME NEW a \in Invalid, Feedback(s, a), ~End(s)
      PROVE  LInv'
    <2> DEFINE u == [Fresh(TRUE) EXCEPT !.round = t.round + 1, !.lastSpec = a]
    <2>1. t.round # MaxRounds /\ Repeat(s, u)
        BY <1>4 DEF Feedback
    <2>2. u \in Loops /\ u.round = t.round + 1 /\ u.attempt = 0
        <3>1. t.round + 1 \in 0 .. MaxRounds /\ 0 \in 0 .. MaxRepairs
            BY <1>1, <2>1 DEF Loops
        <3> HIDE DEF t
        <3> QED  BY <1>4, <3>1, NextRound
    <2>3. Sent(u) = (t.round + 1) * PerRound
        <3>1. t.round + 1 \in Nat
            BY <1>1 DEF Loops
        <3>2. 0 * PerAttempt = 0 /\ (t.round + 1) * PerRound \in Nat
            BY <3>1, Bounds, Products
        <3> HIDE DEF u
        <3> QED  BY <2>2, <3>2 DEF Sent
    <2>4. Sent(t) + PerAttempt <= Sent(u)
        BY <2>3, <1>1, SentBounds
    <2> HIDE DEF u
    <2> QED  BY <2>1, <2>2, <2>4, AttemptOver DEF Answer, Repeat
<1> QED  BY <1>2, <1>3, <1>4 DEF Answer

\* Rows leave the window, or the ledger.
LEMMA RowsInv ==
    ASSUME LInv, NEW s \in Sessions, Age(s) \/ Sweep(s)
    PROVE  LInv'
<1>1. TypeOK /\ \A x \in Sessions : Kept(x)
    BY InvSplit
<1>2. /\ used' \in [Sessions -> Nat] /\ recent' \in [Sessions -> Nat]
      /\ \A x \in Sessions : recent'[x] <= used'[x] /\ used'[x] <= used[x]
      /\ UNCHANGED <<pc, turn, tries, posts>>
    <2>1. CASE Age(s)
        <3>1. PICK n \in 0 .. recent[s] - 1 : recent' = [recent EXCEPT ![s] = n]
            BY <2>1 DEF Age
        <3> QED  BY <1>1, <2>1, <3>1 DEF Age, TypeOK
    <2>2. CASE Sweep(s)
        <3>1. PICK n \in recent[s] .. used[s] - 1 : used' = [used EXCEPT ![s] = n]
            BY <2>2 DEF Sweep
        <3> QED  BY <1>1, <2>2, <3>1 DEF Sweep, TypeOK
    <2> QED  BY <2>1, <2>2
<1>3. TypeOK'
    BY <1>1, <1>2 DEF TypeOK
<1>4. ASSUME NEW x \in Sessions PROVE Kept(x)'
    <2>1. used[x] \in Nat /\ used'[x] \in Nat /\ used'[x] <= used[x] /\ SessionMax \in Nat /\ MaxCost \in Nat
        BY <1>1, <1>2, LimitAssumption, CostAssumption DEF TypeOK
    <2>2. Kept(x)
        BY <1>1
    <2>3. used[x] <= SessionMax - 1 => used'[x] <= SessionMax - 1
        BY <2>1
    <2>4. used[x] <= SessionMax - 1 + MaxCost => used'[x] <= SessionMax - 1 + MaxCost
        BY <2>1
    <2> QED  BY <1>2, <2>2, <2>3, <2>4 DEF Kept, Sent
<1> QED  BY <1>3, <1>4, InvNext

LEMMA NextInv == LInv /\ [Next]_vars => LInv'
<1> SUFFICES ASSUME LInv, [Next]_vars PROVE LInv'
    OBVIOUS
<1>1. CASE UNCHANGED vars
    BY <1>1 DEF vars, LInv, TypeOK, AdmittedWithin, SessionBudget, RequestsCounted, RequestsBounded, Sent
<1>2. ASSUME NEW s \in Sessions, Begin(s) \/ Step(s) \/ Age(s) \/ Sweep(s) PROVE LInv'
    <2>1. Refuse(s) => LInv'
        BY EndInv DEF Refuse
    <2>2. TooLong(s) => LInv'
        BY EndInv DEF TooLong
    <2> QED  BY <1>2, <2>1, <2>2, BeginInv, CheckInv, ThrottledInv, CallFailsInv, AnswerInv, RowsInv DEF Step
<1> QED  BY <1>1, <1>2 DEF Next

\* The invariant of the calls: what is admitted is within the limit, and the
\* requests sent are those of the loops' counters (budget.py, propose.py,
\* _structured.py, mistral.py).
THEOREM Invariant == Spec => []LInv
<1>1. Init => LInv
    BY InitInv
<1>2. LInv /\ [Next]_vars => LInv'
    BY NextInv
<1> QED  BY <1>1, <1>2, PTL DEF Spec

\* Usage of a session, all its rows summed, exceeds its limit by less than
\* one attempt costs (budget.py: check before every attempt of _call).
THEOREM SessionBudgetHolds == Spec => []SessionBudget
<1>1. LInv => SessionBudget
    BY DEF LInv
<1> QED  BY <1>1, Invariant, PTL

\* A turn sends at most (rounds + 1) (repairs + 1) (retries + 1) requests,
\* however broken, invalid and refused answers alternate.
THEOREM RequestsBoundedHolds == Spec => []RequestsBounded
<1>1. LInv => RequestsBounded
    BY DEF LInv
<1> QED  BY <1>1, Invariant, PTL

-----------------------------------------------------------------------------
(* The day scope: what the sessions of an owner use together. *)

\* The units of usage of a finite set of sessions are finitely many.
LEMMA UnitsFinite ==
    ASSUME NEW S, IsFiniteSet(S), NEW r, \A x \in S : r[x] \in Nat
    PROVE  IsFiniteSet(UNION {{x} \X (1 .. r[x]) : x \in S})
<1> DEFINE P == {{x} \X (1 .. r[x]) : x \in S}
           f == [x \in S |-> {x} \X (1 .. r[x])]
<1>1. f \in Surjection(S, P)
    BY DEF Surjection
<1>2. IsFiniteSet(P)
    BY <1>1, FS_Surjection
<1>3. ASSUME NEW T \in P PROVE IsFiniteSet(T)
    <2>1. PICK x \in S : T = {x} \X (1 .. r[x])
        OBVIOUS
    <2>2. IsFiniteSet({x})
        BY FS_Singleton, Zenon
    <2>3. IsFiniteSet(1 .. r[x])
        <3>1. 1 \in Int /\ r[x] \in Int
            OBVIOUS
        <3> QED  BY <3>1, FS_Interval
    <2>4. IsFiniteSet({x} \X (1 .. r[x]))
        BY <2>2, <2>3, FS_Product, Zenon
    <2> QED  BY <2>1, <2>4
<1> HIDE DEF P
<1>4. IsFiniteSet(UNION P)
    BY <1>2, <1>3, FS_UNION
<1> QED  BY <1>4 DEF P

LEMMA OwnersSessions ==
    ASSUME NEW o \in Owners
    PROVE  /\ Mine(o) \subseteq Sessions
           /\ IsFiniteSet(Mine(o))
           /\ Cardinality(Mine(o)) \in Nat
           /\ MaxCost \in Nat
           /\ DayMax \in Nat \ {0}
<1>1. Mine(o) \subseteq Sessions
    BY DEF Mine
<1>2. IsFiniteSet(Mine(o))
    BY <1>1, FS_Subset, ScopeAssumption
<1> QED  BY <1>1, <1>2, FS_CardinalityType, LimitAssumption, CostAssumption

LEMMA DayFinite ==
    ASSUME NEW o \in Owners, TypeOK
    PROVE  /\ IsFiniteSet(DayUnits(o))
           /\ DayUse(o) \in Nat
<1>1. \A x \in Mine(o) : recent[x] \in Nat
    BY DEF TypeOK, Mine
<1>2. IsFiniteSet(DayUnits(o))
    BY <1>1, OwnersSessions, UnitsFinite DEF DayUnits
<1> QED  BY <1>2, FS_CardinalityType DEF DayUse

LEMMA DayFiniteNext ==
    ASSUME NEW o \in Owners, TypeOK'
    PROVE  /\ IsFiniteSet(DayUnits(o)')
           /\ DayUse(o)' \in Nat
<1>1. \A x \in Mine(o) : recent'[x] \in Nat
    BY DEF TypeOK, Mine
<1>2. IsFiniteSet(UNION {{x} \X (1 .. recent'[x]) : x \in Mine(o)})
    BY <1>1, OwnersSessions, UnitsFinite
<1>3. DayUnits(o)' = UNION {{x} \X (1 .. recent'[x]) : x \in Mine(o)}
    BY DEF DayUnits, Mine
<1>4. IsFiniteSet(DayUnits(o)')
    BY <1>2, <1>3
<1> QED  BY <1>4, FS_CardinalityType DEF DayUse

\* Rows that leave the window only lower the usage of their owner.
LEMMA DayShrinks ==
    ASSUME NEW o \in Owners, TypeOK, TypeOK',
           \A x \in Mine(o) : recent'[x] <= recent[x]
    PROVE  DayUse(o)' <= DayUse(o)
<1>1. DayUnits(o)' \subseteq DayUnits(o)
    <2> SUFFICES ASSUME NEW x \in Mine(o), NEW u \in 1 .. recent'[x]
                 PROVE  u \in 1 .. recent[x]
        BY DEF DayUnits, Mine
    <2>1. recent[x] \in Nat /\ recent'[x] \in Nat /\ recent'[x] <= recent[x]
        BY DEF TypeOK, Mine
    <2> QED  BY <2>1
<1>2. IsFiniteSet(DayUnits(o))
    BY DayFinite
<1> QED  BY <1>1, <1>2, FS_Subset DEF DayUse

\* A row adds its cost to the usage of its owner.
LEMMA DayGrows ==
    ASSUME NEW o \in Owners, TypeOK, TypeOK', NEW s \in Sessions, NEW c \in Nat,
           recent' = [recent EXCEPT ![s] = @ + c]
    PROVE  DayUse(o)' <= DayUse(o) + c
<1> DEFINE a == recent[s]
           Row == {s} \X (a + 1 .. a + c)
<1>1. /\ a \in Nat
      /\ recent'[s] = a + c
      /\ \A x \in Sessions \ {s} : recent'[x] = recent[x] /\ recent[x] \in Nat
    BY DEF TypeOK
<1>2. IsFiniteSet(Row) /\ Cardinality(Row) = c
    <2>1. PICK b \in Nat : b = a
        BY <1>1
    <2>2. b + 1 \in Int /\ b + c \in Int
        OBVIOUS
    <2>3. /\ IsFiniteSet(b + 1 .. b + c)
          /\ Cardinality(b + 1 .. b + c) = IF b + 1 > b + c THEN 0 ELSE (b + c) - (b + 1) + 1
        BY <2>2, FS_Interval
    <2>4. Cardinality(b + 1 .. b + c) = c
        BY <2>3
    <2>5. IsFiniteSet({s}) /\ Cardinality({s}) = 1
        BY FS_Singleton, Zenon
    <2>6. IsFiniteSet({s} \X (b + 1 .. b + c))
        BY <2>3, <2>5, FS_Product, Zenon
    <2>7. Cardinality({s} \X (b + 1 .. b + c)) = 1 * c
        BY <2>3, <2>4, <2>5, FS_Product
    <2> QED  BY <2>1, <2>6, <2>7
<1>3. DayUnits(o)' \subseteq DayUnits(o) \cup Row
    <2> SUFFICES ASSUME NEW x \in Mine(o), NEW u \in 1 .. recent'[x]
                 PROVE  u \in 1 .. recent[x] \/ (x = s /\ u \in a + 1 .. a + c)
        BY DEF DayUnits, Mine
    <2> QED  BY <1>1 DEF Mine, TypeOK
<1> HIDE DEF Row
<1>4. /\ IsFiniteSet(DayUnits(o))
      /\ DayUse(o) \in Nat
      /\ DayUse(o)' \in Nat
    BY DayFinite, DayFiniteNext
<1>5. /\ IsFiniteSet(DayUnits(o) \cup Row)
      /\ Cardinality(DayUnits(o) \cup Row) <= DayUse(o) + c
    <2>1. /\ IsFiniteSet(DayUnits(o) \cup Row)
          /\ Cardinality(DayUnits(o) \cup Row) =
                DayUse(o) + c - Cardinality(DayUnits(o) \cap Row)
        BY <1>2, <1>4, FS_Union DEF DayUse
    <2>2. Cardinality(DayUnits(o) \cap Row) \in Nat
        BY <1>2, FS_Intersection, FS_CardinalityType
    <2> QED  BY <1>4, <2>1, <2>2
<1>6. /\ Cardinality(DayUnits(o) \cup Row) \in Nat
      /\ DayUse(o)' <= Cardinality(DayUnits(o) \cup Row)
    BY <1>3, <1>5, FS_Subset, FS_CardinalityType DEF DayUse
<1> QED  BY <1>4, <1>5, <1>6

\* The calls under way are those of a finite set of sessions.
LEMMA FlightBounds ==
    ASSUME NEW o \in Owners, NEW F, F \subseteq Mine(o)
    PROVE  /\ IsFiniteSet(F)
           /\ Cardinality(F) \in Nat
           /\ Cardinality(F) <= Cardinality(Mine(o))
<1>1. IsFiniteSet(F) /\ Cardinality(F) <= Cardinality(Mine(o))
    BY OwnersSessions, FS_Subset
<1> QED  BY <1>1, FS_CardinalityType

LEMMA Scaled ==
    ASSUME NEW k \in Nat, NEW m \in Nat, NEW n \in Nat, m <= n
    PROVE  /\ k * m \in Nat
           /\ k * n \in Nat
           /\ k * m <= k * n
<1>1. k * m \in Nat /\ k * n \in Nat /\ k * (n - m) \in Nat
    <2>1. n - m \in Nat
        OBVIOUS
    <2> QED  BY <2>1
<1>2. k * (n - m) = k * n - k * m
    OBVIOUS
<1> QED  BY <1>1, <1>2

\* No call starts and no usage is added: the sum cannot rise.
LEMMA DayRests ==
    ASSUME NEW o \in Owners, TypeOK, TypeOK', DayOvershoot,
           InFlight(o)' \subseteq InFlight(o), DayUse(o)' <= DayUse(o)
    PROVE  DayUse(o)' + MaxCost * Cardinality(InFlight(o)')
               <= DayMax - 1 + MaxCost * Cardinality(Mine(o))
<1> DEFINE n == Cardinality(InFlight(o))
           m == Cardinality(InFlight(o)')
           z == Cardinality(Mine(o))
           d == DayUse(o)
           e == DayUse(o)'
<1>1. InFlight(o) \subseteq Mine(o)
    BY DEF InFlight
<1>2. IsFiniteSet(InFlight(o)) /\ n \in Nat
    BY <1>1, FlightBounds
<1>3. m \in Nat /\ m <= n
    BY <1>2, FS_Subset, FS_CardinalityType
<1>4. d \in Nat /\ e \in Nat
    BY DayFinite, DayFiniteNext
<1>5. d + MaxCost * n <= DayMax - 1 + MaxCost * z
    BY DEF DayOvershoot
<1>6. z \in Nat /\ MaxCost \in Nat /\ DayMax \in Nat
    BY OwnersSessions
<1>7. e <= d
    OBVIOUS
<1> HIDE DEF n, m, z, d, e
<1>8. MaxCost * m <= MaxCost * n /\ MaxCost * m \in Nat /\ MaxCost * n \in Nat
    BY <1>2, <1>3, <1>6, Scaled
<1>9. MaxCost * z \in Nat
    BY <1>6
<1>10. e + MaxCost * m <= DayMax - 1 + MaxCost * z
    BY <1>4, <1>5, <1>6, <1>7, <1>8, <1>9
<1> QED  BY <1>10 DEF n, m, z, d, e

\* A call is admitted only while the usage is below the limit: whatever is
\* under way then, there is room for it.
LEMMA DayCheck ==
    ASSUME NEW o \in Owners, NEW s \in Sessions, TypeOK, TypeOK', DayOvershoot, Check(s)
    PROVE  DayUse(o)' + MaxCost * Cardinality(InFlight(o)')
               <= DayMax - 1 + MaxCost * Cardinality(Mine(o))
<1>1. recent' = recent
    BY DEF Check
<1>2. \A x \in Mine(o) : recent'[x] <= recent[x]
    BY <1>1 DEF TypeOK, Mine
<1>3. DayUse(o)' <= DayUse(o)
    BY <1>2, DayShrinks
<1>4. CASE OwnerOf[s] = o
    <2> DEFINE m == Cardinality(InFlight(o)')
               z == Cardinality(Mine(o))
               d == DayUse(o)
               e == DayUse(o)'
    <2>1. d < DayMax
        BY <1>4 DEF Check, Admitted
    <2>2. InFlight(o)' \subseteq Mine(o)
        BY DEF InFlight, Mine
    <2>3. m \in Nat /\ m <= z
        BY <2>2, FlightBounds
    <2>4. d \in Nat /\ e \in Nat
        BY DayFinite, DayFiniteNext
    <2>5. z \in Nat /\ MaxCost \in Nat /\ DayMax \in Nat
        BY OwnersSessions
    <2>6. e <= d
        BY <1>3
    <2> HIDE DEF m, z, d, e
    <2>7. MaxCost * m <= MaxCost * z /\ MaxCost * m \in Nat /\ MaxCost * z \in Nat
        BY <2>3, <2>5, Scaled
    <2>8. e + MaxCost * m <= DayMax - 1 + MaxCost * z
        BY <2>1, <2>4, <2>5, <2>6, <2>7
    <2> QED  BY <2>8 DEF m, z, d, e
<1>5. CASE OwnerOf[s] # o
    <2>1. InFlight(o)' \subseteq InFlight(o)
        BY <1>5 DEF InFlight, Mine, Check, TypeOK
    <2> QED  BY <1>3, <2>1, DayRests
<1> QED  BY <1>4, <1>5

\* An answer that arrives takes its call out of what is under way and adds at
\* most what one call may cost.
LEMMA DayLog ==
    ASSUME NEW o \in Owners, NEW s \in Sessions, TypeOK, TypeOK', DayOvershoot,
           pc[s] = "call", pc'[s] # "call",
           \A x \in Sessions \ {s} : pc'[x] = pc[x],
           Log(s)
    PROVE  DayUse(o)' + MaxCost * Cardinality(InFlight(o)')
               <= DayMax - 1 + MaxCost * Cardinality(Mine(o))
<1>1. InFlight(o)' = InFlight(o) \ {s}
    BY DEF InFlight, Mine
<1>2. CASE UNCHANGED <<used, recent>>
    <2>1. \A x \in Mine(o) : recent'[x] <= recent[x]
        BY <1>2 DEF TypeOK, Mine
    <2>2. DayUse(o)' <= DayUse(o)
        BY <2>1, DayShrinks
    <2>3. InFlight(o)' \subseteq InFlight(o)
        BY <1>1
    <2> QED  BY <2>2, <2>3, DayRests
<1>3. ASSUME NEW c \in Costs, recent' = [recent EXCEPT ![s] = @ + c]
      PROVE  DayUse(o)' + MaxCost * Cardinality(InFlight(o)')
                 <= DayMax - 1 + MaxCost * Cardinality(Mine(o))
    <2>1. CASE OwnerOf[s] # o
        <3>1. \A x \in Mine(o) : recent'[x] <= recent[x]
            BY <1>3, <2>1 DEF TypeOK, Mine
        <3>2. DayUse(o)' <= DayUse(o)
            BY <3>1, DayShrinks
        <3>3. InFlight(o)' \subseteq InFlight(o)
            BY <1>1
        <3> QED  BY <3>2, <3>3, DayRests
    <2>2. CASE OwnerOf[s] = o
        <3> DEFINE n == Cardinality(InFlight(o))
                   m == Cardinality(InFlight(o)')
                   z == Cardinality(Mine(o))
                   d == DayUse(o)
                   e == DayUse(o)'
        <3>1. s \in InFlight(o) /\ InFlight(o) \subseteq Mine(o)
            BY <2>2 DEF InFlight, Mine
        <3>2. IsFiniteSet(InFlight(o)) /\ n \in Nat
            BY <3>1, FlightBounds
        <3>3. m = n - 1 /\ m \in Nat
            <4>1. m = n - 1
                BY <1>1, <3>1, <3>2, FS_RemoveElement
            <4>2. IsFiniteSet(InFlight(o)')
                BY <1>1, <3>2, FS_Subset
            <4> QED  BY <4>1, <4>2, FS_CardinalityType
        <3>4. c \in Nat /\ c <= MaxCost
            BY CostAssumption
        <3>5. e <= d + c
            BY <1>3, <3>4, DayGrows
        <3>6. d \in Nat /\ e \in Nat
            BY DayFinite, DayFiniteNext
        <3>7. d + MaxCost * n <= DayMax - 1 + MaxCost * z
            BY DEF DayOvershoot
        <3>8. z \in Nat /\ MaxCost \in Nat /\ DayMax \in Nat
            BY OwnersSessions
        <3> HIDE DEF n, m, z, d, e
        <3>9. MaxCost * n = MaxCost * m + MaxCost
            BY <3>2, <3>3, <3>8
        <3>10. MaxCost * m \in Nat /\ MaxCost * z \in Nat
            BY <3>3, <3>8
        <3>11. e + MaxCost * m <= DayMax - 1 + MaxCost * z
            BY <3>4, <3>5, <3>6, <3>7, <3>8, <3>9, <3>10
        <3> QED  BY <3>11 DEF n, m, z, d, e
    <2> QED  BY <2>1, <2>2
<1> QED  BY <1>2, <1>3 DEF Log

LEMMA DayStep ==
    ASSUME TypeOK, TypeOK', DayOvershoot, [Next]_vars, NEW o \in Owners
    PROVE  DayUse(o)' + MaxCost * Cardinality(InFlight(o)')
               <= DayMax - 1 + MaxCost * Cardinality(Mine(o))
<1> DEFINE Goal == DayUse(o)' + MaxCost * Cardinality(InFlight(o)')
                       <= DayMax - 1 + MaxCost * Cardinality(Mine(o))
<1>1. ASSUME \A x \in Sessions : recent'[x] <= recent[x],
             \A x \in Sessions : pc'[x] = "call" => pc[x] = "call"
      PROVE  Goal
    <2>1. \A x \in Mine(o) : recent'[x] <= recent[x]
        BY <1>1 DEF Mine
    <2>2. DayUse(o)' <= DayUse(o)
        BY <2>1, DayShrinks
    <2>3. InFlight(o)' \subseteq InFlight(o)
        BY <1>1 DEF InFlight, Mine
    <2> QED  BY <2>2, <2>3, DayRests
<1>2. CASE UNCHANGED vars
    <2>1. recent' = recent /\ pc' = pc
        BY <1>2 DEF vars
    <2>2. \A x \in Sessions : recent'[x] <= recent[x]
        BY <2>1 DEF TypeOK
    <2> QED  BY <1>1, <2>1, <2>2
<1>3. ASSUME NEW s \in Sessions, Begin(s) \/ Step(s) \/ Age(s) \/ Sweep(s)
      PROVE  Goal
    <2> HIDE DEF Goal
    <2>1. CASE Begin(s) \/ Refuse(s) \/ TooLong(s) \/ Throttled(s) \/ Sweep(s)
        <3>1. recent' = recent
            BY <2>1 DEF Begin, Refuse, TooLong, Throttled, Sweep
        <3>2. \A x \in Sessions : recent'[x] <= recent[x]
            BY <3>1 DEF TypeOK
        <3>3. \A x \in Sessions : pc'[x] = "call" => pc[x] = "call"
            BY <2>1 DEF TypeOK, Begin, Repeat, Refuse, TooLong, End, Throttled, Sweep
        <3> QED  BY <1>1, <3>2, <3>3
    <2>2. CASE Age(s)
        <3>1. pc' = pc
            BY <2>2 DEF Age
        <3>2. PICK n \in 0 .. recent[s] - 1 : recent' = [recent EXCEPT ![s] = n]
            BY <2>2 DEF Age
        <3>3. \A x \in Sessions : recent'[x] <= recent[x]
            BY <3>2 DEF TypeOK
        <3> QED  BY <1>1, <3>1, <3>3
    <2>3. CASE Check(s)
        BY <2>3, DayCheck DEF Goal
    <2>4. CASE CallFails(s)
        <3>1. /\ pc[s] = "call"
              /\ pc'[s] # "call"
              /\ \A x \in Sessions \ {s} : pc'[x] = pc[x]
              /\ Log(s)
            BY <2>4 DEF CallFails, End, TypeOK
        <3> QED  BY <3>1, DayLog DEF Goal
    <2>5. CASE Answer(s)
        <3>1. pc[s] = "call" /\ Log(s)
            BY <2>5 DEF Answer
        <3>2. pc' = [pc EXCEPT ![s] = "idle"] \/ pc' = [pc EXCEPT ![s] = "check"]
            BY <2>5 DEF Answer, Repair, Feedback, End, Repeat
        <3>3. /\ pc'[s] # "call"
              /\ \A x \in Sessions \ {s} : pc'[x] = pc[x]
            BY <3>2 DEF TypeOK
        <3> QED  BY <3>1, <3>3, DayLog DEF Goal
    <2> QED  BY <1>3, <2>1, <2>2, <2>3, <2>4, <2>5 DEF Step
<1> QED  BY <1>2, <1>3 DEF Next

LEMMA DayStart == Init => DayOvershoot
<1> SUFFICES ASSUME Init, NEW o \in Owners
             PROVE  DayUse(o) + MaxCost * Cardinality(InFlight(o))
                        <= DayMax - 1 + MaxCost * Cardinality(Mine(o))
    BY DEF DayOvershoot
<1>1. InFlight(o) = {}
    BY DEF InFlight, Mine, Init
<1>2. DayUnits(o) = {}
    <2>1. \A x \in Mine(o) : 1 .. recent[x] = {}
        BY DEF Init, Mine
    <2> QED  BY <2>1 DEF DayUnits
<1>3. Cardinality({}) = 0
    BY FS_EmptySet
<1>4. MaxCost * Cardinality(Mine(o)) \in Nat
    <2>1. MaxCost \in Nat /\ Cardinality(Mine(o)) \in Nat
        BY OwnersSessions
    <2> HIDE DEF Mine
    <2> QED  BY <2>1
<1>5. DayUse(o) = 0 /\ MaxCost * Cardinality(InFlight(o)) = 0
    BY <1>1, <1>2, <1>3, CostAssumption DEF DayUse
<1> QED  BY <1>4, <1>5, LimitAssumption

\* The day's usage of an owner, the calls under way counted at what they may
\* cost, exceeds the limit by less than one call of each of its sessions
\* (budget.py: two sessions read the same usage and both go on).
THEOREM DayOvershootHolds == Spec => []DayOvershoot
<1>1. Init => DayOvershoot
    BY DayStart
<1>2. LInv /\ LInv' /\ DayOvershoot /\ [Next]_vars => DayOvershoot'
    <2> SUFFICES ASSUME LInv, LInv', DayOvershoot, [Next]_vars PROVE DayOvershoot'
        OBVIOUS
    <2>1. TypeOK /\ TypeOK'
        BY DEF LInv
    <2>2. \A o \in Owners : DayUse(o)' + MaxCost * Cardinality(InFlight(o)')
                               <= DayMax - 1 + MaxCost * Cardinality(Mine(o))
        BY <2>1, DayStep
    <2> QED  BY <2>2 DEF DayOvershoot, Mine
<1> QED  BY <1>1, <1>2, Invariant, PTL DEF Spec
=============================================================================
