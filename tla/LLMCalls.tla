------------------------------- MODULE LLMCalls -------------------------------
(***************************************************************************)
(* The calls a turn makes to the LLM provider: the validation loop of a    *)
(* proposal (agent/propose.py) around the repair loop of one structured    *)
(* answer (llm/_structured.py) around the retries of one request           *)
(* (llm/mistral.py), with the budget read from the llm_calls ledger before *)
(* every attempt and the ledger written after it (llm/budget.py).          *)
(* Sessions of one owner run side by side; a session runs one turn at a    *)
(* time, under its lock.                                                   *)
(***************************************************************************)
EXTENDS Integers, FiniteSets

CONSTANTS
    Sessions,
    Owners,      \* the day scopes: one per user, or one for all without auth
    OwnerOf,     \* Sessions -> Owners
    SessionMax,  \* limit of a session, in units of usage
    DayMax,      \* limit of an owner in the rolling day
    Costs,       \* what one attempt may cost: calls cost 1, tokens vary
    MaxCost,
    MaxRepairs,  \* MAX_REPAIRS
    MaxRounds,   \* MAX_VALIDATION_ROUNDS
    MaxRetries,  \* _MAX_RATE_LIMIT_RETRIES
    Broken,      \* answers that do not parse as the schema
    Invalid,     \* specs the semantic model refuses
    Good,        \* an answer that parses and is valid
    None         \* no answer yet

ASSUME ScopeAssumption == IsFiniteSet(Sessions) /\ OwnerOf \in [Sessions -> Owners]
ASSUME LimitAssumption == SessionMax \in Nat \ {0} /\ DayMax \in Nat \ {0}
ASSUME CostAssumption == MaxCost \in Nat /\ Costs \subseteq 1 .. MaxCost
ASSUME LoopAssumption == MaxRepairs \in Nat /\ MaxRounds \in Nat /\ MaxRetries \in Nat
ASSUME AnswerAssumption ==
    /\ Broken \cap Invalid = {}
    /\ Good \notin Broken \cup Invalid /\ None \notin Broken \cup Invalid \cup {Good}

VARIABLES
    pc,      \* where the turn of a session is
    turn,    \* the counters of its loops and what the last answers were
    tries,   \* refusals (429) of the request under way
    used,    \* ledger: usage of the session, all rows
    recent,  \* ledger: usage of its rows of the last window_hours
    posts    \* requests the turn has sent to the provider
vars == <<pc, turn, tries, used, recent, posts>>

\* validated: propose_spec and patch_spec validate the answer against the
\* model; grounding and narration do not.
Loops == [validated : BOOLEAN, round : 0 .. MaxRounds, attempt : 0 .. MaxRepairs,
          lastSpec : Invalid \cup {None}, lastAnswer : Broken \cup {None}]

Fresh(v) == [validated |-> v, round |-> 0, attempt |-> 0,
             lastSpec |-> None, lastAnswer |-> None]

Init ==
    /\ pc = [s \in Sessions |-> "idle"]
    /\ turn = [s \in Sessions |-> Fresh(FALSE)]
    /\ tries = [s \in Sessions |-> 0]
    /\ used = [s \in Sessions |-> 0]
    /\ recent = [s \in Sessions |-> 0]
    /\ posts = [s \in Sessions |-> 0]

\* LLMBudget.check reads both scopes, the day's as the units of usage of all
\* sessions of the owner; a limit is hit when usage reaches it.
Mine(o) == {s \in Sessions : OwnerOf[s] = o}
DayUnits(o) == UNION {{s} \X (1 .. recent[s]) : s \in Mine(o)}
DayUse(o) == Cardinality(DayUnits(o))
Admitted_Within(s) == used[s] <= SessionMax /\ DayUse(OwnerOf[s]) <= DayMax  \* Slip: > for >=
Admitted_Session(s) == used[s] < SessionMax  \* Slip: the day scope is not read
Admitted(s) == used[s] < SessionMax /\ DayUse(OwnerOf[s]) < DayMax

End(s) ==
    /\ pc' = [pc EXCEPT ![s] = "idle"]
    /\ turn' = [turn EXCEPT ![s] = Fresh(FALSE)]
    /\ tries' = [tries EXCEPT ![s] = 0]

Repeat(s, t) ==
    /\ pc' = [pc EXCEPT ![s] = "check"]
    /\ turn' = [turn EXCEPT ![s] = t]
    /\ tries' = [tries EXCEPT ![s] = 0]

Begin(s) ==
    /\ pc[s] = "idle"
    /\ \E v \in BOOLEAN : Repeat(s, Fresh(v))
    /\ posts' = [posts EXCEPT ![s] = 0]
    /\ UNCHANGED <<used, recent>>

Check(s) ==
    /\ pc[s] = "check" /\ Admitted(s)
    /\ pc' = [pc EXCEPT ![s] = "call"]
    /\ UNCHANGED <<turn, tries, used, recent, posts>>

Refuse_Waits(s) ==  \* Slip: a turn over budget waits for the window to move on
    /\ pc[s] = "check" /\ ~Admitted(s)
    /\ UNCHANGED vars
\* BudgetExceeded, or a Store that cannot be read: the call is not issued.
Refuse(s) ==
    /\ pc[s] = "check"
    /\ End(s)
    /\ UNCHANGED <<used, recent, posts>>

\* GraceKelly refuses a long prompt before it sends or logs anything.
TooLong(s) ==
    /\ pc[s] = "call" /\ tries[s] = 0
    /\ End(s)
    /\ UNCHANGED <<used, recent, posts>>

Throttled(s) ==
    /\ pc[s] = "call" /\ tries[s] < MaxRetries
    /\ tries' = [tries EXCEPT ![s] = @ + 1]
    /\ posts' = [posts EXCEPT ![s] = @ + 1]
    /\ UNCHANGED <<pc, turn, used, recent>>

\* append_llm_log in the finally of _call: one row per attempt, best effort.
Log(s) ==
    \/ \E c \in Costs :
        /\ used' = [used EXCEPT ![s] = @ + c]
        /\ recent' = [recent EXCEPT ![s] = @ + c]
    \/ UNCHANGED <<used, recent>>

CallFails(s) ==
    /\ pc[s] = "call"
    /\ End(s)
    /\ Log(s)
    /\ posts' = [posts EXCEPT ![s] = @ + 1]

\* complete_with_repair: an answer that does not parse is fed back, unless it
\* is the one before or the attempts are used up.
Repair_Forgets(s, a) ==  \* Slip: the attempts start again with every new answer
    LET t == turn[s] IN
    IF a = t.lastAnswer \/ t.attempt = MaxRepairs
    THEN End(s)
    ELSE Repeat(s, [t EXCEPT !.lastAnswer = a])
Repair(s, a) ==
    LET t == turn[s] IN
    IF a = t.lastAnswer \/ t.attempt = MaxRepairs
    THEN End(s)
    ELSE Repeat(s, [t EXCEPT !.attempt = @ + 1, !.lastAnswer = a])

\* _complete_validated: the same for a spec the model refuses, with a fresh
\* repair loop per round.
Feedback(s, a) ==
    LET t == turn[s] IN
    IF a = t.lastSpec \/ t.round = MaxRounds
    THEN End(s)
    ELSE Repeat(s, [Fresh(TRUE) EXCEPT !.round = t.round + 1, !.lastSpec = a])

Answer(s) ==
    /\ pc[s] = "call"
    /\ \/ \E a \in Broken : Repair(s, a)
       \/ turn[s].validated /\ \E a \in Invalid : Feedback(s, a)
       \/ End(s)
    /\ Log(s)
    /\ posts' = [posts EXCEPT ![s] = @ + 1]

\* Rows leave the rolling window.
Age(s) ==
    /\ \E n \in 0 .. recent[s] - 1 : recent' = [recent EXCEPT ![s] = n]
    /\ UNCHANGED <<pc, turn, tries, used, posts>>

\* purge_retention deletes rows that are at least a day old.
Sweep(s) ==
    /\ \E n \in recent[s] .. used[s] - 1 : used' = [used EXCEPT ![s] = n]
    /\ UNCHANGED <<pc, turn, tries, recent, posts>>

Step(s) ==
    \/ Check(s) \/ Refuse(s) \/ TooLong(s) \/ Throttled(s) \/ CallFails(s) \/ Answer(s)
Next == \E s \in Sessions : Begin(s) \/ Step(s) \/ Age(s) \/ Sweep(s)

Spec == Init /\ [][Next]_vars
\* The thread of a turn runs on: every request has a timeout.
FairSpec == Spec /\ \A s \in Sessions : WF_vars(Step(s))

-----------------------------------------------------------------------------
TypeOK ==
    /\ pc \in [Sessions -> {"idle", "check", "call"}]
    /\ turn \in [Sessions -> Loops]
    /\ tries \in [Sessions -> 0 .. MaxRetries]
    /\ used \in [Sessions -> Nat] /\ recent \in [Sessions -> Nat]
    /\ posts \in [Sessions -> Nat]
    /\ \A s \in Sessions : recent[s] <= used[s]

\* A session goes over its limit by less than what its last attempt cost.
SessionBudget == \A s \in Sessions : used[s] <= SessionMax - 1 + MaxCost

InFlight(o) == {s \in Mine(o) : pc[s] = "call"}

\* The day scope is read by one session while others wait for their answers:
\* it is exceeded by at most one attempt of every session of the owner, and
\* the attempts still under way are part of that.
DayOvershoot ==
    \A o \in Owners :
        DayUse(o) + MaxCost * Cardinality(InFlight(o))
            <= DayMax - 1 + MaxCost * Cardinality(Mine(o))

\* The three nested loops of a turn send no more requests than the product of
\* their bounds, however the answers alternate.
PerAttempt == 1 + MaxRetries
PerRound   == (1 + MaxRepairs) * PerAttempt
PerTurn    == (1 + MaxRounds) * PerRound
RequestsBounded == \A s \in Sessions : posts[s] <= PerTurn

\* Every turn ends, whatever the provider answers.
TurnEnds == \A s \in Sessions : (pc[s] # "idle") ~> (pc[s] = "idle")
=============================================================================
