----------------------------- MODULE AgentMachine -----------------------------
(***************************************************************************)
(* The dialogue of one session: AgentSession (agent/machine.py), the rows  *)
(* its steps leave behind, and what SessionManager._hydrate makes of them  *)
(* after an eviction or a restart (api/sessions.py).                       *)
(*                                                                         *)
(* A turn is one request under the session's lock.  Its calls to the LLM   *)
(* and to the Store are steps of their own: any of them may fail, and the  *)
(* process may die between any two.                                        *)
(***************************************************************************)
EXTENDS Naturals, Sequences

CONSTANTS
    Contents,  \* what specs can say: charts, queries, filters
    Keys,      \* dm_change_request keys: a table and the rules it breaks
    Requests,  \* the keys the advisor finds in a spec of each content
    Faulty,    \* contents the advisor raises on: generate_chart_sql refuses
               \* a list under a scalar operator, which validate_spec accepts
    Target,    \* the BI target the user chose for the session
    NoSpec,    \* no spec yet
    MaxEdits,  \* bound: specs rows of the session
    MaxSaid,   \* bound: user messages are counted up to here
    MaxLost    \* bound: trace events that are not written

MAX_CLARIFY_ROUNDS == 2

ASSUME ContentsAssumption == NoSpec \notin [what : Contents,
                                            target : {"superset", "datalens"}]
ASSUME RequestsAssumption == Requests \in [Contents -> SUBSET Keys]
ASSUME FaultyAssumption == Faulty \subseteq Contents
ASSUME TargetAssumption == Target \in {"superset", "datalens"}
ASSUME BoundsAssumption ==
    MaxEdits \in Nat \ {0} /\ MaxSaid \in Nat \ {0} /\ MaxLost \in Nat

VARIABLES
    \* Store
    said,    \* user messages
    traced,  \* trace events of kind "clarify"
    specs,   \* the specs rows, oldest first
    filed,   \* dm_change_requests rows per key
    \* AgentSession
    live,    \* the object is in memory
    phase, spec, spec_row, verdicts, answers, rounds, logged,
    hurt,    \* a Store call of its turns has failed
    strayed, \* the spec in memory is one its turn did not live to store
    \* the request under way, and the client
    pc,
    known,   \* the client has the id of the session
    asked,   \* times questions were put to the user
    lost,    \* times the trace of that failed
    shown,   \* change requests the user was shown, while nothing had failed
    built    \* what the last approve handed to a build

storeVars == <<said, traced, specs, filed>>
agentVars == <<live, phase, spec, spec_row, verdicts, answers, rounds, logged,
              hurt, strayed>>
clientVars == <<known, asked, lost, shown, built>>
vars == <<storeVars, agentVars, pc, clientVars>>

Spec_ == [what : Contents, target : {"superset", "datalens"}]
AgentPhase == {"intake", "clarify", "approve", "approved"}
LlmPc == {"ground", "propose", "patch"}
StorePc == {"ask", "trace", "noop", "announce", "save", "log"}

Builds == [what : Contents \cup {NoSpec}, row : Nat, whole : BOOLEAN,
           strayed : BOOLEAN]

TypeOK ==
    /\ said \in 0..MaxSaid
    /\ traced \in Nat
    /\ specs \in Seq([spec : Spec_, status : {"proposed", "approved"}])
    /\ filed \in [Keys -> Nat]
    /\ live \in BOOLEAN
    /\ phase \in AgentPhase
    /\ spec \in Spec_ \cup {NoSpec}
    /\ spec_row \in 0..Len(specs)
    /\ answers \in 0..MaxSaid
    /\ rounds \in 0..MAX_CLARIFY_ROUNDS
    /\ logged \subseteq Keys
    /\ hurt \in BOOLEAN /\ strayed \in BOOLEAN
    /\ pc \in {"idle"} \cup LlmPc \cup StorePc
    /\ known \in BOOLEAN
    /\ asked \in Nat /\ lost \in Nat
    /\ verdicts \subseteq Keys
    /\ shown \subseteq Keys
    /\ built \in Builds

NoBuild == [what |-> NoSpec, row |-> 0, whole |-> FALSE, strayed |-> FALSE]

\* The object is not in memory.
Forgotten ==
    /\ live' = FALSE /\ phase' = "intake" /\ spec' = NoSpec /\ spec_row' = 0
    /\ verdicts' = {} /\ answers' = 0 /\ rounds' = 0 /\ logged' = {} /\ hurt' = FALSE
    /\ strayed' = FALSE

Init ==
    /\ said = 0 /\ traced = 0 /\ specs = <<>> /\ filed = [k \in Keys |-> 0]
    /\ live = FALSE /\ phase = "intake" /\ spec = NoSpec /\ spec_row = 0
    /\ verdicts = {} /\ answers = 0 /\ rounds = 0 /\ logged = {} /\ hurt = FALSE
    /\ strayed = FALSE
    /\ pc = "idle"
    /\ known = FALSE /\ asked = 0 /\ lost = 0 /\ shown = {} /\ built = NoBuild

OneMore(n, bound) == IF n < bound THEN n + 1 ELSE n

-----------------------------------------------------------------------------
(* How a turn ends. *)

\* _apply_target_bi: the user's choice is stamped on the spec in memory.
Stamped(s) == IF s = NoSpec THEN NoSpec ELSE [s EXCEPT !.target = Target]

\* Every answer carries the current verdicts.
Show == shown' = IF hurt THEN shown ELSE shown \cup verdicts

\* The turn is answered; a start gives the client the id.
Answer ==
    /\ pc' = "idle"
    /\ known' = TRUE
    /\ spec' = Stamped(spec)
    /\ Show

\* The first turn of a session that fails registers nothing: its rows stay
\* and nobody ever asks for them.  The client starts anew.
Abandoned ==
    /\ said' = 0 /\ traced' = 0 /\ specs' = <<>> /\ filed' = [k \in Keys |-> 0]
    /\ Forgotten
    /\ pc' = "idle"
    /\ UNCHANGED clientVars

\* An LLM or validation error: the client gets the current proposal again.
LlmFails ==
    /\ pc \in LlmPc
    /\ IF known
       THEN /\ pc' = "idle"
            /\ Show
            /\ UNCHANGED <<storeVars, agentVars, known, asked, lost, built>>
       ELSE Abandoned

\* A Store call raises: 500, whatever the turn has changed in memory stays.
StoreFails ==
    /\ pc \in StorePc \ {"trace", "log"}
    /\ IF known
       THEN /\ pc' = "idle"
            /\ hurt' = TRUE
            /\ UNCHANGED <<storeVars, live, phase, spec, spec_row, verdicts, answers,
                           rounds, logged, strayed, clientVars>>
       ELSE Abandoned

-----------------------------------------------------------------------------
(* The first turn: start with a request or a layout, or an auto-overview. *)

Start ==
    /\ pc = "idle" /\ ~live /\ ~known
    /\ live' = TRUE
    /\ said' = 1
    /\ pc' = "ground"
    /\ UNCHANGED <<traced, specs, filed, phase, spec, spec_row, verdicts, answers,
                   rounds, logged, hurt, strayed, clientVars>>

\* adopt_spec: the spec carries the user's target already.  One the advisor
\* raises on registers nothing.
Adopt(c) ==
    /\ pc = "idle" /\ ~live /\ ~known
    /\ c \notin Faulty
    /\ live' = TRUE
    /\ spec' = [what |-> c, target |-> Target]
    /\ verdicts' = Requests[c]
    /\ phase' = "approve"
    /\ pc' = "announce"
    /\ UNCHANGED <<storeVars, spec_row, answers, rounds, logged, hurt,
                   strayed, clientVars>>

-----------------------------------------------------------------------------
(* reply.  Without the user's message on record it does nothing. *)

Reply ==
    /\ pc = "idle" /\ live
    /\ phase \in {"approve", "approved"} => Len(specs) < MaxEdits
    /\ said' = OneMore(said, MaxSaid)
    /\ IF phase = "clarify"
       THEN answers' = OneMore(answers, MaxSaid - 1) /\ pc' = "ground"
       ELSE UNCHANGED answers /\ pc' = "patch"
    /\ UNCHANGED <<traced, specs, filed, live, phase, spec, spec_row, verdicts, rounds,
                   logged, hurt, strayed, clientVars>>

\* Slip: one round too many.
Ground_Asks(unclear) ==
    /\ pc = "ground"
    /\ IF unclear /\ rounds <= MAX_CLARIFY_ROUNDS
       THEN /\ rounds' = rounds + 1
            /\ phase' = "clarify"
            /\ pc' = "ask"
       ELSE pc' = "propose" /\ UNCHANGED <<rounds, phase>>
    /\ UNCHANGED <<storeVars, live, spec, spec_row, verdicts, answers, logged, hurt,
                   strayed, clientVars>>

\* Slip: when no round is left the turn ends with neither.
Ground_Stops(unclear) ==
    /\ pc = "ground"
    /\ IF unclear
       THEN IF rounds < MAX_CLARIFY_ROUNDS
            THEN rounds' = rounds + 1 /\ phase' = "clarify" /\ pc' = "ask"
            ELSE pc' = "idle" /\ UNCHANGED <<rounds, phase>>
       ELSE pc' = "propose" /\ UNCHANGED <<rounds, phase>>
    /\ UNCHANGED <<storeVars, live, spec, spec_row, verdicts, answers, logged,
                   hurt, strayed, clientVars>>

\* Questions exist iff the grounding report has unclear entries, and are put
\* at most MAX_CLARIFY_ROUNDS times.
Ground(unclear) ==
    /\ pc = "ground"
    /\ IF unclear /\ rounds < MAX_CLARIFY_ROUNDS
       THEN /\ rounds' = rounds + 1
            /\ phase' = "clarify"
            /\ pc' = "ask"
       ELSE pc' = "propose" /\ UNCHANGED <<rounds, phase>>
    /\ UNCHANGED <<storeVars, live, spec, spec_row, verdicts, answers, logged, hurt,
                   strayed, clientVars>>

Ask ==
    /\ pc = "ask"
    /\ pc' = "trace"
    /\ UNCHANGED <<storeVars, agentVars, clientVars>>

\* The trace is what a hydration counts the rounds by.
AskTraced ==
    /\ pc = "trace"
    /\ traced' = traced + 1
    /\ asked' = asked + 1
    /\ Answer
    /\ UNCHANGED <<said, specs, filed, live, phase, spec_row, verdicts, answers, rounds,
                   logged, hurt, strayed, lost, built>>

\* Tracing never stops a turn, and leaves nothing when it fails.
AskUntraced ==
    /\ pc = "trace" /\ lost < MaxLost
    /\ asked' = asked + 1 /\ lost' = lost + 1
    /\ hurt' = TRUE
    /\ Answer
    /\ UNCHANGED <<storeVars, live, phase, spec_row, verdicts, answers, rounds,
                   logged, strayed, built>>

\* The spec is assigned, and the verdicts are cleared, before the advisor
\* reviews it.  What that raises is no LLM error: 500, no phase, no row.
Strays(s) ==
    IF known
    THEN /\ spec' = s /\ verdicts' = {} /\ strayed' = TRUE
         /\ pc' = "idle"
         /\ UNCHANGED <<storeVars, live, phase, spec_row, answers, rounds,
                        logged, hurt, clientVars>>
    ELSE Abandoned

Drafted(c) == [what |-> c, target |-> "superset"]

ProposeRaises(c) ==
    /\ pc = "propose"
    /\ c \in Faulty
    /\ Strays(Drafted(c))

\* _propose and _propose_turn: the LLM is not asked for a target.
Propose(c) ==
    /\ pc = "propose"
    /\ c \notin Faulty
    /\ spec' = Drafted(c)
    /\ verdicts' = Requests[c]
    /\ phase' = "approve"
    /\ pc' = "announce"
    /\ UNCHANGED <<storeVars, live, spec_row, answers, rounds, logged, hurt,
                   strayed, clientVars>>

\* patch_spec returns a whole spec, whose target the LLM kept or reset.
Patched(c, target) ==
    IF target = "kept" THEN [what |-> c, target |-> spec.target] ELSE Drafted(c)

PatchRaises(c, target) ==
    /\ pc = "patch"
    /\ c \in Faulty
    /\ Patched(c, target) # spec
    /\ Strays(Patched(c, target))

\* Only a spec that differs is a proposal.
Patch(c, target) ==
    /\ pc = "patch"
    /\ IF Patched(c, target) = spec
       THEN pc' = "noop" /\ UNCHANGED <<spec, verdicts, phase>>
       ELSE /\ c \notin Faulty
            /\ spec' = Patched(c, target) /\ verdicts' = Requests[c]
            /\ phase' = "approve" /\ pc' = "announce"
    /\ UNCHANGED <<storeVars, live, spec_row, answers, rounds, logged, hurt,
                   strayed, clientVars>>

Noop ==
    /\ pc = "noop"
    /\ Answer
    /\ UNCHANGED <<storeVars, live, phase, spec_row, verdicts, answers, rounds, logged,
                   hurt, strayed, asked, lost, built>>

Announce ==
    /\ pc = "announce"
    /\ pc' = "save"
    /\ UNCHANGED <<storeVars, agentVars, clientVars>>

\* Slip: the number of the new row is not kept.
SaveSpec_Loses ==
    /\ pc = "save"
    /\ specs' = Append(specs, [spec |-> spec, status |-> "proposed"])
    /\ pc' = "log"
    /\ UNCHANGED <<said, traced, filed, agentVars, clientVars>>

SaveSpec ==
    /\ pc = "save"
    /\ specs' = Append(specs, [spec |-> spec, status |-> "proposed"])
    /\ spec_row' = Len(specs')
    /\ strayed' = FALSE
    /\ pc' = "log"
    /\ UNCHANGED <<said, traced, filed, live, phase, spec, verdicts, answers, rounds,
                   logged, hurt, clientVars>>

\* _log_dm_change_requests: one request per finding.
Unlogged == verdicts \ logged

LogRequest(k) ==
    /\ pc = "log"
    /\ k \in Unlogged
    /\ logged' = logged \cup {k}
    /\ filed' = [filed EXCEPT ![k] = @ + 1]
    /\ UNCHANGED <<said, traced, specs, live, phase, spec, spec_row, verdicts, answers,
                   rounds, hurt, strayed, pc, clientVars>>

\* The key is remembered before the row is written.
FilingFails(k) ==
    /\ pc = "log"
    /\ k \in Unlogged
    /\ IF known
       THEN /\ logged' = logged \cup {k}
            /\ hurt' = TRUE
            /\ pc' = "idle"
            /\ UNCHANGED <<storeVars, live, phase, spec, spec_row, verdicts,
                           answers, rounds, strayed, clientVars>>
       ELSE Abandoned

Proposed ==
    /\ pc = "log"
    /\ Unlogged = {}
    /\ Answer
    /\ UNCHANGED <<storeVars, live, phase, spec_row, verdicts, answers, rounds, logged,
                   hurt, strayed, asked, lost, built>>

-----------------------------------------------------------------------------
(* approve *)

Approved(rows) == {i \in DOMAIN rows : rows[i].status = "approved"}

\* compile_and_build takes the newest approved row for the revision it builds.
BuildOf(rows) ==
    [what  |-> spec.what,
     row   |-> IF Approved(rows) = {} THEN 0
               ELSE CHOOSE i \in Approved(rows) :
                        \A j \in Approved(rows) : j <= i,
     whole |-> ~hurt,
     strayed |-> strayed]

Approve ==
    /\ pc = "idle" /\ live
    /\ phase = "approve"
    /\ phase' = "approved"
    /\ specs' = IF spec_row = 0 THEN specs
                ELSE [specs EXCEPT ![spec_row] =
                          [spec |-> @.spec, status |-> "approved"]]
    /\ spec' = Stamped(spec)
    /\ built' = BuildOf(specs')
    /\ UNCHANGED <<said, traced, filed, live, spec_row, verdicts, answers, rounds,
                   logged, hurt, strayed, pc, known, asked, lost, shown>>

\* A failed or degraded build is built again from the spec in memory.
Rebuild ==
    /\ pc = "idle" /\ live
    /\ phase = "approved"
    /\ spec' = Stamped(spec)
    /\ built' = BuildOf(specs)
    /\ UNCHANGED <<storeVars, live, phase, spec_row, verdicts, answers, rounds, logged,
                   hurt, strayed, pc, known, asked, lost, shown>>

\* Refused: not valid against the model any more, outside the user's schemas, or
\* nothing to approve.  The stamp is put on first.
ApproveDenied ==
    /\ pc = "idle" /\ live
    /\ spec' = Stamped(spec)
    /\ UNCHANGED <<storeVars, live, phase, spec_row, verdicts, answers, rounds, logged,
                   hurt, strayed, pc, clientVars>>

\* set_spec_status raises in approve: the phase has changed already.
ApproveFails ==
    /\ pc = "idle" /\ live
    /\ phase = "approve" /\ spec_row # 0
    /\ phase' = "approved"
    /\ hurt' = TRUE
    /\ spec' = Stamped(spec)
    /\ UNCHANGED <<storeVars, live, spec_row, verdicts, answers, rounds, logged,
                   strayed, pc, clientVars>>

-----------------------------------------------------------------------------
(* The object is gone after an eviction between two turns, or a restart at *)
(* any point of one.  The next request hydrates it, if there is something  *)
(* to resume.                                                              *)
Lose ==
    /\ live
    /\ IF known
       THEN /\ Forgotten
            /\ pc' = "idle"
            /\ UNCHANGED <<storeVars, clientVars>>
       ELSE Abandoned

Newest == specs[Len(specs)]

\* Slip: the restored object does not know what it has filed.
Restore_Refiles ==
    /\ pc = "idle" /\ ~live /\ known
    /\ specs # <<>> \/ traced > 0
    /\ live' = TRUE
    /\ IF specs # <<>>
       THEN /\ phase' = IF Newest.status = "approved" THEN "approved"
                        ELSE "approve"
            /\ spec' = Newest.spec
            /\ spec_row' = Len(specs)
            /\ UNCHANGED <<answers, rounds>>
       ELSE /\ phase' = "clarify"
            /\ rounds' = traced
            /\ answers' = said - 1
            /\ UNCHANGED <<spec, spec_row>>
    /\ UNCHANGED <<storeVars, verdicts, logged, hurt, strayed, pc, clientVars>>

\* The newest row decides; without one the dialogue was still clarifying.
Restore ==
    /\ pc = "idle" /\ ~live /\ known
    /\ specs # <<>> \/ traced > 0
    /\ live' = TRUE
    /\ logged' = {k \in Keys : filed[k] > 0}
    /\ IF specs # <<>>
       THEN /\ phase' = IF Newest.status = "approved" THEN "approved"
                        ELSE "approve"
            /\ spec' = Newest.spec
            /\ spec_row' = Len(specs)
            /\ UNCHANGED <<answers, rounds>>
       ELSE /\ phase' = "clarify"
            /\ rounds' = traced
            /\ answers' = said - 1
            /\ UNCHANGED <<spec, spec_row>>
    /\ UNCHANGED <<storeVars, verdicts, hurt, strayed, pc, clientVars>>

Turn ==
    \/ \E unclear \in BOOLEAN : Ground(unclear)
    \/ Ask \/ AskTraced \/ AskUntraced
    \/ \E c \in Contents : Propose(c) \/ ProposeRaises(c)
    \/ \E c \in Contents, target \in {"kept", "reset"} :
            Patch(c, target) \/ PatchRaises(c, target)
    \/ Noop \/ Announce \/ SaveSpec
    \/ \E k \in Keys : LogRequest(k)
    \/ Proposed

Next ==
    \/ Start \/ (\E c \in Contents : Adopt(c)) \/ Reply \/ Turn
    \/ LlmFails \/ StoreFails \/ (\E k \in Keys : FilingFails(k))
    \/ Approve \/ Rebuild \/ ApproveDenied \/ ApproveFails
    \/ Lose \/ Restore

Spec == Init /\ [][Next]_vars

\* The user answers, and neither the LLM, the Store nor the process fails
\* every time.
Fairness ==
    /\ SF_vars(Reply) /\ SF_vars(Restore)
    /\ SF_vars(\E unclear \in BOOLEAN : Ground(unclear))
    /\ SF_vars(\E c \in Contents : Propose(c))
    /\ SF_vars(Ask) /\ SF_vars(AskTraced)
    /\ SF_vars(Announce) /\ SF_vars(SaveSpec)

FairSpec == Spec /\ Fairness

-----------------------------------------------------------------------------
(* Properties. *)

\* "rounds are capped": the user is questioned at most MAX_CLARIFY_ROUNDS
\* times in a session, also when the object was lost between the rounds,
\* and once more for each trace event that was not written.
QuestionsBounded == asked <= MAX_CLARIFY_ROUNDS + lost

\* Between turns a lost object comes back as it was: same phase, same row, the
\* same answers while they are still read, the same findings on file, unless a
\* Store call of its turns failed; and with the same spec, unless the last turn
\* that gave it one raised before it was stored.
ResumeLosesNothing ==
    (live /\ known /\ pc = "idle" /\ ~hurt) =>
        /\ logged = {k \in Keys : filed[k] > 0}
        /\ IF specs # <<>>
           THEN /\ phase = IF Newest.status = "approved" THEN "approved"
                           ELSE "approve"
                /\ spec_row = Len(specs)
                /\ spec.what = Newest.spec.what \/ strayed
           ELSE /\ phase = "clarify"
                /\ spec = NoSpec \/ strayed
                /\ rounds = traced /\ traced > 0
                /\ answers = said - 1

\* What a build is given is what its row, and so its token, stands for, and
\* nothing older: the approved row is the newest.  Unless a Store call failed,
\* or the spec is one whose turn raised.
BuiltIsStored ==
    built.whole /\ ~built.strayed =>
        /\ built.row \in DOMAIN specs
        /\ specs[built.row].spec.what = built.what

\* What reply promises of the edits of an approved spec: each leaves a row, so
\* while every Store call succeeds what is built is what its row says.
EditsAreRows ==
    built.whole =>
        /\ built.row \in DOMAIN specs
        /\ specs[built.row].spec.what = built.what

\* The data mart owner gets every change request the user was shown, once.
FiledOnce ==
    /\ \A k \in Keys : filed[k] <= 1
    /\ \A k \in shown : filed[k] = 1

\* However unclear the request and its answers, and whatever is lost between
\* them, a proposal is on record in the end.  (A session with no round on
\* record cannot be hydrated.  A Store call that fails once the proposal is
\* made leaves it in memory.)
ProposalComes == (known /\ traced > 0 /\ specs = <<>>) ~> (specs # <<>> \/ hurt)

-----------------------------------------------------------------------------
(* The inductive invariant. *)

Early == phase \in {"intake", "clarify"}

\* The object and the request: without an object there is no request, a
\* session without rows has not got past its questions, and the rounds in
\* memory are never behind those on record.
Shape ==
    /\ ~live => /\ pc = "idle" /\ phase = "intake" /\ rounds = 0
                /\ spec = NoSpec /\ verdicts = {} /\ logged = {}
                /\ answers = 0 /\ ~strayed
    /\ ~live /\ ~known => /\ specs = <<>> /\ traced = 0
                          /\ \A k \in Keys : filed[k] = 0
    /\ known => specs # <<>> \/ traced > 0 \/ lost > 0
    /\ ~known => asked = 0 /\ lost = 0 /\ shown = {} /\ ~built.whole
    /\ traced > 0 \/ (live /\ Early) => said > 0
    /\ live /\ pc = "idle" => known
    /\ live /\ known => phase # "intake"
    /\ live /\ Early => specs = <<>> /\ traced <= rounds
                       /\ (spec = NoSpec \/ strayed)
    /\ live /\ ~Early => spec # NoSpec
    /\ pc \in {"ground", "ask", "trace", "propose"} => Early
    /\ pc \in {"patch", "noop", "announce", "save", "log"} => ~Early
    /\ pc \in {"patch", "noop"} => known
    /\ pc = "log" => specs # <<>>
    /\ pc \in {"ask", "trace"} => phase = "clarify" /\ traced < rounds
    /\ asked <= traced + lost /\ traced <= MAX_CLARIFY_ROUNDS

\* What an object no Store call failed has of its rows, wherever it is.
Whole ==
    live /\ ~hurt =>
        /\ logged = {k \in Keys : filed[k] > 0}
        /\ pc \in {"idle", "patch", "noop"} => specs # <<>> \/ phase = "clarify"
        /\ pc \in {"idle", "patch", "noop"} /\ specs # <<>> =>
            /\ phase = IF Newest.status = "approved" THEN "approved"
                       ELSE "approve"
            /\ spec_row = Len(specs)
            /\ spec.what = Newest.spec.what \/ strayed
        /\ Early =>
            /\ answers = said - 1
            /\ rounds = IF pc \in {"ask", "trace"} THEN traced + 1 ELSE traced
        /\ phase = "intake" => traced = 0
        /\ known /\ specs = <<>> => traced > 0
        /\ pc = "log" =>
            /\ phase = "approve" /\ specs # <<>>
            /\ Newest.status = "proposed"
            /\ spec = Newest.spec /\ spec_row = Len(specs)
        /\ pc \in {"announce", "save"} => phase = "approve"

\* What is on file is remembered, and what was shown is on file.
Filing ==
    /\ FiledOnce
    /\ live => \A k \in Keys : filed[k] > 0 => k \in logged
    /\ live /\ ~hurt /\ pc \notin {"announce", "save", "log"} =>
        verdicts \subseteq logged

IInv == TypeOK /\ Shape /\ Whole /\ Filing /\ BuiltIsStored
=============================================================================
