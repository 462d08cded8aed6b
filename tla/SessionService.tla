---------------------------- MODULE SessionService ----------------------------
(***************************************************************************)
(* The HTTP service of Auto_BI as concurrent request threads: the registry *)
(* of ManagedSession objects with its eviction and lazy hydration          *)
(* (api/sessions.py), and the handlers of api/app.py that start, edit,     *)
(* approve, delete and watch a session.  A thread is a worker of the       *)
(* server; the one that approves goes on as the build thread.              *)
(*                                                                         *)
(* Objects matter: a handler keeps the object it looked up, whatever the   *)
(* registry holds by the time it locks it.  What a build does to the BI    *)
(* system and the rows is BuildPipeline; here it ends with an outcome.     *)
(***************************************************************************)
EXTENDS Naturals, FiniteSets

CONSTANTS
    Sessions,     \* session ids
    Threads,      \* request and build threads
    Objects,      \* ManagedSession objects in memory
    Null,         \* no session, no object, no thread
    BuildSlots,   \* max_concurrent_builds
    MaxSessions,  \* MAX_SESSIONS, the cap of the registry
    Requests,     \* the requests clients make, a subset of RequestKinds
    Results       \* how builds end, a subset of Outcomes

RequestKinds == {"approve", "reply", "delete", "events"}
Outcomes == {"built", "built_with_cleanup_degraded", "failed"}

ASSUME NullAssumption ==
    Null \notin Sessions \cup Threads \cup Objects
ASSUME SlotsAssumption == BuildSlots \in Nat \ {0}
ASSUME CapAssumption == MaxSessions \in Nat \ {0}
ASSUME RequestsAssumption ==
    Requests \subseteq RequestKinds /\ Results \subseteq Outcomes
\* A registered object per session and one per thread: one is always free.
ASSUME ObjectsAssumption ==
    /\ IsFiniteSet(Sessions) /\ IsFiniteSet(Threads) /\ IsFiniteSet(Objects)
    /\ Cardinality(Objects) >= Cardinality(Sessions) + Cardinality(Threads)

VARIABLES
    row,    \* Store: a session has no row, a live one, a tombstone
    spec,   \* Store: the status of its newest specs row, "asked" before one
    last,   \* Store: the outcome of its newest builds row
    open,   \* Store: the sessions whose failed build left an attempt that
            \* only a startup reconciles
    heap,   \* the objects
    reg,    \* _sessions: the registered objects
    older,  \* their insertion order: <<o, p>> when o went in before p
    slots,  \* _build_slots: free slots
    pc, op, sid, ref, out   \* a thread: position, request, session, object,
                            \* outcome of its build

storeVars  == <<row, spec, last, open>>
threadVars == <<pc, op, sid, out>>
vars == <<storeVars, heap, reg, older, ref, slots, threadVars>>

BuildState == Outcomes \cup {"idle", "building"}
Phases == {"intake", "clarify", "approve", "approved"}

\* closed: the object's event list holds a terminal event.  newest: its spec
\* is the newest row of the session.
Object == [sid : Sessions \cup {Null}, phase : Phases, status : BuildState,
           closed : BOOLEAN, newest : BOOLEAN, lock : Threads \cup {Null}]

Blank == [sid |-> Null, phase |-> "intake", status |-> "idle",
          closed |-> FALSE, newest |-> TRUE, lock |-> Null]

BuildPc   == {"build", "marked", "settle"}
StreamPc  == {"early", "follow", "replay", "orphan"}
HandlerPc == {"start", "register", "get", "specs", "builds", "insert",
              "check", "locked", "begin", "pop", "tombstone", "pin"}
ThreadPc  == {"idle"} \cup HandlerPc \cup BuildPc \cup StreamPc

StateOK ==
    /\ row \in [Sessions -> {"none", "live", "deleted"}]
    /\ spec \in [Sessions -> {"none", "asked", "proposed", "approved"}]
    /\ last \in [Sessions -> Outcomes \cup {"none"}]
    /\ open \in SUBSET Sessions
    /\ heap \in [Objects -> Object]
    /\ reg \in SUBSET Objects
    /\ older \in SUBSET (reg \X reg)
    /\ pc \in [Threads -> ThreadPc]
    /\ op \in [Threads -> RequestKinds \cup {"start", "none"}]
    /\ sid \in [Threads -> Sessions \cup {Null}]
    /\ ref \in [Threads -> Objects \cup {Null}]
    /\ out \in [Threads -> Outcomes \cup {"none"}]

TypeOK == StateOK /\ slots \in 0..BuildSlots

Init ==
    /\ row = [s \in Sessions |-> "none"]
    /\ spec = [s \in Sessions |-> "none"]
    /\ last = [s \in Sessions |-> "none"]
    /\ open = {}
    /\ heap = [o \in Objects |-> Blank]
    /\ reg = {}
    /\ older = {}
    /\ slots = BuildSlots
    /\ pc = [th \in Threads |-> "idle"]
    /\ op = [th \in Threads |-> "none"]
    /\ sid = [th \in Threads |-> Null]
    /\ ref = [th \in Threads |-> Null]
    /\ out = [th \in Threads |-> "none"]

-----------------------------------------------------------------------------
(* Memory.  An object lives while the registry or a thread refers to it. *)

Live(rg, rf) == rg \cup ({rf[th] : th \in Threads} \ {Null})

\* The objects become h, the registry rg, the references rf; what is new in
\* the registry went in last.
Memory(h, rg, rf) ==
    /\ heap' = [o \in Objects |-> IF o \in Live(rg, rf) THEN h[o] ELSE Blank]
    /\ reg' = rg
    /\ older' = (older \cap (rg \X rg)) \cup ((rg \cap reg) \X (rg \ reg))
    /\ ref' = rf

Allocate == CHOOSE o \in Objects : o \notin Live(reg, ref)

Go(th, label) ==
    /\ pc' = [pc EXCEPT ![th] = label]
    /\ UNCHANGED <<op, sid, out>>

\* The request is answered: the thread forgets its session and its object.
EndThread(th) ==
    /\ pc' = [pc EXCEPT ![th] = "idle"]
    /\ op' = [op EXCEPT ![th] = "none"]
    /\ sid' = [sid EXCEPT ![th] = Null]
    /\ out' = [out EXCEPT ![th] = "none"]

Drop(th) == [ref EXCEPT ![th] = Null]

End(th) == EndThread(th) /\ Memory(heap, reg, Drop(th))

Mine(th) == heap[ref[th]]

\* The thread's object becomes m; m, unlocked.
With(th, m) == [heap EXCEPT ![ref[th]] = m]
Unlocked(th, m) == With(th, [m EXCEPT !.lock = Null])

-----------------------------------------------------------------------------
(* The registry. *)

Lookup(s) == {o \in reg : heap[o].sid = s}

Evictable(o) == heap[o].status # "building" /\ heap[o].lock = Null

\* _evict_idle_locked: the oldest idle objects go until there is room.
Evicted ==
    {o \in reg :
        /\ Evictable(o)
        /\ Cardinality({p \in reg : Evictable(p) /\ <<p, o>> \in older})
               + MaxSessions <= Cardinality(reg)}

RoomFor(o) == (reg \ Evicted) \cup {o}

\* SessionManager.start: the row first, then the first turn on an object
\* nobody else can reach.
Create(th, s) ==
    /\ pc[th] = "idle"
    /\ row[s] = "none"
    /\ row' = [row EXCEPT ![s] = "live"]
    /\ pc' = [pc EXCEPT ![th] = "start"]
    /\ op' = [op EXCEPT ![th] = "start"]
    /\ sid' = [sid EXCEPT ![th] = s]
    /\ LET o == Allocate IN
       Memory([heap EXCEPT ![o] = [Blank EXCEPT !.sid = s]], reg,
              [ref EXCEPT ![th] = o])
    /\ UNCHANGED <<spec, last, open, slots, out>>

\* AgentSession.start or adopt_spec: questions, or a proposal.
FirstTurn(th, phase) ==
    /\ pc[th] = "start"
    /\ spec' = [spec EXCEPT ![sid[th]] =
                    IF phase = "clarify" THEN "asked" ELSE "proposed"]
    /\ heap' = With(th, [Mine(th) EXCEPT !.phase = phase])
    /\ Go(th, "register")
    /\ UNCHANGED <<row, last, open, reg, older, ref, slots>>

\* An LLM error: nothing is registered.
FirstTurnFails(th) ==
    /\ pc[th] = "start"
    /\ End(th)
    /\ UNCHANGED <<storeVars, slots>>

Register(th) ==
    /\ pc[th] = "register"
    /\ EndThread(th)
    /\ Memory(heap, RoomFor(ref[th]), Drop(th))
    /\ UNCHANGED <<storeVars, slots>>

-----------------------------------------------------------------------------
(* A request for a session: _owned, and SessionManager.get under it. *)

\* A client learns the id of a session from the answer to its start.
Answered(s) ==
    /\ row[s] # "none"
    /\ \A x \in Threads : sid[x] = s => op[x] # "start"

\* approve takes a build slot first; without one it answers 503.
Arrive(th, kind, s) ==
    /\ pc[th] = "idle"
    /\ kind \in Requests
    /\ Answered(s)
    /\ kind = "approve" => slots > 0
    /\ slots' = IF kind = "approve" THEN slots - 1 ELSE slots
    /\ pc' = [pc EXCEPT ![th] = "get"]
    /\ op' = [op EXCEPT ![th] = kind]
    /\ sid' = [sid EXCEPT ![th] = s]
    /\ UNCHANGED <<storeVars, heap, reg, older, ref, out>>

Hit(th) ==
    /\ pc[th] = "get"
    /\ \E o \in Lookup(sid[th]) : ref' = [ref EXCEPT ![th] = o]
    /\ Go(th, "check")
    /\ UNCHANGED <<storeVars, heap, reg, older, slots>>

Miss(th) ==
    /\ pc[th] = "get"
    /\ Lookup(sid[th]) = {}
    /\ Go(th, "specs")
    /\ UNCHANGED <<storeVars, heap, reg, older, ref, slots>>

\* The 404 leaves approve before its try: the slot is not given back.
NotFound(th) ==
    /\ End(th)
    /\ UNCHANGED <<storeVars, slots>>

\* Slip: the tombstone is not looked at.
Resumable_Deleted(s) == row[s] # "none" /\ spec[s] # "none"

\* Only a session that got past its first answer can be resumed.
Resumable(s) == row[s] = "live" /\ spec[s] # "none"

Unknown(th) ==
    /\ pc[th] = "specs"
    /\ ~Resumable(sid[th])
    /\ NotFound(th)

ResumedPhase(s) == CASE spec[s] = "approved" -> "approved"
                     [] spec[s] = "proposed" -> "approve"
                     [] OTHER -> "clarify"

\* _hydrate reads the session and its specs, and later its builds.
ReadSpecs(th) ==
    /\ pc[th] = "specs"
    /\ Resumable(sid[th])
    /\ Go(th, "builds")
    /\ LET o == Allocate IN
       Memory([heap EXCEPT ![o] = [Blank EXCEPT
                   !.sid = sid[th], !.phase = ResumedPhase(sid[th])]],
              reg, [ref EXCEPT ![th] = o])
    /\ UNCHANGED <<storeVars, slots>>

\* The status of a session built last with `outcome`, in `phase` now.
ResumedStatus(outcome, phase) ==
    IF outcome # "none" THEN outcome
    ELSE IF phase = "approved" THEN "failed" ELSE "idle"

\* Slip: no synthetic terminal event for a late reader.
ReadBuilds_Open(th) ==
    /\ pc[th] = "builds"
    /\ heap' = With(th, [Mine(th) EXCEPT !.status =
                    ResumedStatus(last[sid[th]], Mine(th).phase)])
    /\ Go(th, "insert")
    /\ UNCHANGED <<storeVars, reg, older, ref, slots>>

ReadBuilds(th) ==
    /\ pc[th] = "builds"
    /\ LET status == ResumedStatus(last[sid[th]], Mine(th).phase) IN
       heap' = With(th, [Mine(th) EXCEPT !.status = status,
                                         !.closed = (status # "idle")])
    /\ Go(th, "insert")
    /\ UNCHANGED <<storeVars, reg, older, ref, slots>>

\* Slip: the second look at the registry is forgotten: the entry is replaced.
Insert_Blind(th) ==
    /\ pc[th] = "insert"
    /\ Memory(heap, (reg \ (Evicted \cup Lookup(sid[th]))) \cup {ref[th]}, ref)
    /\ Go(th, "check")
    /\ UNCHANGED <<storeVars, slots>>

\* The winner of two concurrent hydrations stays.
Insert(th) ==
    /\ pc[th] = "insert"
    /\ IF Lookup(sid[th]) = {}
       THEN Memory(heap, RoomFor(ref[th]), ref)
       ELSE \E o \in Lookup(sid[th]) :
                Memory(heap, reg, [ref EXCEPT ![th] = o])
    /\ Go(th, "check")
    /\ UNCHANGED <<storeVars, slots>>

\* With authentication on, somebody else's session is a 404 too; a stream
\* may be refused for lack of a build or of room.
Foreign(th) ==
    /\ pc[th] = "check"
    /\ NotFound(th)

Lock(th) ==
    /\ pc[th] = "check"
    /\ op[th] \in {"approve", "reply"}
    /\ Mine(th).lock = Null
    /\ heap' = With(th, [Mine(th) EXCEPT !.lock = th])
    /\ Go(th, "locked")
    /\ UNCHANGED <<storeVars, reg, older, ref, slots>>

-----------------------------------------------------------------------------
(* approve, and the build thread. *)

MayRetry(m) ==
    m.status \in {"failed", "built_with_cleanup_degraded"}
    /\ m.phase = "approved"

\* 409 while building or with nothing to approve; 409 and 403 when the spec
\* no longer fits the model or the caller's schemas.
ApproveDenied(th) ==
    /\ pc[th] = "locked" /\ op[th] = "approve"
    /\ \/ Mine(th).status = "building"
       \/ ~MayRetry(Mine(th)) /\ Mine(th).phase # "approve"
       \/ Mine(th).phase \in {"approve", "approved"}
    /\ EndThread(th)
    /\ Memory(Unlocked(th, Mine(th)), reg, Drop(th))
    /\ slots' = slots + 1
    /\ UNCHANGED storeVars

\* Slip: the agent approves but the specs row is not updated.
Approve_Forgets(th) ==
    /\ pc[th] = "locked" /\ op[th] = "approve"
    /\ Mine(th).status # "building"
    /\ \/ MayRetry(Mine(th)) /\ UNCHANGED heap
       \/ /\ ~MayRetry(Mine(th)) /\ Mine(th).phase = "approve"
          /\ heap' = With(th, [Mine(th) EXCEPT !.phase = "approved"])
    /\ Go(th, "begin")
    /\ UNCHANGED <<storeVars, reg, older, ref, slots>>

\* A failed or degraded build is retried, a proposal approved: its row is
\* the session's newest unless another object has written one since.
Approve(th) ==
    /\ pc[th] = "locked" /\ op[th] = "approve"
    /\ Mine(th).status # "building"
    /\ \/ MayRetry(Mine(th)) /\ UNCHANGED <<heap, spec>>
       \/ /\ ~MayRetry(Mine(th)) /\ Mine(th).phase = "approve"
          /\ heap' = With(th, [Mine(th) EXCEPT !.phase = "approved"])
          /\ spec' = IF Mine(th).newest
                     THEN [spec EXCEPT ![sid[th]] = "approved"] ELSE spec
    /\ Go(th, "begin")
    /\ UNCHANGED <<row, last, open, reg, older, ref, slots>>

\* Streams of object o keep the list they pinned: the current one no longer.
KeepPinned(o) ==
    [x \in Threads |->
        IF ref[x] = o /\ pc[x] = "follow"
        THEN IF heap[o].closed THEN "replay" ELSE "orphan"
        ELSE pc[x]]

\* reset_events, status building, unlock, and the build thread starts.
BeginBuild(th) ==
    /\ pc[th] = "begin"
    /\ heap' = Unlocked(th, [Mine(th) EXCEPT !.status = "building",
                                             !.closed = FALSE])
    /\ pc' = [KeepPinned(ref[th]) EXCEPT ![th] = "build"]
    /\ UNCHANGED <<storeVars, reg, older, ref, slots, op, sid, out>>

\* compile_and_build marks the session building, also over a tombstone.
MarkBuilding(th) ==
    /\ pc[th] = "build"
    /\ sid[th] \notin open
    /\ row' = [row EXCEPT ![sid[th]] = "live"]
    /\ Go(th, "marked")
    /\ UNCHANGED <<spec, last, open, heap, reg, older, ref, slots>>

\* The session has a nonterminal attempt, of an earlier build or of another
\* that runs: refused without a row.
Blocked(th) ==
    /\ pc[th] = "build"
    /\ \/ sid[th] \in open
       \/ \E x \in Threads \ {th} : pc[x] = "marked" /\ sid[x] = sid[th]
    /\ pc' = [pc EXCEPT ![th] = "settle"]
    /\ out' = [out EXCEPT ![th] = "failed"]
    /\ UNCHANGED <<storeVars, heap, reg, older, ref, slots, op, sid>>

\* The rows of a build that ends.  One that failed after it prepared its
\* attempt leaves that in need of cleanup; one that finds another's attempt
\* when it prepares its own fails.
Recorded(s, outcome) ==
    /\ s \in open => outcome = "failed"
    /\ last' = [last EXCEPT ![s] = outcome]
    /\ row' = [row EXCEPT ![s] = "live"]
    /\ \/ UNCHANGED open
       \/ outcome = "failed" /\ open' = open \cup {s}

\* Slip: a failed build gives its slot back here and when it has settled.
Built_Releases(th, outcome) ==
    /\ pc[th] = "marked"
    /\ Recorded(sid[th], outcome)
    /\ slots' = slots + 1
    /\ pc' = [pc EXCEPT ![th] = "settle"]
    /\ out' = [out EXCEPT ![th] = outcome]
    /\ UNCHANGED <<spec, heap, reg, older, ref, op, sid>>

\* The builder has returned or raised, and its rows say how.  The finally
\* clause gives the slot back before a success is applied to the object, and
\* after a failure is.
Built(th, outcome) ==
    /\ pc[th] = "marked"
    /\ Recorded(sid[th], outcome)
    /\ slots' = IF outcome = "failed" THEN slots ELSE slots + 1
    /\ pc' = [pc EXCEPT ![th] = "settle"]
    /\ out' = [out EXCEPT ![th] = outcome]
    /\ UNCHANGED <<spec, heap, reg, older, ref, op, sid>>

\* apply_build_success, apply_build_failure: status and terminal event.
Settle(th) ==
    /\ pc[th] = "settle"
    /\ Mine(th).lock = Null
    /\ EndThread(th)
    /\ Memory(With(th, [Mine(th) EXCEPT !.status = out[th],
                                        !.closed = TRUE]), reg, Drop(th))
    /\ slots' = IF out[th] = "failed" THEN slots + 1 ELSE slots
    /\ UNCHANGED storeVars

-----------------------------------------------------------------------------
(* reply, delete, events. *)

\* A turn that leaves phase and spec alone: an LLM or validation error, an
\* edit without effect, another round of questions.
ReplyIdle(th) ==
    /\ pc[th] = "locked" /\ op[th] = "reply"
    /\ EndThread(th)
    /\ Memory(Unlocked(th, Mine(th)), reg, Drop(th))
    /\ UNCHANGED <<storeVars, slots>>

\* A new spec row: every other object of the session is now behind.
ReplyProposes(th) ==
    /\ pc[th] = "locked" /\ op[th] = "reply"
    /\ spec' = [spec EXCEPT ![sid[th]] = "proposed"]
    /\ EndThread(th)
    /\ LET m == [Mine(th) EXCEPT !.phase = "approve", !.newest = TRUE,
                                 !.lock = Null] IN
       Memory([o \in Objects |->
                  IF o = ref[th] THEN m
                  ELSE IF heap[o].sid = sid[th]
                       THEN [heap[o] EXCEPT !.newest = FALSE] ELSE heap[o]],
              reg, Drop(th))
    /\ UNCHANGED <<row, last, open, slots>>

\* delete_session looks at the status without the session's lock.
DeleteRefused(th) ==
    /\ pc[th] = "check" /\ op[th] = "delete"
    /\ Mine(th).status = "building"
    /\ End(th)
    /\ UNCHANGED <<storeVars, slots>>

DeleteAllowed(th) ==
    /\ pc[th] = "check" /\ op[th] = "delete"
    /\ Mine(th).status # "building"
    /\ Go(th, "pop")
    /\ UNCHANGED <<storeVars, heap, reg, older, ref, slots>>

\* SessionManager.remove: out of the registry, then the tombstone.
Pop(th) ==
    /\ pc[th] = "pop"
    /\ Memory(heap, reg \ Lookup(sid[th]), ref)
    /\ Go(th, "tombstone")
    /\ UNCHANGED <<storeVars, slots>>

Tombstone(th) ==
    /\ pc[th] = "tombstone"
    /\ row' = [row EXCEPT ![sid[th]] = "deleted"]
    /\ End(th)
    /\ UNCHANGED <<spec, last, open, slots>>

\* build_events looks at phase and status without the lock.
StreamOpens(th) ==
    /\ pc[th] = "check" /\ op[th] = "events"
    /\ Mine(th).phase = "approved" \/ Mine(th).status # "idle"
    /\ Go(th, "pin")
    /\ UNCHANGED <<storeVars, heap, reg, older, ref, slots>>

\* A build of object o has written its terminal event or is running.
BuildBegun(o) == heap[o].closed \/ heap[o].status = "building"

\* The first step of the iterator pins the event list of the moment: early,
\* when an approve has yet to reset the events and begin its build.
Pin(th) ==
    /\ pc[th] = "pin"
    /\ Go(th, IF BuildBegun(ref[th]) THEN "follow" ELSE "early")
    /\ UNCHANGED <<storeVars, heap, reg, older, ref, slots>>

\* The terminal event of the pinned list, or the client went away.
StreamEnds(th) ==
    /\ pc[th] \in StreamPc
    /\ End(th)
    /\ UNCHANGED <<storeVars, slots>>

-----------------------------------------------------------------------------
(* The process dies and starts again.  The startup reconciles every        *)
(* nonterminal attempt and reaps the sessions left building: their builds  *)
(* have failed.  Whatever became of the attempt, its session's status is   *)
(* written over, a tombstone too.  A session marked before its attempt was *)
(* prepared and deleted since is left alone.                               *)

\* The sessions of the builds the crash interrupts.
Interrupted == {sid[th] : th \in {x \in Threads : pc[x] = "marked"}}

\* The sessions in failed had a build interrupted, and those in kept still
\* have an attempt that could not be cleaned up.
Reconciled(failed, kept) ==
    /\ last' = [s \in Sessions |-> IF s \in failed THEN "failed" ELSE last[s]]
    /\ row' = [s \in Sessions |->
                   IF s \in failed \cup open THEN "live" ELSE row[s]]
    /\ open' = kept

Restart ==
    /\ \E failed \in SUBSET Interrupted :
           \E kept \in SUBSET (failed \cup open) : Reconciled(failed, kept)
    /\ pc' = [th \in Threads |-> "idle"]
    /\ op' = [th \in Threads |-> "none"]
    /\ sid' = [th \in Threads |-> Null]
    /\ out' = [th \in Threads |-> "none"]
    /\ Memory(heap, {}, [th \in Threads |-> Null])
    /\ slots' = BuildSlots
    /\ UNCHANGED spec

Get(th) ==
    \/ Hit(th) \/ Miss(th) \/ Unknown(th) \/ ReadSpecs(th) \/ ReadBuilds(th)
    \/ Insert(th) \/ Foreign(th)

BuildSteps(th) ==
    \/ ApproveDenied(th) \/ Approve(th) \/ BeginBuild(th)
    \/ MarkBuilding(th) \/ Blocked(th)
    \/ (\E outcome \in Results : Built(th, outcome)) \/ Settle(th)

Handler(th) ==
    \/ \E phase \in {"clarify", "approve"} : FirstTurn(th, phase)
    \/ FirstTurnFails(th) \/ Register(th)
    \/ Get(th) \/ Lock(th) \/ BuildSteps(th)
    \/ ReplyIdle(th) \/ ReplyProposes(th)
    \/ DeleteRefused(th) \/ DeleteAllowed(th) \/ Pop(th) \/ Tombstone(th)
    \/ StreamOpens(th) \/ Pin(th) \/ StreamEnds(th)

Client(th) ==
    \E s \in Sessions :
        Create(th, s) \/ \E kind \in Requests : Arrive(th, kind, s)

Next == (\E th \in Threads : Client(th) \/ Handler(th)) \/ Restart

Spec == Init /\ [][Next]_vars

-----------------------------------------------------------------------------
(* Safety. *)

\* An approve holds its slot from its arrival until its build has succeeded
\* or its failure has settled.
HoldsSlot(th) ==
    /\ op[th] = "approve"
    /\ \/ pc[th] \in HandlerPc \cup {"build", "marked"}
       \/ pc[th] = "settle" /\ out[th] = "failed"
SlotHolders == {th \in Threads : HoldsSlot(th)}

\* At most max_concurrent_builds builds run, and no path of approve gives a
\* slot back twice: free slots and holders never exceed the pool.
CapacityBounded == slots + Cardinality(SlotHolders) <= BuildSlots

\* "build capacity full" is only said at build capacity: every slot is free
\* or held by an approve under way or a build.
CapacityNeverLost == slots + Cardinality(SlotHolders) >= BuildSlots

\* An approve of object o is about to reset its events and begin a build.
ApproveUnderWay(o) == \E x \in Threads : ref[x] = o /\ pc[x] = "begin"

\* A stream that joined when a build had begun gets its terminal event: its
\* list has one, or the build that writes it runs; no approve takes the list
\* away before.  One that joined early came for an approve under way: it never
\* waits for a build nobody is going to run.
StreamHasWriter ==
    \A th \in Threads :
        /\ pc[th] # "orphan"
        /\ pc[th] = "follow" => BuildBegun(ref[th])
        /\ pc[th] = "early" => BuildBegun(ref[th]) \/ ApproveUnderWay(ref[th])

\* "a late stream reader must get closure, not heartbeats forever": the list a
\* stream waits on gets its terminal event, also that of an early one, which
\* the approve it came for has not replaced.
EveryStreamCloses ==
    \A th \in Threads :
        /\ pc[th] # "orphan"
        /\ pc[th] = "follow" => BuildBegun(ref[th])
        /\ pc[th] = "early" => ApproveUnderWay(ref[th])

\* An object at work: somebody holds its lock, or it is being built.
AtWork(o) == heap[o].lock # Null \/ heap[o].status = "building"

\* The lock of a session serialises its turns: one session is never worked
\* on through two objects.
OneTurnPerSession ==
    \A o, p \in Objects :
        /\ heap[o].sid = heap[p].sid /\ heap[o].sid # Null
        /\ AtWork(o) /\ AtWork(p)
        => o = p

\* The registered object of an idle session and the one its rows would be
\* hydrated to offer the user the same turns, retries and dashboard, so an
\* eviction or a restart takes nothing away.
Shown == {"built", "built_with_cleanup_degraded"}
MemoryAgreesWithStore ==
    \A o \in reg :
        LET m == heap[o]
            status == ResumedStatus(last[m.sid], m.phase) IN
        ~AtWork(o) =>
            /\ m.phase = ResumedPhase(m.sid)
            /\ MayRetry(m) = MayRetry([m EXCEPT !.status = status])
            /\ {m.status, status} \cap Shown # {} => m.status = status

NoObjectOf(s) == \A o \in Objects : heap[o].sid # s

\* A deleted session that nobody was still handling and that owes no cleanup
\* stays gone: no later request and no startup brings it back from the rows.
Gone(s) == row[s] = "deleted" /\ NoObjectOf(s) /\ s \notin open
DeletedStaysGone == [][\A s \in Sessions : Gone(s) => Gone(s)']_vars

\* "the session is tombstoned so lazy hydration never resurrects it": once
\* nobody handles a deleted session any more its tombstone stays.
TombstoneHolds ==
    [][\A s \in Sessions :
          row[s] = "deleted" /\ NoObjectOf(s) => row'[s] = "deleted"]_vars
=============================================================================
