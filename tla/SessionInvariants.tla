-------------------------- MODULE SessionInvariants --------------------------
(***************************************************************************)
(* What the service keeps true of its threads, objects and rows at every   *)
(* moment: the inductive invariants from which its properties follow.      *)
(***************************************************************************)
EXTENDS SessionService

NoObject == {"idle", "get", "specs"}

\* Where a thread handles an object no other thread can reach yet.
Private == {"start", "register", "builds", "insert"}

\* A thread refers to an object of the session it handles, from the moment it
\* has found or made one.
RefInv ==
    \A th \in Threads :
        /\ pc[th] = "idle" <=> sid[th] = Null
        /\ pc[th] \in NoObject => ref[th] = Null
        /\ pc[th] \notin NoObject =>
              ref[th] \in Objects /\ heap[ref[th]].sid = sid[th]

\* The registry holds one object per session.
RegInv ==
    /\ \A o \in reg : heap[o].sid \in Sessions
    /\ \A o, p \in reg : heap[o].sid = heap[p].sid => o = p

PrivateInv ==
    \A th \in Threads : pc[th] \in Private =>
        /\ ref[th] \notin reg
        /\ \A x \in Threads : x # th => ref[x] # ref[th]

\* A session without a row is nobody's.
RowlessInv ==
    \A s \in Sessions : row[s] = "none" =>
        /\ spec[s] = "none" /\ last[s] = "none" /\ s \notin open
        /\ \A th \in Threads : sid[th] # s
        /\ \A o \in Objects : heap[o].sid # s

\* A session is started by one thread, on its first object, before anybody
\* else knows its id.
StartInv ==
    \A th \in Threads :
        /\ op[th] = "start" <=> pc[th] \in {"start", "register"}
        /\ op[th] = "start" =>
              /\ \A x \in Threads : x # th => sid[x] # sid[th]
              /\ \A o \in Objects : heap[o].sid = sid[th] => o = ref[th]
              /\ last[sid[th]] = "none"

MemInv == StateOK /\ RefInv /\ RegInv /\ PrivateInv /\ RowlessInv /\ StartInv

-----------------------------------------------------------------------------
(* Locks and builds. *)

\* A lock is held by the thread at work on its object.
LockInv ==
    /\ \A th \in Threads :
          pc[th] \in {"locked", "begin"} => heap[ref[th]].lock = th
    /\ \A o \in Objects : heap[o].lock # Null =>
          /\ pc[heap[o].lock] \in {"locked", "begin"}
          /\ ref[heap[o].lock] = o

\* An object is building exactly while one build thread is on it.
BuildInv ==
    /\ \A th \in Threads :
          /\ pc[th] \in BuildPc => heap[ref[th]].status = "building"
          /\ pc[th] = "begin" => heap[ref[th]].status # "building"
          /\ pc[th] = "settle" => out[th] \in Outcomes
    /\ \A th, x \in Threads :
          pc[th] \in BuildPc /\ pc[x] \in BuildPc /\ ref[th] = ref[x] => th = x
    /\ \A o \in Objects : heap[o].status = "building" =>
          \E th \in Threads : pc[th] \in BuildPc /\ ref[th] = o

-----------------------------------------------------------------------------
(* Streams. *)

\* An object past its build has its terminal event.
ClosedInv ==
    \A o \in Objects :
        heap[o].status \notin {"idle", "building"} => heap[o].closed

\* An approved object without a build yet is about to be built, or is still
\* being hydrated.
ApprovedInv ==
    \A o \in Objects : heap[o].phase = "approved" /\ heap[o].status = "idle" =>
        \E x \in Threads : ref[x] = o /\ pc[x] \in {"begin", "builds"}

\* The event list of o has its terminal event, or a build will write it to
\* this list or to the one that replaces it.
Written(o) ==
    \/ heap[o].closed
    \/ heap[o].status = "building"
    \/ \E x \in Threads : ref[x] = o /\ pc[x] = "begin"

\* A stream that joined when a build had begun is on its object's list.
FollowInv ==
    \A th \in Threads :
        pc[th] # "orphan" /\ (pc[th] = "follow" => BuildBegun(ref[th]))

StreamInv ==
    /\ ClosedInv /\ ApprovedInv /\ FollowInv
    /\ \A th \in Threads :
          pc[th] \in {"pin", "early", "follow"} => Written(ref[th])

-----------------------------------------------------------------------------
(* Without deletes, and with room for every session in the registry. *)

NoEviction == "delete" \notin Requests /\ Cardinality(Sessions) <= MaxSessions

\* What the object of a session shows is what its rows say.
ShowsRows(o, s) ==
    /\ heap[o].phase = ResumedPhase(s)
    /\ heap[o].newest
    /\ heap[o].status # "building" =>
          IF last[s] = "none" THEN heap[o].status \in {"idle", "failed"}
          ELSE heap[o].status = last[s]

\* What a thread knows of the registry and the rows at each of its positions.
QuietThread(th) ==
    /\ pc[th] \notin {"pop", "tombstone"} /\ op[th] # "delete"
    /\ pc[th] \notin NoObject \cup Private => ref[th] \in reg
    /\ pc[th] = "start" =>
          heap[ref[th]].status = "idle" /\ heap[ref[th]].newest
    /\ pc[th] = "register" => ShowsRows(ref[th], sid[th])
    /\ pc[th] = "builds" /\ Lookup(sid[th]) = {} =>
          /\ heap[ref[th]].phase = ResumedPhase(sid[th])
          /\ heap[ref[th]].newest
    /\ pc[th] = "insert" /\ Lookup(sid[th]) = {} =>
          ShowsRows(ref[th], sid[th])
    /\ pc[th] = "settle" => out[th] = last[sid[th]]

\* A session that owes a cleanup was last built with a failure.
OpenInv == \A s \in open : last[s] = "failed"

QuietInv ==
    /\ \A th \in Threads : QuietThread(th)
    /\ \A o \in reg : ShowsRows(o, heap[o].sid)
=============================================================================
