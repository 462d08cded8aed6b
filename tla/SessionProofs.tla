---------------------------- MODULE SessionProofs ----------------------------
(***************************************************************************)
(* However requests interleave: the builds and approves under way never    *)
(* exceed max_concurrent_builds, and the objects, the locks and the rows   *)
(* of the service agree, for every number of sessions, threads and slots.  *)
(***************************************************************************)
EXTENDS SessionInvariants, FiniteSetTheorems, TLAPS

-----------------------------------------------------------------------------
(* The slots of the process. *)

\* Where a thread holds its slot whatever came of its build, and where only
\* an approve can be.
Keeping  == HandlerPc \cup {"build", "marked"}
Approved == {"begin", "build", "marked", "settle"}

\* What the counting needs: positions, requests and outcomes are functions of
\* threads, and a build thread came from an approve.
SlotInv ==
    /\ slots \in Nat
    /\ pc \in [Threads -> ThreadPc]
    /\ op \in [Threads -> RequestKinds \cup {"start", "none"}]
    /\ out \in [Threads -> Outcomes \cup {"none"}]
    /\ \A th \in Threads : pc[th] \in Approved => op[th] = "approve"
    /\ CapacityBounded

\* The slots of a set of holders that lost or kept its members.
LEMMA HoldersShrink ==
    ASSUME NEW A, NEW B, B \subseteq A, IsFiniteSet(A),
           NEW n \in Nat, n + Cardinality(A) <= BuildSlots
    PROVE  n + Cardinality(B) <= BuildSlots
<1>1. /\ Cardinality(B) <= Cardinality(A)
      /\ Cardinality(A) \in Nat /\ Cardinality(B) \in Nat
  BY FS_Subset, FS_CardinalityType
<1>. QED  BY <1>1, SlotsAssumption

\* A holder that gives its slot back.
LEMMA HolderReturns ==
    ASSUME NEW A, NEW th \in A, NEW B, B \subseteq A \ {th}, IsFiniteSet(A),
           NEW n \in Nat, n + Cardinality(A) <= BuildSlots
    PROVE  n + 1 + Cardinality(B) <= BuildSlots
<1>1. /\ IsFiniteSet(A \ {th}) /\ Cardinality(A) \in Nat
      /\ Cardinality(A \ {th}) = Cardinality(A) - 1
  BY FS_RemoveElement, FS_CardinalityType
<1>2. /\ Cardinality(B) <= Cardinality(A \ {th})
      /\ Cardinality(A \ {th}) \in Nat /\ Cardinality(B) \in Nat
  BY <1>1, FS_Subset, FS_CardinalityType
<1>. QED  BY <1>1, <1>2, SlotsAssumption

\* A new holder that took a free slot.
LEMMA HolderArrives ==
    ASSUME NEW A, NEW th, NEW B, B \subseteq A \cup {th}, IsFiniteSet(A),
           NEW n \in Nat, n > 0, n + Cardinality(A) <= BuildSlots
    PROVE  n - 1 + Cardinality(B) <= BuildSlots
<1>1. /\ IsFiniteSet(A \cup {th}) /\ Cardinality(A) \in Nat
      /\ Cardinality(A \cup {th}) <= Cardinality(A) + 1
  BY FS_AddElement, FS_CardinalityType
<1>2. /\ Cardinality(B) <= Cardinality(A \cup {th})
      /\ Cardinality(A \cup {th}) \in Nat /\ Cardinality(B) \in Nat
  BY <1>1, FS_Subset, FS_CardinalityType
<1>. QED  BY <1>1, <1>2, SlotsAssumption

LEMMA HoldersFinite == IsFiniteSet(SlotHolders) /\ IsFiniteSet(SlotHolders')
BY ObjectsAssumption, FS_Subset DEF SlotHolders

\* The frame of most steps: one thread moves, keeps its request or forgets
\* it, and no slot changes hands.
Moves(th) ==
    /\ slots' = slots
    /\ \E label \in ThreadPc :
        /\ pc' = [pc EXCEPT ![th] = label]
        /\ label \in Keeping => HoldsSlot(th) \/ op[th] # "approve"
        /\ label \in Approved => op[th] = "approve"
        /\ label # "settle"
    /\ op' = op \/ (op' = [op EXCEPT ![th] = "none"] /\ pc'[th] = "idle")
    /\ out' = out \/ out' = [out EXCEPT ![th] = "none"]

LEMMA EndMoves ==
    ASSUME SlotInv, NEW th \in Threads, EndThread(th), slots' = slots
    PROVE  Moves(th)
<1>1. /\ pc' = [pc EXCEPT ![th] = "idle"] /\ pc'[th] = "idle"
      /\ op' = [op EXCEPT ![th] = "none"] /\ out' = [out EXCEPT ![th] = "none"]
  BY DEF EndThread, SlotInv
<1>2. /\ "idle" \in ThreadPc /\ "idle" \notin Keeping
      /\ "idle" \notin Approved
  BY DEF ThreadPc, HandlerPc, Keeping, Approved
<1>. QED  BY <1>1, <1>2 DEF Moves

LEMMA GoMoves ==
    ASSUME SlotInv, NEW th \in Threads, NEW label \in ThreadPc, Go(th, label),
           slots' = slots, label \notin {"build", "settle"},
           pc[th] \in Keeping \/ op[th] # "approve",
           label \in {"begin", "marked"} => op[th] = "approve"
    PROVE  Moves(th)
<1>1. pc' = [pc EXCEPT ![th] = label] /\ op' = op /\ out' = out
  BY DEF Go
<1>2. HoldsSlot(th) \/ op[th] # "approve"
  BY DEF HoldsSlot, Keeping
<1>3. label \in Approved => op[th] = "approve"
  BY DEF Approved
<1>4. \E l \in ThreadPc :
        /\ pc' = [pc EXCEPT ![th] = l]
        /\ l \in Keeping => HoldsSlot(th) \/ op[th] # "approve"
        /\ l \in Approved => op[th] = "approve"
        /\ l # "settle"
  <2>. WITNESS label \in ThreadPc
  <2>. QED  BY <1>1, <1>2, <1>3
<1>5. slots' = slots
  OBVIOUS
<1>6. /\ op' = op \/ (op' = [op EXCEPT ![th] = "none"] /\ pc'[th] = "idle")
      /\ out' = out \/ out' = [out EXCEPT ![th] = "none"]
  BY <1>1
<1>. QED  BY ONLY <1>4, <1>5, <1>6, Zenon DEF Moves

LEMMA MoveKeeps ==
    ASSUME SlotInv, NEW th \in Threads, Moves(th)
    PROVE  SlotInv'
<1>1. PICK label \in ThreadPc :
        /\ pc' = [pc EXCEPT ![th] = label]
        /\ label \in Keeping => HoldsSlot(th) \/ op[th] # "approve"
        /\ label \in Approved => op[th] = "approve"
        /\ label # "settle"
  BY DEF Moves
<1>2. /\ pc' \in [Threads -> ThreadPc]
      /\ op' \in [Threads -> RequestKinds \cup {"start", "none"}]
      /\ out' \in [Threads -> Outcomes \cup {"none"}]
  BY <1>1 DEF SlotInv, Moves
<1>3. \A x \in Threads : pc'[x] \in Approved => op'[x] = "approve"
  BY <1>1 DEF SlotInv, Moves, Approved
<1>4. \A x \in Threads : HoldsSlot(x)' => HoldsSlot(x)
  <2>. SUFFICES ASSUME NEW x \in Threads, HoldsSlot(x)' PROVE HoldsSlot(x)
    OBVIOUS
  <2>1. CASE x = th
    <3>1. pc'[x] = label /\ op'[x] = "approve"
      BY <1>1, <2>1 DEF SlotInv, HoldsSlot
    <3>2. label \in Keeping
      BY <1>1, <3>1 DEF HoldsSlot, Keeping
    <3>3. op[th] = "approve"
      BY <2>1, <3>1 DEF SlotInv, Moves
    <3>. QED  BY <1>1, <2>1, <3>2, <3>3
  <2>2. CASE x # th
    <3>1. pc'[x] = pc[x] /\ op'[x] = op[x] /\ out'[x] = out[x]
      BY <1>1, <2>2 DEF SlotInv, Moves
    <3>. QED  BY <3>1 DEF HoldsSlot
  <2>. QED  BY <2>1, <2>2
<1>5. SlotHolders' \subseteq SlotHolders
  BY <1>4 DEF SlotHolders
<1>6. CapacityBounded'
  BY <1>5, HoldersShrink, HoldersFinite DEF SlotInv, CapacityBounded, Moves
<1>. QED  BY <1>2, <1>3, <1>6 DEF SlotInv, Moves

\* A holder's build is over, and goes on to settle with outcome o.
Settles(th, o) ==
    /\ pc' = [pc EXCEPT ![th] = "settle"]
    /\ out' = [out EXCEPT ![th] = o]
    /\ op' = op

\* A build that failed keeps its slot until it has settled.
LEMMA FailureKeeps ==
    ASSUME SlotInv, NEW th \in Threads, pc[th] \in {"build", "marked"},
           slots' = slots, Settles(th, "failed")
    PROVE  SlotInv'
<1>1. op[th] = "approve" /\ HoldsSlot(th)
  BY DEF SlotInv, HoldsSlot, Approved
<1>2. /\ pc' \in [Threads -> ThreadPc]
      /\ op' \in [Threads -> RequestKinds \cup {"start", "none"}]
      /\ out' \in [Threads -> Outcomes \cup {"none"}]
      /\ \A x \in Threads : pc'[x] \in Approved => op'[x] = "approve"
  BY <1>1 DEF SlotInv, Settles, ThreadPc, BuildPc, Outcomes
<1>3. SlotHolders' \subseteq SlotHolders
  BY <1>1 DEF SlotInv, SlotHolders, HoldsSlot, Settles
<1>4. CapacityBounded'
  BY <1>3, HoldersShrink, HoldersFinite DEF SlotInv, CapacityBounded
<1>. QED  BY <1>2, <1>4 DEF SlotInv

\* A step in which a holder gives its slot back.
Returns(th) ==
    /\ slots' = slots + 1
    /\ HoldsSlot(th)
    /\ \/ \E o \in Outcomes \ {"failed"} : Settles(th, o)
       \/ EndThread(th)

LEMMA ReturnKeeps ==
    ASSUME SlotInv, NEW th \in Threads, Returns(th)
    PROVE  SlotInv'
<1>1. /\ pc' \in [Threads -> ThreadPc]
      /\ op' \in [Threads -> RequestKinds \cup {"start", "none"}]
      /\ out' \in [Threads -> Outcomes \cup {"none"}]
  BY DEF SlotInv, Returns, Settles, EndThread, ThreadPc, BuildPc
<1>2. \A x \in Threads : pc'[x] \in Approved => op'[x] = "approve"
  BY DEF SlotInv, Returns, Settles, EndThread, HoldsSlot, Approved
<1>3. \A x \in Threads : HoldsSlot(x)' => HoldsSlot(x) /\ x # th
  <2>. SUFFICES ASSUME NEW x \in Threads, HoldsSlot(x)'
                PROVE  HoldsSlot(x) /\ x # th
    OBVIOUS
  <2>1. x # th
    BY DEF SlotInv, Returns, Settles, EndThread, HoldsSlot, HandlerPc
  <2>2. pc'[x] = pc[x] /\ op'[x] = op[x] /\ out'[x] = out[x]
    BY <2>1 DEF SlotInv, Returns, Settles, EndThread
  <2>. QED  BY <2>1, <2>2 DEF HoldsSlot
<1>4. th \in SlotHolders /\ SlotHolders' \subseteq SlotHolders \ {th}
  BY <1>3 DEF Returns, SlotHolders
<1>5. CapacityBounded'
  BY <1>4, HolderReturns, HoldersFinite DEF SlotInv, CapacityBounded, Returns
<1>. QED  BY <1>1, <1>2, <1>5 DEF SlotInv, Returns

LEMMA CreateKeeps ==
    ASSUME SlotInv, NEW th \in Threads, NEW s \in Sessions, Create(th, s)
    PROVE  SlotInv'
<1>1. /\ pc' = [pc EXCEPT ![th] = "start"]
      /\ op' = [op EXCEPT ![th] = "start"] /\ slots' = slots /\ out' = out
  BY DEF Create
<1>2. SlotHolders' \subseteq SlotHolders
  BY <1>1 DEF SlotInv, SlotHolders, HoldsSlot
<1>3. CapacityBounded'
  BY <1>1, <1>2, HoldersShrink, HoldersFinite DEF SlotInv, CapacityBounded
<1>. QED  BY <1>1, <1>3 DEF SlotInv, ThreadPc, HandlerPc, Approved

LEMMA ArriveKeeps ==
    ASSUME SlotInv, NEW th \in Threads, NEW s \in Sessions,
           NEW kind \in Requests, Arrive(th, kind, s)
    PROVE  SlotInv'
<1>1. /\ pc' = [pc EXCEPT ![th] = "get"]
      /\ op' = [op EXCEPT ![th] = kind] /\ kind \in RequestKinds
      /\ out' = out
  BY RequestsAssumption DEF Arrive
<1>2. /\ pc' \in [Threads -> ThreadPc]
      /\ op' \in [Threads -> RequestKinds \cup {"start", "none"}]
      /\ out' \in [Threads -> Outcomes \cup {"none"}]
      /\ \A x \in Threads : pc'[x] \in Approved => op'[x] = "approve"
  BY <1>1 DEF SlotInv, ThreadPc, HandlerPc, Approved
<1>3. CASE kind = "approve"
  <2>1. slots > 0 /\ slots' = slots - 1
    BY <1>3 DEF Arrive
  <2>2. SlotHolders' \subseteq SlotHolders \cup {th}
    BY <1>1 DEF SlotInv, SlotHolders, HoldsSlot
  <2>3. slots' + Cardinality(SlotHolders') <= BuildSlots
    <3>. HIDE DEF SlotHolders
    <3>1. slots \in Nat /\ slots + Cardinality(SlotHolders) <= BuildSlots
      BY DEF SlotInv, CapacityBounded
    <3>2. slots - 1 + Cardinality(SlotHolders') <= BuildSlots
      BY ONLY <2>1, <2>2, <3>1, HolderArrives, HoldersFinite
    <3>. QED  BY <2>1, <3>2
  <2>4. slots' \in Nat
    BY <2>1 DEF SlotInv
  <2>. QED  BY <1>2, <2>3, <2>4 DEF SlotInv, CapacityBounded
<1>4. CASE kind # "approve"
  <2>1. slots' = slots
    BY <1>4 DEF Arrive
  <2>2. SlotHolders' \subseteq SlotHolders
    BY <1>1, <1>4 DEF SlotInv, SlotHolders, HoldsSlot
  <2>3. CapacityBounded'
    BY <2>1, <2>2, HoldersShrink, HoldersFinite DEF SlotInv, CapacityBounded
  <2>. QED  BY <1>2, <2>1, <2>3 DEF SlotInv
<1>. QED  BY <1>3, <1>4

LEMMA RestartKeeps ==
    ASSUME Restart
    PROVE  SlotInv'
<1>1. /\ slots' = BuildSlots
      /\ pc' = [th \in Threads |-> "idle"] /\ op' = [th \in Threads |-> "none"]
      /\ out' = [th \in Threads |-> "none"]
  BY DEF Restart
<1>2. SlotHolders' = {}
  BY <1>1 DEF SlotHolders, HoldsSlot
<1>3. CapacityBounded'
  BY <1>1, <1>2, FS_EmptySet, SlotsAssumption DEF CapacityBounded
<1>. QED  BY <1>1, <1>3, SlotsAssumption DEF SlotInv, ThreadPc, Approved

\* KeepPinned moves streams only, and streams hold no slot.
LEMMA BeginBuildKeeps ==
    ASSUME SlotInv, NEW th \in Threads, BeginBuild(th)
    PROVE  SlotInv'
<1>1. /\ pc[th] = "begin" /\ op[th] = "approve"
      /\ pc' = [KeepPinned(ref[th]) EXCEPT ![th] = "build"]
      /\ slots' = slots /\ op' = op /\ out' = out
  BY DEF SlotInv, BeginBuild, Approved
<1>2. \A x \in Threads : pc'[x] =
         IF x = th THEN "build"
         ELSE IF ref[x] = ref[th] /\ pc[x] = "follow"
         THEN IF heap[ref[th]].closed THEN "replay" ELSE "orphan" ELSE pc[x]
  BY <1>1 DEF KeepPinned
<1>3. pc' \in [Threads -> ThreadPc]
  <2>1. DOMAIN pc' = Threads /\ pc' = [x \in Threads |-> pc'[x]]
    BY <1>1 DEF KeepPinned
  <2>2. \A x \in Threads : pc'[x] \in ThreadPc
    BY <1>2 DEF SlotInv, ThreadPc, BuildPc, StreamPc
  <2>. QED  BY <2>1, <2>2
<1>4. \A x \in Threads : pc'[x] \in Approved => op'[x] = "approve"
  BY <1>1, <1>2 DEF SlotInv, Approved
<1>5. SlotHolders' \subseteq SlotHolders
  BY <1>1, <1>2 DEF SlotHolders, HoldsSlot, HandlerPc
<1>6. CapacityBounded'
  BY <1>1, <1>5, HoldersShrink, HoldersFinite DEF SlotInv, CapacityBounded
<1>. QED  BY <1>1, <1>3, <1>4, <1>6 DEF SlotInv

\* Every step of a handler but those two moves its thread.
LEMMA HandlerKeeps ==
    ASSUME SlotInv, NEW th \in Threads, Handler(th)
    PROVE  SlotInv'
<1>. DEFINE Labels == {"register", "check", "specs", "builds", "insert",
                       "locked", "begin", "marked", "pop", "tombstone", "pin",
                       "early", "follow"}
<1>0. /\ Labels \subseteq ThreadPc /\ "build" \notin Labels
      /\ "settle" \notin Labels
      /\ {"start", "get", "specs", "builds", "insert", "check", "locked",
          "build", "pop", "pin"} \subseteq Keeping
  BY DEF ThreadPc, BuildPc, HandlerPc, StreamPc, Keeping
<1>1. ASSUME NEW phase, FirstTurn(th, phase) PROVE Moves(th)
  BY <1>0, <1>1, GoMoves DEF FirstTurn
<1>2. CASE FirstTurnFails(th) \/ Register(th)
  BY <1>2, EndMoves, MoveKeeps DEF FirstTurnFails, Register, End
<1>3. CASE Get(th)
  <2>1. CASE Unknown(th) \/ Foreign(th)
    BY <2>1, EndMoves, MoveKeeps DEF Unknown, Foreign, NotFound, End
  <2>2. CASE Hit(th) \/ Insert(th)
    BY <1>0, <2>2, GoMoves, MoveKeeps DEF Hit, Insert
  <2>3. CASE Miss(th)
    BY <1>0, <2>3, GoMoves, MoveKeeps DEF Miss
  <2>4. CASE ReadSpecs(th)
    BY <1>0, <2>4, GoMoves, MoveKeeps DEF ReadSpecs
  <2>5. CASE ReadBuilds(th)
    BY <1>0, <2>5, GoMoves, MoveKeeps DEF ReadBuilds
  <2>. QED  BY <1>3, <2>1, <2>2, <2>3, <2>4, <2>5, MoveKeeps DEF Get
<1>4. CASE Lock(th)
  BY <1>0, <1>4, GoMoves, MoveKeeps DEF Lock
<1>5. CASE ApproveDenied(th)
  <2>1. Returns(th)
    BY <1>5 DEF ApproveDenied, Returns, HoldsSlot, HandlerPc
  <2>. QED  BY <2>1, ReturnKeeps
<1>6. CASE Approve(th)
  BY <1>0, <1>6, GoMoves, MoveKeeps DEF Approve
<1>7. CASE BeginBuild(th)
  BY <1>7, BeginBuildKeeps
<1>8. CASE MarkBuilding(th)
  <2>1. op[th] = "approve"
    BY <1>8 DEF MarkBuilding, SlotInv, Approved
  <2>. QED  BY <1>0, <1>8, <2>1, GoMoves, MoveKeeps DEF MarkBuilding
<1>9. CASE Settle(th)
  <2>1. CASE out[th] = "failed"
    <3>1. Returns(th)
      BY <1>9, <2>1 DEF Settle, Returns, HoldsSlot, SlotInv, Approved
    <3>. QED  BY <3>1, ReturnKeeps
  <2>2. CASE out[th] # "failed"
    BY <1>9, <2>2, EndMoves, MoveKeeps DEF Settle
  <2>. QED  BY <2>1, <2>2
<1>15. CASE Blocked(th)
  <2>1. Settles(th, "failed") /\ slots' = slots /\ pc[th] = "build"
    BY <1>15 DEF Blocked, Settles
  <2>. QED  BY <2>1, FailureKeeps
<1>16. ASSUME NEW outcome \in Results, Built(th, outcome) PROVE SlotInv'
  <2>1. Settles(th, outcome) /\ pc[th] = "marked" /\ outcome \in Outcomes
    BY <1>16, RequestsAssumption DEF Built, Settles
  <2>2. CASE outcome = "failed"
    BY <1>16, <2>1, <2>2, FailureKeeps DEF Built
  <2>3. CASE outcome # "failed"
    <3>1. slots' = slots + 1 /\ HoldsSlot(th)
      BY <1>16, <2>1, <2>3 DEF Built, SlotInv, HoldsSlot, Approved
    <3>. QED  BY <2>1, <2>3, <3>1, ReturnKeeps DEF Returns
  <2>. QED  BY <2>2, <2>3
<1>10. CASE ReplyIdle(th) \/ ReplyProposes(th)
  BY <1>10, EndMoves, MoveKeeps DEF ReplyIdle, ReplyProposes
<1>11. CASE DeleteRefused(th) \/ Tombstone(th)
  BY <1>11, EndMoves, MoveKeeps DEF DeleteRefused, Tombstone, End
<1>12. CASE DeleteAllowed(th) \/ Pop(th)
  <2>1. CASE DeleteAllowed(th)
    BY <1>0, <2>1, GoMoves, MoveKeeps DEF DeleteAllowed
  <2>2. CASE Pop(th)
    BY <1>0, <2>2, GoMoves, MoveKeeps DEF Pop
  <2>. QED  BY <1>12, <2>1, <2>2, MoveKeeps
<1>13. CASE StreamOpens(th) \/ Pin(th)
  <2>1. CASE StreamOpens(th)
    BY <1>0, <2>1, GoMoves, MoveKeeps DEF StreamOpens
  <2>2. CASE Pin(th)
    BY <1>0, <2>2, GoMoves, MoveKeeps DEF Pin
  <2>. QED  BY <1>13, <2>1, <2>2, MoveKeeps
<1>14. CASE StreamEnds(th)
  BY <1>14, EndMoves, MoveKeeps DEF StreamEnds, End
<1>. QED
  BY <1>1, <1>2, <1>3, <1>4, <1>5, <1>6, <1>7, <1>8, <1>9, <1>10, <1>11, <1>12,
     <1>13, <1>14, <1>15, <1>16, MoveKeeps DEF Handler, BuildSteps

LEMMA SlotInvNext == SlotInv /\ [Next]_vars => SlotInv'
<1>. SUFFICES ASSUME SlotInv, [Next]_vars PROVE SlotInv'
  OBVIOUS
<1>1. ASSUME NEW th \in Threads, Client(th) PROVE SlotInv'
  BY <1>1, CreateKeeps, ArriveKeeps DEF Client
<1>2. ASSUME NEW th \in Threads, Handler(th) PROVE SlotInv'
  BY <1>2, HandlerKeeps
<1>3. CASE Restart
  BY <1>3, RestartKeeps
<1>4. CASE UNCHANGED vars
  BY <1>4 DEF vars, threadVars, SlotInv, CapacityBounded, SlotHolders, HoldsSlot
<1>. QED  BY <1>1, <1>2, <1>3, <1>4 DEF Next

\* The build slots of the process bound its builds, whatever requests,
\* refusals, retries and restarts happen (the semaphore of create_app.approve
\* and _build).
THEOREM SlotsBoundBuilds == Spec => []CapacityBounded
<1>1. Init => SlotInv
  <2>. SUFFICES ASSUME Init PROVE SlotInv
    OBVIOUS
  <2>1. SlotHolders = {}
    BY DEF Init, SlotHolders, HoldsSlot
  <2>2. CapacityBounded
    BY <2>1, FS_EmptySet, SlotsAssumption DEF Init, CapacityBounded
  <2>. QED  BY <2>2, SlotsAssumption DEF Init, SlotInv, ThreadPc, Approved
<1>2. SlotInv => CapacityBounded
  BY DEF SlotInv
<1>. QED  BY <1>1, <1>2, SlotInvNext, PTL DEF Spec

-----------------------------------------------------------------------------
(* What one step changes, object by object and thread by thread. *)

\* Object o is as it was, but for newest, which a reply of another object of
\* its session may clear.
Same(o) ==
    /\ heap'[o].sid = heap[o].sid /\ heap'[o].phase = heap[o].phase
    /\ heap'[o].status = heap[o].status /\ heap'[o].closed = heap[o].closed
    /\ heap'[o].lock = heap[o].lock

\* Nobody refers to o any more.
Freed(o) ==
    /\ heap'[o] = Blank /\ o \notin reg'
    /\ \A x \in Threads : ref'[x] # o

\* Only the objects of W are written.
Writes(W) == \A o \in Objects \ W : Same(o) \/ Freed(o)

NewestStays(W) ==
    \A o \in Objects \ W : heap'[o].newest = heap[o].newest \/ Freed(o)

\* Only thread th moves, but for the streams a build leaves behind.
Only(th) ==
    \A x \in Threads : x # th =>
        /\ sid'[x] = sid[x] /\ op'[x] = op[x] /\ ref'[x] = ref[x]
        /\ out'[x] = out[x]
        /\ \/ pc'[x] = pc[x]
           \/ /\ pc[x] = "follow" /\ pc[th] = "begin"
              /\ pc'[x] \in {"replay", "orphan"}

Heaps == [Objects -> Object]
Refs  == [Threads -> Objects \cup {Null}]

\* The objects somebody refers to become h, the others are freed.
LEMMA MemoryFacts ==
    ASSUME NEW h \in Heaps, NEW rg \in SUBSET Objects, NEW rf \in Refs,
           Memory(h, rg, rf)
    PROVE  /\ heap' \in Heaps /\ reg' = rg /\ ref' = rf
           /\ older' \in SUBSET (reg' \X reg')
           /\ \A o \in Objects : heap'[o] = h[o] \/ Freed(o)
<1>1. /\ heap' = [o \in Objects |-> IF o \in Live(rg, rf) THEN h[o] ELSE Blank]
      /\ reg' = rg /\ ref' = rf
      /\ older' = (older \cap (rg \X rg)) \cup ((rg \cap reg) \X (rg \ reg))
  BY DEF Memory
<1>2. Blank \in Object
  BY DEF Blank, Object, BuildState, Phases
<1>3. heap' \in Heaps
  BY <1>1, <1>2 DEF Heaps
<1>4. older' \in SUBSET (reg' \X reg')
  BY <1>1
<1>5. ASSUME NEW o \in Objects PROVE heap'[o] = h[o] \/ Freed(o)
  <2>1. CASE o \in Live(rg, rf)
    BY <1>1, <2>1
  <2>2. CASE o \notin Live(rg, rf)
    <3>1. o \notin rg /\ \A x \in Threads : rf[x] # o
      BY <2>2, NullAssumption DEF Live
    <3>. QED  BY <1>1, <2>2, <3>1 DEF Freed
  <2>. QED  BY <2>1, <2>2
<1>. QED  BY <1>1, <1>3, <1>4, <1>5

LEMMA GoFacts ==
    ASSUME StateOK, NEW th \in Threads, NEW label \in ThreadPc, Go(th, label)
    PROVE  /\ pc' \in [Threads -> ThreadPc] /\ pc'[th] = label
           /\ \A x \in Threads : x # th => pc'[x] = pc[x]
           /\ op' = op /\ sid' = sid /\ out' = out
BY DEF Go, StateOK

LEMMA EndFacts ==
    ASSUME StateOK, NEW th \in Threads, EndThread(th)
    PROVE  /\ pc' \in [Threads -> ThreadPc] /\ pc'[th] = "idle"
           /\ op' \in [Threads -> RequestKinds \cup {"start", "none"}]
           /\ sid' \in [Threads -> Sessions \cup {Null}] /\ sid'[th] = Null
           /\ out' \in [Threads -> Outcomes \cup {"none"}]
           /\ op'[th] = "none"
           /\ \A x \in Threads : x # th =>
                 /\ pc'[x] = pc[x] /\ op'[x] = op[x] /\ sid'[x] = sid[x]
                 /\ out'[x] = out[x]
BY DEF EndThread, StateOK, ThreadPc

LEMMA DropFacts ==
    ASSUME StateOK, NEW th \in Threads
    PROVE  /\ Drop(th) \in Refs /\ Drop(th)[th] = Null
           /\ \A x \in Threads : x # th => Drop(th)[x] = ref[x]
BY DEF Drop, StateOK, Refs

-----------------------------------------------------------------------------
(* How a step moves its thread. *)

SidsStay == \A o \in Objects : heap'[o].sid = heap[o].sid \/ Freed(o)

\* No row goes away, and only the rows of th's session change.
Rows(th) ==
    /\ \A s \in Sessions : row'[s] = "none" => row[s] = "none"
    /\ \A s \in Sessions : s # sid[th] =>
          /\ spec'[s] = spec[s] /\ last'[s] = last[s]
          /\ s \in open' => s \in open

\* The thread is done, and may have registered the session it started.
Ends(th) ==
    /\ pc'[th] = "idle" /\ op'[th] = "none" /\ sid'[th] = Null
    /\ ref'[th] = Null /\ pc[th] # "idle"
    /\ reg' \subseteq reg \cup (IF pc[th] = "register" THEN {ref[th]} ELSE {})

\* It goes on with the object it has, if any.
Stays(th) ==
    /\ ref'[th] = ref[th] /\ sid'[th] = sid[th] /\ op'[th] = op[th]
    /\ pc[th] # "idle" /\ pc'[th] # "idle"
    /\ pc'[th] \in NoObject <=> pc[th] \in NoObject
    /\ pc'[th] \in Private => pc[th] \in Private
    /\ pc'[th] \in {"start", "register"} <=> pc[th] \in {"start", "register"}
    /\ op[th] = "start" => last'[sid[th]] = last[sid[th]]
    /\ reg' \subseteq reg

\* It goes on with the registered object of its session, or registers its own.
Finds(th) ==
    /\ pc[th] \in {"get", "insert"} /\ pc'[th] = "check"
    /\ sid'[th] = sid[th] /\ op'[th] = op[th]
    /\ \/ ref'[th] \in Lookup(sid[th]) /\ reg' = reg
       \/ /\ pc[th] = "insert" /\ Lookup(sid[th]) = {} /\ ref'[th] = ref[th]
          /\ ref[th] \in reg' /\ reg' \subseteq reg \cup {ref[th]}

\* It makes a new object, for a session it starts or has read the rows of.
Makes(th) ==
    /\ ref'[th] \in Objects \ Live(reg, ref) /\ reg' = reg
    /\ sid'[th] \in Sessions /\ heap'[ref'[th]].sid = sid'[th]
    /\ \A o \in Objects \ {ref'[th]} : heap'[o].sid = heap[o].sid \/ Freed(o)
    /\ \/ /\ pc[th] = "idle" /\ pc'[th] = "start" /\ op'[th] = "start"
          /\ row[sid'[th]] = "none" /\ row'[sid'[th]] = "live"
          /\ \A s \in Sessions \ {sid'[th]} : row'[s] = row[s]
       \/ /\ pc[th] = "specs" /\ pc'[th] = "builds"
          /\ op'[th] = op[th] /\ sid'[th] = sid[th] /\ row' = row

LEMMA EndsKeeps ==
    ASSUME MemInv, StateOK', NEW th \in Threads, Only(th), SidsStay, Rows(th),
           Ends(th)
    PROVE  MemInv'
<1>1. RefInv'
  <2>. SUFFICES ASSUME NEW x \in Threads
       PROVE  /\ pc'[x] = "idle" <=> sid'[x] = Null
              /\ pc'[x] \in NoObject => ref'[x] = Null
              /\ pc'[x] \notin NoObject =>
                    ref'[x] \in Objects /\ heap'[ref'[x]].sid = sid'[x]
    BY DEF RefInv
  <2>1. CASE x = th
    BY <2>1 DEF Ends, NoObject
  <2>2. CASE x # th
    BY <2>2 DEF MemInv, RefInv, Only, SidsStay, Freed, NoObject
  <2>. QED  BY <2>1, <2>2
<1>2. RegInv'
  <2>1. \A o \in reg' : o \in reg \/ (pc[th] = "register" /\ o = ref[th])
    BY DEF Ends
  <2>2. \A o \in reg' : o \in Objects /\ heap'[o].sid = heap[o].sid
    BY DEF StateOK, SidsStay, Freed
  <2>3. pc[th] = "register" =>
          /\ op[th] = "start" /\ heap[ref[th]].sid = sid[th]
          /\ sid[th] \in Sessions /\ ref[th] \in Objects
          /\ \A o \in Objects : heap[o].sid = sid[th] => o = ref[th]
    BY DEF MemInv, StartInv, RefInv, NoObject, StateOK
  <2>. QED  BY <2>1, <2>2, <2>3 DEF MemInv, RegInv
<1>3. PrivateInv'
  <2>. SUFFICES ASSUME NEW x \in Threads, pc'[x] \in Private
       PROVE  /\ ref'[x] \notin reg'
              /\ \A y \in Threads : y # x => ref'[y] # ref'[x]
    BY DEF PrivateInv
  <2>1. x # th /\ pc[x] \in Private /\ ref'[x] = ref[x]
    BY DEF Ends, Only, Private
  <2>2. ref[x] \notin reg /\ ref[x] # Null /\ ref[x] # ref[th]
    BY <2>1, NullAssumption DEF MemInv, PrivateInv, RefInv, Private, NoObject
  <2>. QED  BY <2>1, <2>2 DEF MemInv, PrivateInv, Ends, Only
<1>4. RowlessInv'
  BY NullAssumption DEF MemInv, RowlessInv, Rows, Only, Ends, SidsStay, Freed,
     Blank
<1>5. StartInv'
  <2>. SUFFICES ASSUME NEW x \in Threads
       PROVE  /\ op'[x] = "start" <=> pc'[x] \in {"start", "register"}
              /\ op'[x] = "start" =>
                   /\ \A y \in Threads : y # x => sid'[y] # sid'[x]
                   /\ \A o \in Objects : heap'[o].sid = sid'[x] => o = ref'[x]
                   /\ last'[sid'[x]] = "none"
    BY DEF StartInv
  <2>1. op'[x] = "start" <=> pc'[x] \in {"start", "register"}
    BY DEF MemInv, StartInv, Ends, Only
  <2>2. ASSUME op'[x] = "start"
        PROVE  /\ \A y \in Threads : y # x => sid'[y] # sid'[x]
               /\ \A o \in Objects : heap'[o].sid = sid'[x] => o = ref'[x]
               /\ last'[sid'[x]] = "none"
    <3>1. /\ x # th /\ op[x] = "start" /\ sid'[x] = sid[x] /\ ref'[x] = ref[x]
          /\ sid[x] # Null /\ sid[x] \in Sessions
      BY <2>2 DEF Ends, Only, MemInv, RefInv, StartInv, StateOK
    <3>2. \A y \in Threads : y # x => sid'[y] # sid'[x]
      BY <3>1 DEF Ends, Only, MemInv, StartInv
    <3>3. \A o \in Objects : heap'[o].sid = sid'[x] => o = ref'[x]
      BY <3>1 DEF MemInv, StartInv, SidsStay, Freed, Blank
    <3>4. last'[sid'[x]] = "none"
      BY <3>1 DEF MemInv, StartInv, Rows
    <3>. QED  BY <3>2, <3>3, <3>4
  <2>. QED  BY <2>1, <2>2
<1>. QED  BY <1>1, <1>2, <1>3, <1>4, <1>5 DEF MemInv

LEMMA StaysKeeps ==
    ASSUME MemInv, StateOK', NEW th \in Threads, Only(th), SidsStay, Rows(th),
           Stays(th)
    PROVE  MemInv'
<1>0. \A x \in Threads :
        /\ ref'[x] = ref[x] /\ sid'[x] = sid[x] /\ op'[x] = op[x]
        /\ pc'[x] = "idle" <=> pc[x] = "idle"
        /\ pc'[x] \in NoObject <=> pc[x] \in NoObject
        /\ pc'[x] \in Private => pc[x] \in Private
        /\ pc'[x] \in {"start", "register"} <=> pc[x] \in {"start", "register"}
  BY DEF Stays, Only, NoObject, Private
<1>1. RefInv'
  BY <1>0 DEF MemInv, RefInv, SidsStay, Freed
<1>2. RegInv'
  BY DEF MemInv, RegInv, Stays, SidsStay, Freed, StateOK
<1>3. PrivateInv'
  BY <1>0 DEF MemInv, PrivateInv, Stays
<1>4. RowlessInv'
  BY <1>0, NullAssumption DEF MemInv, RowlessInv, Rows, SidsStay, Freed, Blank
<1>5. StartInv'
  <2>1. ASSUME NEW x \in Threads, op[x] = "start" PROVE last'[sid[x]] = "none"
    <3>1. x # th => sid[x] # sid[th]
      BY <2>1 DEF MemInv, StartInv
    <3>2. sid[x] \in Sessions /\ last[sid[x]] = "none"
      BY <2>1 DEF MemInv, StartInv, RefInv, StateOK
    <3>. QED  BY <2>1, <3>1, <3>2 DEF Rows, Stays
  <2>2. ASSUME NEW x \in Threads, op[x] = "start"
        PROVE  \A o \in Objects : heap'[o].sid = sid[x] => o = ref[x]
    BY <2>2, NullAssumption DEF MemInv, StartInv, SidsStay, Freed, Blank,
       RefInv, StateOK
  <2>. QED  BY <1>0, <2>1, <2>2 DEF MemInv, StartInv
<1>. QED  BY <1>1, <1>2, <1>3, <1>4, <1>5 DEF MemInv

LEMMA FindsKeeps ==
    ASSUME MemInv, StateOK', NEW th \in Threads, Only(th), SidsStay, Rows(th),
           Finds(th)
    PROVE  MemInv'
<1>0. /\ pc[th] \notin {"start", "register", "idle"} /\ pc'[th] = "check"
      /\ sid'[th] = sid[th] /\ op'[th] = op[th] /\ sid[th] \in Sessions
      /\ ref'[th] \in reg'
      /\ \A o \in reg' : o \in reg \/ o = ref'[th]
      /\ ref'[th] \in reg \/ (pc[th] = "insert" /\ ref'[th] = ref[th])
      /\ heap'[ref'[th]].sid = sid[th] /\ ref'[th] \in Objects
  <2>1. CASE ref'[th] \in Lookup(sid[th]) /\ reg' = reg
    <3>1. ref'[th] \in reg' /\ ref'[th] \in Objects
          /\ heap[ref'[th]].sid = sid[th]
      BY <2>1 DEF Lookup, StateOK
    <3>. QED  BY <2>1, <3>1 DEF Finds, SidsStay, Freed, MemInv, RefInv, StateOK
  <2>2. CASE pc[th] = "insert" /\ ref'[th] = ref[th]
    <3>1. ref[th] \in Objects /\ heap[ref[th]].sid = sid[th]
      BY <2>2 DEF MemInv, RefInv, NoObject
    <3>2. ref'[th] = ref[th] => heap'[ref[th]].sid = sid[th]
      BY <3>1 DEF SidsStay, Freed
    <3>3. ref'[th] \in reg'
      BY <2>2 DEF Finds, Lookup
    <3>. QED
      BY <2>2, <3>1, <3>2, <3>3 DEF Finds, MemInv, RefInv, StateOK
  <2>. QED  BY <2>1, <2>2 DEF Finds
<1>1. RefInv'
  <2>. SUFFICES ASSUME NEW x \in Threads
       PROVE  /\ pc'[x] = "idle" <=> sid'[x] = Null
              /\ pc'[x] \in NoObject => ref'[x] = Null
              /\ pc'[x] \notin NoObject =>
                    ref'[x] \in Objects /\ heap'[ref'[x]].sid = sid'[x]
    BY DEF RefInv
  <2>1. CASE x = th
    BY <1>0, <2>1, NullAssumption DEF NoObject
  <2>2. CASE x # th
    BY <2>2 DEF MemInv, RefInv, Only, SidsStay, Freed, NoObject
  <2>. QED  BY <2>1, <2>2
<1>2. RegInv'
  <2>1. \A o \in reg :
           o \in Objects /\ (heap'[o].sid = heap[o].sid \/ o \notin reg')
    BY DEF MemInv, StateOK, SidsStay, Freed
  <2>2. ref'[th] \notin reg => \A o \in reg : heap[o].sid # sid[th]
    BY DEF Finds, Lookup
  <2>3. \A o \in reg' : heap'[o].sid \in Sessions
    BY <1>0, <2>1 DEF MemInv, RegInv
  <2>4. ASSUME NEW o \in reg', NEW p \in reg', heap'[o].sid = heap'[p].sid
        PROVE  o = p
    <3>1. CASE o \in reg /\ p \in reg
      BY <2>1, <2>4, <3>1 DEF MemInv, RegInv
    <3>2. CASE o \notin reg
      BY <1>0, <2>1, <2>2, <2>4, <3>2
    <3>3. CASE p \notin reg
      BY <1>0, <2>1, <2>2, <2>4, <3>3
    <3>. QED  BY <3>1, <3>2, <3>3
  <2>. QED  BY <2>3, <2>4 DEF RegInv
<1>3. PrivateInv'
  <2>. SUFFICES ASSUME NEW x \in Threads, pc'[x] \in Private
       PROVE  /\ ref'[x] \notin reg'
              /\ \A y \in Threads : y # x => ref'[y] # ref'[x]
    BY DEF PrivateInv
  <2>1. x # th /\ pc[x] \in Private /\ ref'[x] = ref[x]
    BY <1>0 DEF Only, Private
  <2>2. ref[x] \notin reg /\ \A y \in Threads : y # x => ref[y] # ref[x]
    BY <2>1 DEF MemInv, PrivateInv
  <2>. QED  BY <1>0, <2>1, <2>2 DEF Only
<1>4. RowlessInv'
  BY <1>0, NullAssumption DEF MemInv, RowlessInv, Rows, Only, SidsStay, Freed,
     Blank
<1>5. StartInv'
  <2>1. ASSUME NEW x \in Threads
        PROVE  op'[x] = "start" <=> pc'[x] \in {"start", "register"}
    BY <1>0 DEF MemInv, StartInv, Only
  <2>2. ASSUME NEW x \in Threads, op'[x] = "start"
        PROVE  /\ \A y \in Threads : y # x => sid'[y] # sid'[x]
               /\ \A o \in Objects : heap'[o].sid = sid'[x] => o = ref'[x]
               /\ last'[sid'[x]] = "none"
    <3>1. /\ x # th /\ op[x] = "start" /\ sid'[x] = sid[x] /\ ref'[x] = ref[x]
          /\ sid[x] # Null /\ sid[x] \in Sessions
      BY <1>0, <2>2 DEF Only, MemInv, RefInv, StartInv, StateOK
    <3>2. \A y \in Threads : y # x => sid'[y] # sid'[x]
      BY <1>0, <3>1 DEF Only, MemInv, StartInv
    <3>3. \A o \in Objects : heap'[o].sid = sid'[x] => o = ref'[x]
      BY <3>1 DEF MemInv, StartInv, SidsStay, Freed, Blank
    <3>4. last'[sid'[x]] = "none"
      BY <3>1 DEF MemInv, StartInv, Rows
    <3>. QED  BY <3>2, <3>3, <3>4
  <2>. QED  BY <2>1, <2>2 DEF StartInv
<1>. QED  BY <1>1, <1>2, <1>3, <1>4, <1>5 DEF MemInv

LEMMA MakesKeeps ==
    ASSUME MemInv, StateOK', NEW th \in Threads, Only(th), Makes(th),
           spec' = spec, last' = last, open' = open
    PROVE  MemInv'
<1>0. /\ ref'[th] \in Objects /\ ref'[th] \notin reg
      /\ \A x \in Threads : ref[x] # ref'[th]
      /\ ref'[th] # Null /\ sid'[th] # Null
      /\ pc'[th] \in Private /\ pc'[th] \notin NoObject /\ pc'[th] # "idle"
      /\ pc[th] \in NoObject
  BY NullAssumption DEF Makes, Live, NoObject, Private
<1>1. RefInv'
  <2>. SUFFICES ASSUME NEW x \in Threads
       PROVE  /\ pc'[x] = "idle" <=> sid'[x] = Null
              /\ pc'[x] \in NoObject => ref'[x] = Null
              /\ pc'[x] \notin NoObject =>
                    ref'[x] \in Objects /\ heap'[ref'[x]].sid = sid'[x]
    BY DEF RefInv
  <2>1. CASE x = th
    BY <1>0, <2>1 DEF Makes
  <2>2. CASE x # th
    <3>1. /\ sid'[x] = sid[x] /\ ref'[x] = ref[x]
          /\ pc'[x] = "idle" <=> pc[x] = "idle"
          /\ pc'[x] \in NoObject <=> pc[x] \in NoObject
      BY <2>2 DEF Only, NoObject
    <3>. QED  BY <1>0, <3>1 DEF MemInv, RefInv, Makes, Freed
  <2>. QED  BY <2>1, <2>2
<1>2. RegInv'
  <2>1. \A o \in reg' : /\ o \in reg /\ o \in Objects /\ o # ref'[th]
                        /\ heap'[o].sid = heap[o].sid
    BY <1>0 DEF MemInv, StateOK, Makes, Freed
  <2>. QED  BY <2>1 DEF MemInv, RegInv
<1>3. PrivateInv'
  <2>. SUFFICES ASSUME NEW x \in Threads, pc'[x] \in Private
       PROVE  /\ ref'[x] \notin reg'
              /\ \A y \in Threads : y # x => ref'[y] # ref'[x]
    BY DEF PrivateInv
  <2>1. CASE x = th
    BY <1>0, <2>1 DEF Makes, Only
  <2>2. CASE x # th
    <3>1. pc[x] \in Private /\ ref'[x] = ref[x]
      BY <2>2 DEF Only, Private
    <3>. QED  BY <1>0, <2>2, <3>1 DEF MemInv, PrivateInv, Makes, Only
  <2>. QED  BY <2>1, <2>2
<1>4. RowlessInv'
  <2>. SUFFICES ASSUME NEW s \in Sessions, row'[s] = "none"
       PROVE  /\ spec'[s] = "none" /\ last'[s] = "none" /\ s \notin open'
              /\ \A x \in Threads : sid'[x] # s
              /\ \A o \in Objects : heap'[o].sid # s
    BY DEF RowlessInv
  <2>1. row[s] = "none" /\ sid'[th] # s
    BY DEF Makes, MemInv, RowlessInv
  <2>2. \A x \in Threads : sid'[x] # s
    BY <2>1 DEF MemInv, RowlessInv, Only
  <2>3. \A o \in Objects : heap'[o].sid # s
    BY <2>1, NullAssumption DEF MemInv, RowlessInv, Makes, Freed, Blank
  <2>. QED  BY <2>1, <2>2, <2>3 DEF MemInv, RowlessInv
<1>5. StartInv'
  <2>1. ASSUME NEW x \in Threads
        PROVE  op'[x] = "start" <=> pc'[x] \in {"start", "register"}
    BY DEF MemInv, StartInv, Only, Makes
  <2>2. ASSUME NEW x \in Threads, op'[x] = "start"
        PROVE  /\ \A y \in Threads : y # x => sid'[y] # sid'[x]
               /\ \A o \in Objects : heap'[o].sid = sid'[x] => o = ref'[x]
               /\ last'[sid'[x]] = "none"
    <3>1. CASE x = th
      <4>1. op[th] # "start" \/ pc[th] = "idle"
        BY DEF MemInv, StartInv, Makes
      <4>2. row[sid'[th]] = "none"
        BY <2>1, <2>2, <3>1, <4>1 DEF Makes
      <4>3. \A y \in Threads : y # th => sid'[y] # sid'[th]
        BY <4>2 DEF MemInv, RowlessInv, Only, Makes
      <4>4. \A o \in Objects : heap'[o].sid = sid'[th] => o = ref'[th]
        BY <1>0, <4>2 DEF MemInv, RowlessInv, Makes, Freed, Blank
      <4>5. last'[sid'[th]] = "none"
        BY <4>2 DEF MemInv, RowlessInv, Makes
      <4>. QED  BY <3>1, <4>3, <4>4, <4>5
    <3>2. CASE x # th
      <4>1. /\ op[x] = "start" /\ sid'[x] = sid[x] /\ ref'[x] = ref[x]
            /\ sid[x] # Null /\ sid[x] \in Sessions
        BY <2>2, <3>2 DEF Only, MemInv, RefInv, StartInv, StateOK
      <4>2. sid'[th] # sid[x]
        BY <3>2, <4>1 DEF Makes, MemInv, StartInv, RowlessInv
      <4>3. \A y \in Threads : y # x => sid'[y] # sid'[x]
        BY <3>2, <4>1, <4>2 DEF Only, MemInv, StartInv
      <4>4. \A o \in Objects : heap'[o].sid = sid'[x] => o = ref'[x]
        BY <1>0, <4>1, <4>2 DEF MemInv, StartInv, Makes, Freed, Blank
      <4>5. last'[sid'[x]] = "none"
        BY <4>1 DEF MemInv, StartInv
      <4>. QED  BY <4>3, <4>4, <4>5
    <3>. QED  BY <3>1, <3>2
  <2>. QED  BY <2>1, <2>2 DEF StartInv
<1>. QED  BY <1>1, <1>2, <1>3, <1>4, <1>5 DEF MemInv

LEMMA ArriveKeepsMem ==
    ASSUME MemInv, StateOK', NEW th \in Threads, NEW s \in Sessions,
           NEW kind \in Requests, Arrive(th, kind, s)
    PROVE  MemInv'
<1>0. /\ pc[th] = "idle" /\ pc'[th] = "get" /\ sid'[th] = s /\ op'[th] = kind
      /\ s # Null /\ kind # "start" /\ row[s] # "none"
      /\ \A x \in Threads : x # th =>
            pc'[x] = pc[x] /\ sid'[x] = sid[x] /\ op'[x] = op[x]
      /\ \A x \in Threads : sid[x] = s => op[x] # "start"
      /\ UNCHANGED <<row, spec, last, open, heap, reg, ref>>
  BY RequestsAssumption, NullAssumption
     DEF Arrive, MemInv, StateOK, storeVars, Answered, RequestKinds
<1>1. RefInv'
  BY <1>0 DEF MemInv, RefInv, NoObject
<1>2. RegInv'
  BY <1>0 DEF MemInv, RegInv
<1>3. PrivateInv'
  BY <1>0 DEF MemInv, PrivateInv, Private
<1>4. RowlessInv'
  BY <1>0 DEF MemInv, RowlessInv
<1>5. StartInv'
  BY <1>0 DEF MemInv, StartInv
<1>. QED  BY <1>1, <1>2, <1>3, <1>4, <1>5 DEF MemInv

\* One object per session and one per thread are enough: there is always a
\* free one for a thread that has none.
LEMMA FreeObject ==
    ASSUME MemInv, NEW th \in Threads, ref[th] = Null
    PROVE  Allocate \in Objects \ Live(reg, ref)
<1>. DEFINE Others == Threads \ {th}
            Held == {ref[x] : x \in Others}
<1>1. IsFiniteSet(reg) /\ Cardinality(reg) <= Cardinality(Sessions)
  <2>. DEFINE f == [o \in reg |-> heap[o].sid]
  <2>1. f \in Injection(reg, Sessions)
    BY DEF MemInv, RegInv, Injection, IsInjective
  <2>. QED  BY <2>1, FS_Injection, ObjectsAssumption
<1>2. /\ IsFiniteSet(Held)
      /\ Cardinality(Held) <= Cardinality(Others)
  <2>. DEFINE g == [x \in Others |-> ref[x]]
  <2>1. g \in Surjection(Others, Held)
    BY DEF Surjection
  <2>2. IsFiniteSet(Others)
    BY FS_Subset, ObjectsAssumption
  <2>. QED  BY <2>1, <2>2, FS_Surjection
<1>3. Cardinality(Others) = Cardinality(Threads) - 1
  BY FS_RemoveElement, ObjectsAssumption
<1>4. Live(reg, ref) \subseteq reg \cup Held
  BY DEF Live
<1>5. /\ IsFiniteSet(reg \cup Held)
      /\ Cardinality(reg \cup Held) <= Cardinality(reg) + Cardinality(Held)
  <2>. HIDE DEF Held
  <2>1. /\ IsFiniteSet(reg \cup Held) /\ IsFiniteSet(reg \cap Held)
        /\ Cardinality(reg \cup Held) =
              Cardinality(reg) + Cardinality(Held) - Cardinality(reg \cap Held)
    BY <1>1, <1>2, FS_Union, FS_Intersection
  <2>2. /\ Cardinality(reg \cap Held) \in Nat /\ Cardinality(reg) \in Nat
        /\ Cardinality(Held) \in Nat
    BY <1>1, <1>2, <2>1, FS_CardinalityType
  <2>. QED  BY <2>1, <2>2
<1>6. /\ IsFiniteSet(Live(reg, ref))
      /\ Cardinality(Live(reg, ref)) < Cardinality(Objects)
  <2>. HIDE DEF Held, Others
  <2>1. /\ IsFiniteSet(Live(reg, ref))
        /\ Cardinality(Live(reg, ref)) <= Cardinality(reg \cup Held)
    BY <1>4, <1>5, FS_Subset
  <2>2. /\ Cardinality(Live(reg, ref)) \in Nat
        /\ Cardinality(reg \cup Held) \in Nat /\ Cardinality(reg) \in Nat
        /\ Cardinality(Held) \in Nat /\ Cardinality(Sessions) \in Nat
        /\ Cardinality(Threads) \in Nat /\ Cardinality(Objects) \in Nat
    BY <1>1, <1>2, <1>5, <2>1, FS_CardinalityType, ObjectsAssumption
  <2>. QED  BY <1>1, <1>2, <1>3, <1>5, <2>1, <2>2, ObjectsAssumption
<1>7. \E o \in Objects : o \notin Live(reg, ref)
  <2>1. SUFFICES ASSUME Objects \subseteq Live(reg, ref) PROVE FALSE
    OBVIOUS
  <2>2. Cardinality(Objects) <= Cardinality(Live(reg, ref))
    BY <1>6, <2>1, FS_Subset
  <2>3. Cardinality(Objects) \in Nat /\ Cardinality(Live(reg, ref)) \in Nat
    BY <1>6, FS_CardinalityType, ObjectsAssumption
  <2>. QED  BY <1>6, <2>2, <2>3
<1>. QED  BY <1>7 DEF Allocate

-----------------------------------------------------------------------------
(* Every step moves its thread in one of these ways. *)

\* The rows, whose types a step keeps.
StoreOK ==
    /\ row \in [Sessions -> {"none", "live", "deleted"}]
    /\ spec \in [Sessions -> {"none", "asked", "proposed", "approved"}]
    /\ last \in [Sessions -> Outcomes \cup {"none"}]
    /\ open \in SUBSET Sessions

\* Every object is what h says, or freed.
Becomes(h) == \A o \in Objects : heap'[o] = h[o] \/ Freed(o)

LEMMA EndEffect ==
    ASSUME MemInv, StoreOK', NEW th \in Threads, NEW h \in Heaps,
           NEW rg \in SUBSET Objects, pc[th] # "idle",
           EndThread(th), Memory(h, rg, Drop(th)),
           \A o \in Objects : h[o].sid = heap[o].sid,
           rg \subseteq reg \cup (IF pc[th] = "register" THEN {ref[th]} ELSE {})
    PROVE  StateOK' /\ Only(th) /\ SidsStay /\ Ends(th) /\ Becomes(h)
<1>0. StateOK
  BY DEF MemInv
<1>1. /\ heap' \in Heaps /\ reg' = rg /\ ref' = Drop(th)
      /\ older' \in SUBSET (reg' \X reg') /\ Becomes(h)
  BY <1>0, DropFacts, MemoryFacts DEF Becomes
<1>2. /\ pc' \in [Threads -> ThreadPc] /\ pc'[th] = "idle"
      /\ op' \in [Threads -> RequestKinds \cup {"start", "none"}]
      /\ sid' \in [Threads -> Sessions \cup {Null}] /\ sid'[th] = Null
      /\ out' \in [Threads -> Outcomes \cup {"none"}]
      /\ op'[th] = "none"
      /\ \A x \in Threads : x # th =>
            /\ pc'[x] = pc[x] /\ op'[x] = op[x] /\ sid'[x] = sid[x]
            /\ out'[x] = out[x]
  BY <1>0, EndFacts
<1>3. /\ ref' \in Refs /\ ref'[th] = Null
      /\ \A x \in Threads : x # th => ref'[x] = ref[x]
  BY <1>0, <1>1, DropFacts
<1>4. StateOK'
  BY <1>1, <1>2, <1>3 DEF StateOK, StoreOK, Heaps, Refs
<1>5. SidsStay
  BY <1>1 DEF SidsStay, Becomes
<1>. QED  BY <1>1, <1>2, <1>3, <1>4, <1>5 DEF Only, Ends

LEMMA GoEffect ==
    ASSUME MemInv, StoreOK', NEW th \in Threads, NEW label \in ThreadPc,
           Go(th, label), heap' \in Heaps,
           reg' = reg, older' = older, ref' = ref
    PROVE  /\ StateOK' /\ Only(th) /\ pc'[th] = label
           /\ op' = op /\ sid' = sid /\ out' = out
<1>0. StateOK
  BY DEF MemInv
<1>1. /\ pc' \in [Threads -> ThreadPc] /\ pc'[th] = label
      /\ \A x \in Threads : x # th => pc'[x] = pc[x]
      /\ op' = op /\ sid' = sid /\ out' = out
  BY <1>0, GoFacts
<1>2. StateOK'
  BY <1>0, <1>1 DEF StateOK, StoreOK, Heaps
<1>. QED  BY <1>1, <1>2 DEF Only

LEMMA StoreStays == ASSUME StateOK, UNCHANGED storeVars PROVE StoreOK'
BY DEF StateOK, StoreOK, storeVars

\* A thread with an object, and what its lock's holder writes.
LEMMA HasObject ==
    ASSUME MemInv, NEW th \in Threads, pc[th] \notin NoObject
    PROVE  /\ ref[th] \in Objects /\ Mine(th) \in Object
           /\ Mine(th).sid = sid[th] /\ sid[th] \in Sessions
           /\ heap \in Heaps /\ ref[th] # Null
BY NullAssumption DEF MemInv, RefInv, StateOK, Mine, Heaps, NoObject

\* The thread leaves without a change to any object.
Leaves(th) ==
    /\ Ends(th) /\ Becomes(heap) /\ reg' = reg /\ spec' = spec /\ last' = last
    /\ pc[th] \in {"start", "specs", "check", "tombstone"} \cup StreamPc

LEMMA LeavesEffect ==
    ASSUME MemInv, NEW th \in Threads,
           \/ FirstTurnFails(th) \/ Unknown(th) \/ Foreign(th)
           \/ DeleteRefused(th) \/ Tombstone(th) \/ StreamEnds(th)
    PROVE  MemInv' /\ Only(th) /\ SidsStay /\ Leaves(th)
<1>0. StateOK /\ heap \in Heaps /\ reg \in SUBSET Objects
  BY DEF MemInv, StateOK, Heaps
<1>1. /\ EndThread(th) /\ Memory(heap, reg, Drop(th))
      /\ pc[th] \in {"start", "specs", "check", "tombstone"} \cup StreamPc
      /\ spec' = spec /\ last' = last /\ open' = open
  BY DEF FirstTurnFails, Unknown, Foreign, NotFound, DeleteRefused, Tombstone,
     StreamEnds, End, storeVars
<1>2. row' = row \/ (Tombstone(th) /\ row' = [row EXCEPT ![sid[th]] = "deleted"])
  BY DEF FirstTurnFails, Unknown, Foreign, NotFound, DeleteRefused, Tombstone,
     StreamEnds, storeVars
<1>3. StoreOK' /\ Rows(th)
  BY <1>0, <1>1, <1>2 DEF StateOK, StoreOK, Rows
<1>4. StateOK' /\ Only(th) /\ SidsStay /\ Ends(th) /\ Becomes(heap)
  BY <1>0, <1>1, <1>3, EndEffect DEF StreamPc
<1>5. reg' = reg
  BY <1>1 DEF Memory
<1>6. MemInv'
  BY <1>3, <1>4, EndsKeeps
<1>. QED  BY <1>1, <1>4, <1>5, <1>6 DEF Leaves

LEMMA RegisterEffect ==
    ASSUME MemInv, NEW th \in Threads, Register(th)
    PROVE  /\ MemInv' /\ Only(th) /\ SidsStay /\ Ends(th) /\ Becomes(heap)
           /\ reg' = RoomFor(ref[th]) /\ UNCHANGED storeVars
<1>0. StateOK /\ heap \in Heaps /\ reg \in SUBSET Objects
  BY DEF MemInv, StateOK, Heaps
<1>1. /\ EndThread(th) /\ Memory(heap, RoomFor(ref[th]), Drop(th))
      /\ pc[th] = "register" /\ UNCHANGED storeVars
  BY DEF Register
<1>2. ref[th] \in Objects
  BY <1>1, HasObject DEF NoObject
<1>3. /\ RoomFor(ref[th]) \in SUBSET Objects
      /\ RoomFor(ref[th]) \subseteq reg \cup {ref[th]}
  BY <1>0, <1>2 DEF RoomFor
<1>4. StoreOK' /\ Rows(th)
  BY <1>0, <1>1, StoreStays DEF Rows, storeVars
<1>5. StateOK' /\ Only(th) /\ SidsStay /\ Ends(th) /\ Becomes(heap)
  BY <1>0, <1>1, <1>3, <1>4, EndEffect
<1>6. reg' = RoomFor(ref[th])
  BY <1>1 DEF Memory
<1>7. MemInv'
  BY <1>4, <1>5, EndsKeeps
<1>. QED  BY <1>1, <1>5, <1>6, <1>7

\* The object of a lock's holder becomes m and is unlocked.
LEMMA UnlockedFacts ==
    ASSUME MemInv, NEW th \in Threads, pc[th] \notin NoObject,
           NEW m \in Object, m.sid = sid[th]
    PROVE  /\ Unlocked(th, m) \in Heaps
           /\ Unlocked(th, m)[ref[th]] = [m EXCEPT !.lock = Null]
           /\ \A o \in Objects \ {ref[th]} : Unlocked(th, m)[o] = heap[o]
           /\ \A o \in Objects : Unlocked(th, m)[o].sid = heap[o].sid
<1>1. ref[th] \in Objects /\ heap \in Heaps /\ heap[ref[th]].sid = sid[th]
  BY HasObject DEF Mine
<1>2. /\ [m EXCEPT !.lock = Null] \in Object
      /\ [m EXCEPT !.lock = Null].sid = m.sid
  BY DEF Object
<1>. QED  BY <1>1, <1>2 DEF Unlocked, With, Heaps

LEMMA UnlocksEffect ==
    ASSUME MemInv, NEW th \in Threads, ApproveDenied(th) \/ ReplyIdle(th)
    PROVE  /\ MemInv' /\ Only(th) /\ SidsStay /\ Ends(th)
           /\ Becomes(Unlocked(th, Mine(th))) /\ pc[th] = "locked"
           /\ reg' = reg /\ UNCHANGED storeVars
<1>0. StateOK /\ heap \in Heaps /\ reg \in SUBSET Objects
  BY DEF MemInv, StateOK, Heaps
<1>1. /\ EndThread(th) /\ Memory(Unlocked(th, Mine(th)), reg, Drop(th))
      /\ pc[th] = "locked" /\ UNCHANGED storeVars
  BY DEF ApproveDenied, ReplyIdle
<1>2. /\ Unlocked(th, Mine(th)) \in Heaps
      /\ \A o \in Objects : Unlocked(th, Mine(th))[o].sid = heap[o].sid
  BY <1>1, HasObject, UnlockedFacts DEF NoObject
<1>3. StoreOK' /\ Rows(th)
  BY <1>0, <1>1, StoreStays DEF Rows, storeVars
<1>4. /\ StateOK' /\ Only(th) /\ SidsStay /\ Ends(th)
      /\ Becomes(Unlocked(th, Mine(th)))
  BY <1>0, <1>1, <1>2, <1>3, EndEffect
<1>5. reg' = reg
  BY <1>1 DEF Memory
<1>6. MemInv'
  BY <1>3, <1>4, EndsKeeps
<1>. QED  BY <1>1, <1>4, <1>5, <1>6

\* What a reply with a new proposal makes of the objects.
Proposed(th) ==
    [o \in Objects |->
        IF o = ref[th]
        THEN [Mine(th) EXCEPT !.phase = "approve", !.newest = TRUE,
                              !.lock = Null]
        ELSE IF heap[o].sid = sid[th]
             THEN [heap[o] EXCEPT !.newest = FALSE] ELSE heap[o]]

LEMMA ProposesEffect ==
    ASSUME MemInv, NEW th \in Threads, ReplyProposes(th)
    PROVE  /\ MemInv' /\ Only(th) /\ SidsStay /\ Ends(th)
           /\ Becomes(Proposed(th)) /\ pc[th] = "locked"
           /\ reg' = reg /\ row' = row /\ last' = last
           /\ spec' = [spec EXCEPT ![sid[th]] = "proposed"]
<1>0. StateOK /\ heap \in Heaps /\ reg \in SUBSET Objects
  BY DEF MemInv, StateOK, Heaps
<1>1. /\ EndThread(th) /\ Memory(Proposed(th), reg, Drop(th))
      /\ pc[th] = "locked" /\ row' = row /\ last' = last /\ open' = open
      /\ spec' = [spec EXCEPT ![sid[th]] = "proposed"]
  BY DEF ReplyProposes, Proposed
<1>2. ref[th] \in Objects /\ Mine(th) \in Object /\ heap[ref[th]] = Mine(th)
  BY <1>1, HasObject DEF NoObject, Mine
<1>3. ASSUME NEW o \in Objects
      PROVE  Proposed(th)[o] \in Object /\ Proposed(th)[o].sid = heap[o].sid
  <2>1. heap[o] \in Object
    BY <1>0 DEF Heaps
  <2>2. /\ [heap[o] EXCEPT !.newest = FALSE] \in Object
        /\ [heap[o] EXCEPT !.newest = FALSE].sid = heap[o].sid
    BY <2>1 DEF Object
  <2>3. /\ [Mine(th) EXCEPT !.phase = "approve", !.newest = TRUE,
                            !.lock = Null] \in Object
        /\ [Mine(th) EXCEPT !.phase = "approve", !.newest = TRUE,
                            !.lock = Null].sid = Mine(th).sid
    BY <1>2 DEF Object, Phases
  <2>. QED  BY <1>2, <2>1, <2>2, <2>3 DEF Proposed
<1>4. Proposed(th) \in Heaps
  <2>1. Proposed(th) = [o \in Objects |-> Proposed(th)[o]]
    BY DEF Proposed
  <2>. QED  BY <1>3, <2>1 DEF Heaps
<1>5. StoreOK' /\ Rows(th)
  BY <1>0, <1>1 DEF StateOK, StoreOK, Rows
<1>6. /\ StateOK' /\ Only(th) /\ SidsStay /\ Ends(th)
      /\ Becomes(Proposed(th))
  BY <1>0, <1>1, <1>3, <1>4, <1>5, EndEffect
<1>7. reg' = reg
  BY <1>1 DEF Memory
<1>8. MemInv'
  BY <1>5, <1>6, EndsKeeps
<1>. QED  BY <1>1, <1>6, <1>7, <1>8

LEMMA WithFacts ==
    ASSUME MemInv, NEW th \in Threads, pc[th] \notin NoObject,
           NEW m \in Object
    PROVE  /\ With(th, m) \in Heaps /\ With(th, m)[ref[th]] = m
           /\ \A o \in Objects \ {ref[th]} : With(th, m)[o] = heap[o]
           /\ m.sid = sid[th] =>
                 \A o \in Objects : With(th, m)[o].sid = heap[o].sid
<1>1. ref[th] \in Objects /\ heap \in Heaps /\ heap[ref[th]].sid = sid[th]
  BY HasObject DEF Mine
<1>. QED  BY <1>1 DEF With, Heaps

\* What the end of a build makes of its object.
Settled(th) == [Mine(th) EXCEPT !.status = out[th], !.closed = TRUE]

LEMMA SettleEffect ==
    ASSUME MemInv, NEW th \in Threads, Settle(th), out[th] \in Outcomes
    PROVE  /\ MemInv' /\ Only(th) /\ SidsStay /\ Ends(th)
           /\ Becomes(With(th, Settled(th)))
           /\ reg' = reg /\ UNCHANGED storeVars
<1>0. StateOK /\ heap \in Heaps /\ reg \in SUBSET Objects
  BY DEF MemInv, StateOK, Heaps
<1>1. /\ EndThread(th) /\ Memory(With(th, Settled(th)), reg, Drop(th))
      /\ pc[th] = "settle" /\ UNCHANGED storeVars
  BY DEF Settle, Settled
<1>2. Mine(th) \in Object /\ Mine(th).sid = sid[th]
  BY <1>1, HasObject DEF NoObject
<1>3. Settled(th) \in Object /\ Settled(th).sid = sid[th]
  BY <1>2 DEF Settled, Object, BuildState
<1>4. /\ With(th, Settled(th)) \in Heaps
      /\ \A o \in Objects : With(th, Settled(th))[o].sid = heap[o].sid
  BY <1>1, <1>3, WithFacts DEF NoObject
<1>5. StoreOK' /\ Rows(th)
  BY <1>0, <1>1, StoreStays DEF Rows, storeVars
<1>6. /\ StateOK' /\ Only(th) /\ SidsStay /\ Ends(th)
      /\ Becomes(With(th, Settled(th)))
  BY <1>0, <1>1, <1>4, <1>5, EndEffect
<1>7. reg' = reg
  BY <1>1 DEF Memory
<1>8. MemInv'
  BY <1>5, <1>6, EndsKeeps
<1>. QED  BY <1>1, <1>6, <1>7, <1>8

\* A step that leaves the objects alone.
Walks(th) ==
    \/ Miss(th) \/ MarkBuilding(th) \/ DeleteAllowed(th) \/ StreamOpens(th)
    \/ Pin(th)

\* Where such a step leads.
Path(th, label) ==
    CASE pc[th] = "get"   -> label = "specs"
      [] pc[th] = "build" -> label = "marked"
      [] pc[th] = "check" -> label \in {"pop", "pin"}
      [] pc[th] = "pin"   ->
            label = IF BuildBegun(ref[th]) THEN "follow" ELSE "early"
      [] OTHER            -> FALSE

\* The thread goes on with all objects as they were.
Steps(th) ==
    /\ Stays(th) /\ heap' = heap /\ reg' = reg /\ ref' = ref /\ sid' = sid
    /\ op' = op /\ spec' = spec

LEMMA WalksEffect ==
    ASSUME MemInv, NEW th \in Threads, Walks(th)
    PROVE  /\ MemInv' /\ Only(th) /\ Steps(th)
           /\ last' = last /\ out' = out
           /\ Path(th, pc'[th])
<1>0. StateOK
  BY DEF MemInv
<1>1. PICK label \in {"specs", "marked", "pop", "pin", "early", "follow"} :
        /\ Go(th, label) /\ spec' = spec /\ last' = last /\ heap' = heap
        /\ open' = open
        /\ reg' = reg /\ older' = older /\ ref' = ref
        /\ Path(th, label)
        /\ row' = row \/ row' = [row EXCEPT ![sid[th]] = "live"]
  BY DEF Walks, Miss, MarkBuilding, DeleteAllowed, StreamOpens, Pin, storeVars,
     Path
<1>2. /\ label \in ThreadPc /\ label \notin {"start", "register", "idle"}
      /\ label \notin Private /\ pc[th] \notin {"start", "register", "idle"}
      /\ label \in NoObject <=> pc[th] \in NoObject
  BY <1>1 DEF ThreadPc, HandlerPc, BuildPc, StreamPc, Private, NoObject, Path
<1>3. StoreOK' /\ Rows(th)
  BY <1>0, <1>1 DEF StateOK, StoreOK, Rows
<1>4. heap' \in Heaps
  BY <1>0, <1>1 DEF StateOK, Heaps
<1>5. /\ StateOK' /\ Only(th) /\ pc'[th] = label
      /\ op' = op /\ sid' = sid /\ out' = out
  BY <1>1, <1>2, <1>3, <1>4, GoEffect
<1>6. SidsStay
  BY <1>1 DEF SidsStay
<1>7. Stays(th)
  BY <1>1, <1>2, <1>5 DEF Stays
<1>8. MemInv'
  BY <1>3, <1>5, <1>6, <1>7, StaysKeeps
<1>. QED  BY <1>1, <1>5, <1>7, <1>8 DEF Steps

\* A build has ended: its rows say how, and its thread goes on to settle.
LEMMA BuildEndsEffect ==
    ASSUME MemInv, NEW th \in Threads, NEW outcome \in Outcomes,
           \/ Built(th, outcome)
           \/ Blocked(th) /\ outcome = "failed"
    PROVE  /\ MemInv' /\ Only(th) /\ Steps(th)
           /\ pc[th] \in {"build", "marked"} /\ pc'[th] = "settle"
           /\ out'[th] = outcome
           /\ \A x \in Threads : x # th => pc'[x] = pc[x]
<1>0. StateOK
  BY DEF MemInv
<1>1. /\ pc[th] \in {"build", "marked"} /\ spec' = spec /\ heap' = heap
      /\ reg' = reg /\ older' = older /\ ref' = ref /\ op' = op /\ sid' = sid
      /\ pc' = [pc EXCEPT ![th] = "settle"]
      /\ out' = [out EXCEPT ![th] = outcome]
  BY DEF Built, Blocked, storeVars
<1>2. /\ row' = row \/ row' = [row EXCEPT ![sid[th]] = "live"]
      /\ last' = last \/ last' = [last EXCEPT ![sid[th]] = outcome]
      /\ open' = open \/ open' = open \cup {sid[th]}
      /\ sid[th] \in Sessions
  BY <1>0, <1>1 DEF Built, Recorded, Blocked, storeVars, MemInv, RefInv, StateOK
<1>3. /\ pc' \in [Threads -> ThreadPc] /\ pc'[th] = "settle"
      /\ \A x \in Threads : x # th => pc'[x] = pc[x]
      /\ out' \in [Threads -> Outcomes \cup {"none"}] /\ out'[th] = outcome
      /\ \A x \in Threads : x # th => out'[x] = out[x]
  BY <1>0, <1>1 DEF StateOK, ThreadPc, BuildPc
<1>4. StoreOK' /\ Rows(th)
  BY <1>0, <1>1, <1>2 DEF StateOK, StoreOK, Rows
<1>5. StateOK' /\ Only(th) /\ SidsStay
  BY <1>0, <1>1, <1>3, <1>4 DEF StateOK, StoreOK, Only, SidsStay
<1>6. op[th] # "start"
  BY <1>1 DEF MemInv, StartInv
<1>7. Stays(th)
  BY <1>1, <1>3, <1>6 DEF Stays, NoObject, Private
<1>8. MemInv'
  BY <1>4, <1>5, <1>7, StaysKeeps
<1>. QED  BY <1>1, <1>3, <1>5, <1>7, <1>8 DEF Steps

\* A step that makes m of the thread's own object.
LEMMA WriteEffect ==
    ASSUME MemInv, NEW th \in Threads, StoreOK', Rows(th),
           NEW label \in ThreadPc, Go(th, label), NEW m \in Object,
           heap' = With(th, m), m.sid = Mine(th).sid,
           reg' = reg, older' = older, ref' = ref,
           pc[th] \notin NoObject, label \notin NoObject,
           label \in Private => pc[th] \in Private,
           label \in {"start", "register"} <=> pc[th] \in {"start", "register"},
           op[th] = "start" => last' = last
    PROVE  /\ MemInv' /\ Only(th) /\ SidsStay /\ Stays(th)
           /\ pc'[th] = label /\ out' = out /\ sid' = sid /\ op' = op
           /\ heap'[ref[th]] = m /\ ref[th] \in Objects
           /\ \A o \in Objects \ {ref[th]} : heap'[o] = heap[o]
           /\ \A x \in Threads : x # th => pc'[x] = pc[x]
<1>1. /\ ref[th] \in Objects /\ Mine(th).sid = sid[th]
  BY HasObject
<1>2. /\ heap' \in Heaps /\ heap'[ref[th]] = m
      /\ \A o \in Objects \ {ref[th]} : heap'[o] = heap[o]
      /\ \A o \in Objects : heap'[o].sid = heap[o].sid
  BY <1>1, WithFacts
<1>3. /\ StateOK' /\ Only(th) /\ pc'[th] = label
      /\ op' = op /\ sid' = sid /\ out' = out
  BY <1>2, GoEffect
<1>4. SidsStay
  BY <1>2 DEF SidsStay
<1>5. Stays(th)
  BY <1>3 DEF Stays, NoObject
<1>6. MemInv'
  BY <1>3, <1>4, <1>5, StaysKeeps
<1>7. \A x \in Threads : x # th => pc'[x] = pc[x]
  BY GoFacts DEF MemInv
<1>. QED  BY <1>1, <1>2, <1>3, <1>4, <1>5, <1>6, <1>7

\* A step of th makes m of its object, goes to label and leaves the rows.
Rewrites(th, m, label) ==
    /\ Only(th) /\ SidsStay /\ Stays(th) /\ pc'[th] = label
    /\ out' = out /\ sid' = sid /\ op' = op /\ reg' = reg /\ ref' = ref
    /\ heap'[ref[th]] = m /\ ref[th] \in Objects
    /\ \A o \in Objects \ {ref[th]} : heap'[o] = heap[o]
    /\ \A x \in Threads : x # th => pc'[x] = pc[x]

LEMMA FirstTurnEffect ==
    ASSUME MemInv, NEW th \in Threads, NEW phase \in {"clarify", "approve"},
           FirstTurn(th, phase)
    PROVE  /\ MemInv' /\ pc[th] = "start" /\ row' = row /\ last' = last
           /\ spec' = [spec EXCEPT ![sid[th]] =
                          IF phase = "clarify" THEN "asked" ELSE "proposed"]
           /\ Rewrites(th, [Mine(th) EXCEPT !.phase = phase], "register")
<1>. DEFINE m == [Mine(th) EXCEPT !.phase = phase]
<1>1. /\ pc[th] = "start" /\ row' = row /\ last' = last /\ open' = open
      /\ spec' = [spec EXCEPT ![sid[th]] =
                     IF phase = "clarify" THEN "asked" ELSE "proposed"]
      /\ heap' = With(th, m) /\ Go(th, "register")
      /\ reg' = reg /\ older' = older /\ ref' = ref
  BY DEF FirstTurn
<1>2. Mine(th) \in Object
  BY <1>1, HasObject DEF NoObject
<1>3. m \in Object /\ m.sid = Mine(th).sid
  BY <1>2 DEF Object, Phases
<1>4. StoreOK' /\ Rows(th)
  BY <1>1 DEF MemInv, StateOK, StoreOK, Rows
<1>5. /\ "register" \in ThreadPc /\ pc[th] \notin NoObject
      /\ "register" \notin NoObject /\ pc[th] \in Private
  BY <1>1 DEF ThreadPc, HandlerPc, NoObject, Private
<1>. HIDE DEF m
<1>6. MemInv' /\ Rewrites(th, m, "register")
  BY <1>1, <1>3, <1>4, <1>5, WriteEffect DEF Rewrites
<1>. QED  BY <1>1, <1>6 DEF m

\* What hydration makes of a session's object.
Hydrated(th) ==
    LET status == ResumedStatus(last[sid[th]], Mine(th).phase) IN
    [Mine(th) EXCEPT !.status = status, !.closed = (status # "idle")]

LEMMA ReadBuildsEffect ==
    ASSUME MemInv, NEW th \in Threads, ReadBuilds(th)
    PROVE  /\ MemInv' /\ pc[th] = "builds" /\ UNCHANGED storeVars
           /\ Rewrites(th, Hydrated(th), "insert")
           /\ ResumedStatus(last[sid[th]], Mine(th).phase)
                \in Outcomes \cup {"idle"}
<1>1. /\ pc[th] = "builds" /\ UNCHANGED storeVars
      /\ heap' = With(th, Hydrated(th)) /\ Go(th, "insert")
      /\ reg' = reg /\ older' = older /\ ref' = ref
  BY DEF ReadBuilds, Hydrated
<1>2. Mine(th) \in Object /\ sid[th] \in Sessions
  BY <1>1, HasObject DEF NoObject
<1>3. ResumedStatus(last[sid[th]], Mine(th).phase) \in Outcomes \cup {"idle"}
  BY <1>2 DEF MemInv, StateOK, ResumedStatus, Outcomes
<1>4. Hydrated(th) \in Object /\ Hydrated(th).sid = Mine(th).sid
  <2>. DEFINE status == ResumedStatus(last[sid[th]], Mine(th).phase)
  <2>1. status \in BuildState /\ (status # "idle") \in BOOLEAN
    BY <1>3 DEF BuildState
  <2>. HIDE DEF status
  <2>2. /\ [Mine(th) EXCEPT !.status = status, !.closed = (status # "idle")]
             \in Object
        /\ [Mine(th) EXCEPT !.status = status, !.closed = (status # "idle")].sid
             = Mine(th).sid
    BY <1>2, <2>1 DEF Object
  <2>. QED  BY <2>2 DEF Hydrated, status
<1>5. StoreOK' /\ Rows(th)
  BY <1>1, StoreStays DEF MemInv, Rows, storeVars
<1>6. /\ "insert" \in ThreadPc /\ pc[th] \notin NoObject
      /\ "insert" \notin NoObject /\ pc[th] \in Private /\ op[th] # "start"
  BY <1>1 DEF ThreadPc, HandlerPc, NoObject, Private, MemInv, StartInv
<1>7. MemInv' /\ Rewrites(th, Hydrated(th), "insert")
  BY <1>1, <1>4, <1>5, <1>6, WriteEffect DEF Rewrites
<1>. QED  BY <1>1, <1>3, <1>7

LEMMA LockEffect ==
    ASSUME MemInv, NEW th \in Threads, Lock(th)
    PROVE  /\ MemInv' /\ pc[th] = "check" /\ UNCHANGED storeVars
           /\ heap[ref[th]].lock = Null
           /\ Rewrites(th, [Mine(th) EXCEPT !.lock = th], "locked")
<1>. DEFINE m == [Mine(th) EXCEPT !.lock = th]
<1>1. /\ pc[th] = "check" /\ UNCHANGED storeVars /\ Mine(th).lock = Null
      /\ heap' = With(th, m) /\ Go(th, "locked")
      /\ reg' = reg /\ older' = older /\ ref' = ref
  BY DEF Lock
<1>2. Mine(th) \in Object
  BY <1>1, HasObject DEF NoObject
<1>3. m \in Object /\ m.sid = Mine(th).sid
  BY <1>2 DEF Object
<1>4. StoreOK' /\ Rows(th)
  BY <1>1, StoreStays DEF MemInv, Rows, storeVars
<1>5. /\ "locked" \in ThreadPc /\ pc[th] \notin NoObject
      /\ "locked" \notin NoObject /\ "locked" \notin Private
      /\ op[th] # "start"
  BY <1>1 DEF ThreadPc, HandlerPc, NoObject, Private, MemInv, StartInv
<1>. HIDE DEF m
<1>6. MemInv' /\ Rewrites(th, m, "locked")
  BY <1>1, <1>3, <1>4, <1>5, WriteEffect DEF Rewrites
<1>. QED  BY <1>1, <1>6 DEF m, Mine

\* What an approval makes of its object: a retry leaves it.
Granted(th) ==
    IF MayRetry(Mine(th)) THEN Mine(th)
    ELSE [Mine(th) EXCEPT !.phase = "approved"]

LEMMA ApproveEffect ==
    ASSUME MemInv, NEW th \in Threads, Approve(th)
    PROVE  /\ MemInv' /\ pc[th] = "locked" /\ op[th] = "approve"
           /\ row' = row /\ last' = last /\ Mine(th).status # "building"
           /\ spec' = IF ~MayRetry(Mine(th)) /\ Mine(th).newest
                      THEN [spec EXCEPT ![sid[th]] = "approved"] ELSE spec
           /\ Rewrites(th, Granted(th), "begin")
<1>1. /\ pc[th] = "locked" /\ op[th] = "approve"
      /\ row' = row /\ last' = last /\ open' = open
      /\ Mine(th).status # "building"
      /\ spec' = IF ~MayRetry(Mine(th)) /\ Mine(th).newest
                 THEN [spec EXCEPT ![sid[th]] = "approved"] ELSE spec
      /\ Go(th, "begin") /\ reg' = reg /\ older' = older /\ ref' = ref
  BY DEF Approve
<1>2. Mine(th) \in Object /\ heap \in Heaps /\ ref[th] \in Objects
  BY <1>1, HasObject DEF NoObject
<1>3. heap' = With(th, Granted(th))
  <2>1. CASE MayRetry(Mine(th))
    <3>1. heap' = heap /\ Granted(th) = Mine(th)
      BY <2>1 DEF Approve, Granted
    <3>2. heap = [heap EXCEPT ![ref[th]] = heap[ref[th]]]
      BY <1>2 DEF Heaps
    <3>. QED  BY <3>1, <3>2 DEF With, Mine
  <2>2. CASE ~MayRetry(Mine(th))
    BY <2>2 DEF Approve, Granted
  <2>. QED  BY <2>1, <2>2
<1>4. Granted(th) \in Object /\ Granted(th).sid = Mine(th).sid
  BY <1>2 DEF Granted, Object, Phases
<1>5. StoreOK' /\ Rows(th)
  BY <1>1 DEF MemInv, StateOK, StoreOK, Rows
<1>6. /\ "begin" \in ThreadPc /\ pc[th] \notin NoObject
      /\ "begin" \notin NoObject /\ "begin" \notin Private
      /\ op[th] # "start"
  BY <1>1 DEF ThreadPc, HandlerPc, NoObject, Private, MemInv, StartInv
<1>7. MemInv' /\ Rewrites(th, Granted(th), "begin")
  BY <1>1, <1>3, <1>4, <1>5, <1>6, WriteEffect DEF Rewrites
<1>. QED  BY <1>1, <1>7

\* What the start of a build makes of its object.
Begun(th) ==
    [Mine(th) EXCEPT !.status = "building", !.closed = FALSE, !.lock = Null]

LEMMA BeginBuildEffect ==
    ASSUME MemInv, NEW th \in Threads, BeginBuild(th)
    PROVE  /\ MemInv' /\ pc[th] = "begin" /\ UNCHANGED storeVars
           /\ Only(th) /\ SidsStay /\ Stays(th) /\ pc'[th] = "build"
           /\ out' = out /\ sid' = sid /\ op' = op /\ reg' = reg /\ ref' = ref
           /\ heap'[ref[th]] = Begun(th) /\ ref[th] \in Objects
           /\ \A o \in Objects \ {ref[th]} : heap'[o] = heap[o]
           /\ \A x \in Threads : x # th =>
                 IF ref[x] = ref[th] /\ pc[x] = "follow"
                 THEN pc'[x] = (IF heap[ref[x]].closed THEN "replay" ELSE "orphan")
                 ELSE pc'[x] = pc[x]
<1>0. StateOK
  BY DEF MemInv
<1>1. /\ pc[th] = "begin" /\ UNCHANGED storeVars
      /\ heap' = Unlocked(th, [Mine(th) EXCEPT !.status = "building",
                                               !.closed = FALSE])
      /\ pc' = [KeepPinned(ref[th]) EXCEPT ![th] = "build"]
      /\ reg' = reg /\ older' = older /\ ref' = ref /\ op' = op /\ sid' = sid
      /\ out' = out
  BY DEF BeginBuild
<1>2. Mine(th) \in Object /\ ref[th] \in Objects /\ Mine(th).sid = sid[th]
  BY <1>1, HasObject DEF NoObject
<1>3. heap' = With(th, Begun(th))
  BY <1>1, <1>2 DEF Unlocked, Begun, Object
<1>4. Begun(th) \in Object /\ Begun(th).sid = sid[th]
  BY <1>2 DEF Begun, Object, BuildState
<1>5. /\ heap' \in Heaps /\ heap'[ref[th]] = Begun(th)
      /\ \A o \in Objects \ {ref[th]} : heap'[o] = heap[o]
      /\ \A o \in Objects : heap'[o].sid = heap[o].sid
  BY <1>1, <1>3, <1>4, WithFacts DEF NoObject
<1>6. \A x \in Threads : pc'[x] =
         IF x = th THEN "build"
         ELSE IF ref[x] = ref[th] /\ pc[x] = "follow"
         THEN IF heap[ref[th]].closed THEN "replay" ELSE "orphan" ELSE pc[x]
  BY <1>1 DEF KeepPinned
<1>7. pc' \in [Threads -> ThreadPc]
  <2>1. pc' = [x \in Threads |-> pc'[x]]
    BY <1>1 DEF KeepPinned
  <2>2. \A x \in Threads : pc'[x] \in ThreadPc
    BY <1>0, <1>6 DEF StateOK, ThreadPc, BuildPc, StreamPc
  <2>. QED  BY <2>1, <2>2
<1>8. StoreOK' /\ Rows(th)
  BY <1>0, <1>1, StoreStays DEF Rows, storeVars
<1>9. StateOK'
  BY <1>0, <1>1, <1>5, <1>7, <1>8 DEF StateOK, StoreOK, Heaps
<1>10. \A x \in Threads : x # th =>
          IF ref[x] = ref[th] /\ pc[x] = "follow"
          THEN pc'[x] = (IF heap[ref[x]].closed THEN "replay" ELSE "orphan")
                 ELSE pc'[x] = pc[x]
  BY <1>6
<1>11. Only(th)
  BY <1>1, <1>10 DEF Only
<1>12. SidsStay /\ op[th] # "start"
  BY <1>1, <1>5 DEF SidsStay, MemInv, StartInv
<1>13. Stays(th)
  BY <1>1, <1>6, <1>12 DEF Stays, NoObject, Private
<1>14. MemInv'
  BY <1>8, <1>9, <1>11, <1>12, <1>13, StaysKeeps
<1>. QED
  BY <1>1, <1>2, <1>5, <1>6, <1>10, <1>11, <1>12, <1>13, <1>14

LEMMA PopEffect ==
    ASSUME MemInv, NEW th \in Threads, Pop(th)
    PROVE  /\ MemInv' /\ Only(th) /\ SidsStay /\ Stays(th) /\ Becomes(heap)
           /\ pc[th] = "pop" /\ pc'[th] = "tombstone"
           /\ UNCHANGED storeVars /\ ref' = ref /\ sid' = sid /\ op' = op
           /\ out' = out /\ \A x \in Threads : x # th => pc'[x] = pc[x]
<1>0. StateOK /\ heap \in Heaps /\ ref \in Refs
  BY DEF MemInv, StateOK, Heaps, Refs
<1>1. /\ pc[th] = "pop" /\ UNCHANGED storeVars /\ Go(th, "tombstone")
      /\ Memory(heap, reg \ Lookup(sid[th]), ref)
  BY DEF Pop
<1>2. reg \ Lookup(sid[th]) \in SUBSET Objects
  BY <1>0 DEF StateOK
<1>3. /\ heap' \in Heaps /\ reg' = reg \ Lookup(sid[th]) /\ ref' = ref
      /\ older' \in SUBSET (reg' \X reg')
      /\ \A o \in Objects : heap'[o] = heap[o] \/ Freed(o)
  BY <1>0, <1>1, <1>2, MemoryFacts
<1>4. "tombstone" \in ThreadPc
  BY DEF ThreadPc, HandlerPc
<1>5. /\ pc' \in [Threads -> ThreadPc] /\ pc'[th] = "tombstone"
      /\ \A x \in Threads : x # th => pc'[x] = pc[x]
      /\ op' = op /\ sid' = sid /\ out' = out
  BY <1>0, <1>1, <1>4, GoFacts
<1>6. StoreOK' /\ Rows(th)
  BY <1>0, <1>1, StoreStays DEF Rows, storeVars
<1>7. reg' \in SUBSET Objects
  BY <1>2, <1>3
<1>8. StateOK'
  BY <1>0, <1>3, <1>5, <1>6, <1>7 DEF StateOK, StoreOK, Heaps
<1>9. Only(th) /\ SidsStay /\ Becomes(heap)
  BY <1>3, <1>5 DEF Only, SidsStay, Becomes
<1>10. op[th] # "start"
  BY <1>1 DEF MemInv, StartInv
<1>11. Stays(th)
  BY <1>1, <1>3, <1>5, <1>10 DEF Stays, NoObject, Private
<1>12. MemInv'
  BY <1>6, <1>8, <1>9, <1>11, StaysKeeps
<1>. QED  BY <1>1, <1>3, <1>5, <1>9, <1>11, <1>12

LEMMA HitEffect ==
    ASSUME MemInv, NEW th \in Threads, Hit(th)
    PROVE  /\ MemInv' /\ Only(th) /\ Finds(th) /\ UNCHANGED storeVars
           /\ pc[th] = "get" /\ heap' = heap /\ reg' = reg
           /\ ref'[th] \in Lookup(sid[th])
           /\ \A x \in Threads : x # th => pc'[x] = pc[x]
<1>0. StateOK
  BY DEF MemInv
<1>1. PICK o \in Lookup(sid[th]) : ref' = [ref EXCEPT ![th] = o]
  BY DEF Hit
<1>2. /\ pc[th] = "get" /\ Go(th, "check") /\ UNCHANGED storeVars
      /\ heap' = heap /\ reg' = reg /\ older' = older
  BY DEF Hit
<1>3. o \in Objects
  BY <1>0 DEF Lookup, StateOK
<1>4. /\ ref' \in [Threads -> Objects \cup {Null}] /\ ref'[th] = o
      /\ \A x \in Threads : x # th => ref'[x] = ref[x]
  BY <1>0, <1>1, <1>3 DEF StateOK
<1>5. "check" \in ThreadPc
  BY DEF ThreadPc, HandlerPc
<1>6. /\ pc' \in [Threads -> ThreadPc] /\ pc'[th] = "check"
      /\ \A x \in Threads : x # th => pc'[x] = pc[x]
      /\ op' = op /\ sid' = sid /\ out' = out
  BY <1>0, <1>2, <1>5, GoFacts
<1>7. StoreOK' /\ Rows(th)
  BY <1>0, <1>2, StoreStays DEF Rows, storeVars
<1>8. StateOK'
  BY <1>0, <1>2, <1>4, <1>6, <1>7 DEF StateOK, StoreOK
<1>9. Only(th) /\ SidsStay
  BY <1>2, <1>4, <1>6 DEF Only, SidsStay
<1>10. Finds(th)
  BY <1>2, <1>4, <1>6 DEF Finds
<1>11. MemInv'
  BY <1>7, <1>8, <1>9, <1>10, FindsKeeps
<1>. QED  BY <1>2, <1>4, <1>6, <1>9, <1>10, <1>11

LEMMA InsertEffect ==
    ASSUME MemInv, NEW th \in Threads, Insert(th)
    PROVE  /\ MemInv' /\ Only(th) /\ SidsStay /\ Finds(th) /\ Becomes(heap)
           /\ UNCHANGED storeVars /\ pc[th] = "insert"
           /\ \/ Lookup(sid[th]) = {} /\ reg' = RoomFor(ref[th]) /\ ref' = ref
              \/ ref'[th] \in Lookup(sid[th]) /\ reg' = reg
           /\ \A x \in Threads : x # th => pc'[x] = pc[x]
<1>0. StateOK /\ heap \in Heaps /\ ref \in Refs
  BY DEF MemInv, StateOK, Heaps, Refs
<1>1. pc[th] = "insert" /\ Go(th, "check") /\ UNCHANGED storeVars
  BY DEF Insert
<1>2. ref[th] \in Objects
  BY <1>1, HasObject DEF NoObject
<1>3. PICK rg \in SUBSET Objects, rf \in Refs :
        /\ Memory(heap, rg, rf) /\ \A x \in Threads : x # th => rf[x] = ref[x]
        /\ \/ Lookup(sid[th]) = {} /\ rg = RoomFor(ref[th]) /\ rf = ref
           \/ rf[th] \in Lookup(sid[th]) /\ rg = reg
  <2>1. CASE Lookup(sid[th]) = {}
    <3>1. Memory(heap, RoomFor(ref[th]), ref)
      BY <2>1 DEF Insert
    <3>2. RoomFor(ref[th]) \in SUBSET Objects
      BY <1>0, <1>2 DEF RoomFor, StateOK
    <3>. QED  BY <1>0, <2>1, <3>1, <3>2
  <2>2. CASE Lookup(sid[th]) # {}
    <3>1. PICK o \in Lookup(sid[th]) :
            Memory(heap, reg, [ref EXCEPT ![th] = o])
      BY <2>2 DEF Insert
    <3>. DEFINE rf == [ref EXCEPT ![th] = o]
    <3>2. /\ rf \in Refs /\ rf[th] = o
          /\ \A x \in Threads : x # th => rf[x] = ref[x]
      BY <1>0 DEF Lookup, StateOK, Refs
    <3>3. Memory(heap, reg, rf) /\ reg \in SUBSET Objects
      BY <1>0, <3>1 DEF StateOK
    <3>. QED  BY <3>2, <3>3
  <2>. QED  BY <2>1, <2>2
<1>4. /\ heap' \in Heaps /\ reg' = rg /\ ref' = rf
      /\ older' \in SUBSET (reg' \X reg')
      /\ \A o \in Objects : heap'[o] = heap[o] \/ Freed(o)
  BY <1>0, <1>3, MemoryFacts
<1>5. "check" \in ThreadPc
  BY DEF ThreadPc, HandlerPc
<1>6. /\ pc' \in [Threads -> ThreadPc] /\ pc'[th] = "check"
      /\ \A x \in Threads : x # th => pc'[x] = pc[x]
      /\ op' = op /\ sid' = sid /\ out' = out
  BY <1>0, <1>1, <1>5, GoFacts
<1>7. StoreOK' /\ Rows(th)
  BY <1>0, <1>1, StoreStays DEF Rows, storeVars
<1>8. StateOK'
  BY <1>0, <1>3, <1>4, <1>6, <1>7 DEF StateOK, StoreOK, Heaps, Refs
<1>9. Only(th) /\ SidsStay /\ Becomes(heap)
  BY <1>3, <1>4, <1>6 DEF Only, SidsStay, Becomes
<1>10. \/ Lookup(sid[th]) = {} /\ reg' = RoomFor(ref[th]) /\ ref' = ref
       \/ ref'[th] \in Lookup(sid[th]) /\ reg' = reg
  BY <1>3, <1>4
<1>11. Finds(th)
  BY <1>1, <1>6, <1>10 DEF Finds, RoomFor
<1>12. MemInv'
  BY <1>7, <1>8, <1>9, <1>11, FindsKeeps
<1>. QED  BY <1>1, <1>6, <1>9, <1>10, <1>11, <1>12

\* A thread without an object allocates one, which becomes m.
LEMMA AllocateEffect ==
    ASSUME MemInv, NEW th \in Threads, pc[th] \in NoObject,
           NEW m \in Object,
           Memory([heap EXCEPT ![Allocate] = m], reg,
                  [ref EXCEPT ![th] = Allocate])
    PROVE  /\ Allocate \in Objects \ Live(reg, ref)
           /\ heap' \in Heaps /\ reg' = reg /\ older' \in SUBSET (reg' \X reg')
           /\ ref' \in Refs /\ ref'[th] = Allocate /\ heap'[Allocate] = m
           /\ \A x \in Threads : x # th => ref'[x] = ref[x]
           /\ \A o \in Objects \ {Allocate} : heap'[o] = heap[o] \/ Freed(o)
<1>. DEFINE o == Allocate
            h == [heap EXCEPT ![o] = m]
            rf == [ref EXCEPT ![th] = o]
<1>0. heap \in Heaps /\ ref \in Refs /\ reg \in SUBSET Objects
  BY DEF MemInv, StateOK, Heaps, Refs
<1>1. o \in Objects \ Live(reg, ref)
  BY FreeObject DEF MemInv, RefInv
<1>. HIDE DEF o
<1>2. /\ h \in Heaps /\ h[o] = m
      /\ \A p \in Objects \ {o} : h[p] = heap[p]
  BY <1>0, <1>1 DEF Heaps
<1>3. /\ rf \in Refs /\ rf[th] = o
      /\ \A x \in Threads : x # th => rf[x] = ref[x]
  BY <1>0, <1>1 DEF Refs
<1>4. Memory(h, reg, rf)
  BY DEF o
<1>. HIDE DEF h, rf
<1>5. /\ heap' \in Heaps /\ reg' = reg /\ ref' = rf
      /\ older' \in SUBSET (reg' \X reg')
      /\ \A p \in Objects : heap'[p] = h[p] \/ Freed(p)
  BY <1>0, <1>2, <1>3, <1>4, MemoryFacts
<1>6. ~Freed(o)
  BY <1>3, <1>5 DEF Freed
<1>7. heap'[o] = m /\ \A p \in Objects \ {o} : heap'[p] = heap[p] \/ Freed(p)
  BY <1>1, <1>2, <1>5, <1>6
<1>. QED  BY <1>1, <1>3, <1>5, <1>7 DEF o

\* The object a new session starts on, and the one its rows are read into.
Started(s) == [Blank EXCEPT !.sid = s]
Resumed(s) == [Blank EXCEPT !.sid = s, !.phase = ResumedPhase(s)]

\* The thread has made the object m, and nothing else.
MakesNew(th, m) ==
    /\ Only(th) /\ Makes(th) /\ heap'[ref'[th]] = m /\ reg' = reg
    /\ \A o \in Objects \ {ref'[th]} : heap'[o] = heap[o] \/ Freed(o)
    /\ \A x \in Threads : x # th => pc'[x] = pc[x]
    /\ spec' = spec /\ last' = last /\ open' = open

LEMMA CreateEffect ==
    ASSUME MemInv, NEW th \in Threads, NEW s \in Sessions, Create(th, s)
    PROVE  /\ MemInv' /\ MakesNew(th, Started(s)) /\ pc'[th] = "start"
           /\ row[s] = "none" /\ sid'[th] = s
<1>0. StateOK
  BY DEF MemInv
<1>1. /\ pc[th] = "idle" /\ row[s] = "none" /\ row' = [row EXCEPT ![s] = "live"]
      /\ pc' = [pc EXCEPT ![th] = "start"] /\ op' = [op EXCEPT ![th] = "start"]
      /\ sid' = [sid EXCEPT ![th] = s]
      /\ spec' = spec /\ last' = last /\ open' = open /\ out' = out
      /\ Memory([heap EXCEPT ![Allocate] = Started(s)], reg,
                [ref EXCEPT ![th] = Allocate])
  BY DEF Create, Started
<1>2. Started(s) \in Object /\ Started(s).sid = s
  BY DEF Started, Blank, Object, BuildState, Phases
<1>3. /\ Allocate \in Objects \ Live(reg, ref)
      /\ heap' \in Heaps /\ reg' = reg /\ older' \in SUBSET (reg' \X reg')
      /\ ref' \in Refs /\ ref'[th] = Allocate /\ heap'[Allocate] = Started(s)
      /\ \A x \in Threads : x # th => ref'[x] = ref[x]
      /\ \A o \in Objects \ {Allocate} : heap'[o] = heap[o] \/ Freed(o)
  BY <1>1, <1>2, AllocateEffect DEF NoObject
<1>4. /\ pc' \in [Threads -> ThreadPc] /\ pc'[th] = "start"
      /\ op' \in [Threads -> RequestKinds \cup {"start", "none"}]
      /\ op'[th] = "start"
      /\ sid' \in [Threads -> Sessions \cup {Null}] /\ sid'[th] = s
      /\ \A x \in Threads : x # th =>
            pc'[x] = pc[x] /\ op'[x] = op[x] /\ sid'[x] = sid[x]
  BY <1>0, <1>1 DEF StateOK, ThreadPc, HandlerPc
<1>5. /\ row' \in [Sessions -> {"none", "live", "deleted"}]
      /\ row'[s] = "live" /\ \A t \in Sessions \ {s} : row'[t] = row[t]
  BY <1>0, <1>1 DEF StateOK
<1>6. StateOK'
  BY <1>0, <1>1, <1>3, <1>4, <1>5 DEF StateOK, Heaps, Refs
<1>7. Only(th)
  BY <1>1, <1>3, <1>4 DEF Only
<1>8. Makes(th)
  BY <1>1, <1>2, <1>3, <1>4, <1>5 DEF Makes
<1>9. MemInv'
  BY <1>1, <1>6, <1>7, <1>8, MakesKeeps
<1>. QED  BY <1>1, <1>3, <1>4, <1>7, <1>8, <1>9 DEF MakesNew

LEMMA ReadSpecsEffect ==
    ASSUME MemInv, NEW th \in Threads, ReadSpecs(th)
    PROVE  /\ MemInv' /\ MakesNew(th, Resumed(sid[th])) /\ pc[th] = "specs"
           /\ pc'[th] = "builds" /\ Resumable(sid[th]) /\ sid' = sid
           /\ op' = op /\ row' = row
<1>0. StateOK
  BY DEF MemInv
<1>1. /\ pc[th] = "specs" /\ Resumable(sid[th]) /\ Go(th, "builds")
      /\ row' = row /\ spec' = spec /\ last' = last /\ open' = open
      /\ Memory([heap EXCEPT ![Allocate] = Resumed(sid[th])], reg,
                [ref EXCEPT ![th] = Allocate])
  BY DEF ReadSpecs, Resumed, storeVars
<1>2. sid[th] \in Sessions
  BY <1>0, <1>1 DEF MemInv, RefInv, StateOK
<1>3. Resumed(sid[th]) \in Object /\ Resumed(sid[th]).sid = sid[th]
  <2>1. ResumedPhase(sid[th]) \in Phases
    BY DEF ResumedPhase, Phases
  <2>. QED  BY <1>2, <2>1 DEF Resumed, Blank, Object, BuildState
<1>4. /\ Allocate \in Objects \ Live(reg, ref)
      /\ heap' \in Heaps /\ reg' = reg /\ older' \in SUBSET (reg' \X reg')
      /\ ref' \in Refs /\ ref'[th] = Allocate
      /\ heap'[Allocate] = Resumed(sid[th])
      /\ \A x \in Threads : x # th => ref'[x] = ref[x]
      /\ \A o \in Objects \ {Allocate} : heap'[o] = heap[o] \/ Freed(o)
  BY <1>1, <1>3, AllocateEffect DEF NoObject
<1>5. "builds" \in ThreadPc
  BY DEF ThreadPc, HandlerPc
<1>6. /\ pc' \in [Threads -> ThreadPc] /\ pc'[th] = "builds"
      /\ \A x \in Threads : x # th => pc'[x] = pc[x]
      /\ op' = op /\ sid' = sid /\ out' = out
  BY <1>0, <1>1, <1>5, GoFacts
<1>7. StateOK'
  BY <1>0, <1>1, <1>4, <1>6 DEF StateOK, Heaps, Refs
<1>8. Only(th)
  BY <1>4, <1>6 DEF Only
<1>9. Makes(th)
  BY <1>1, <1>2, <1>3, <1>4, <1>6 DEF Makes
<1>10. MemInv'
  BY <1>1, <1>7, <1>8, <1>9, MakesKeeps
<1>. QED  BY <1>1, <1>4, <1>6, <1>8, <1>9, <1>10 DEF MakesNew

\* A restart forgets every object, and writes the rows of the sessions with an
\* attempt to reconcile and no others.
LEMMA RestartEffect ==
    ASSUME MemInv, Restart
    PROVE  /\ MemInv' /\ reg' = {} /\ \A o \in Objects : heap'[o] = Blank
           /\ \A s \in Sessions \ (Interrupted \cup open) : row'[s] = row[s]
           /\ open' \subseteq Interrupted \cup open
           /\ \A th \in Threads : pc'[th] = "idle" /\ op'[th] = "none"
                                  /\ ref'[th] = Null /\ sid'[th] = Null
<1>0. StateOK
  BY DEF MemInv
<1>1. /\ pc' = [th \in Threads |-> "idle"] /\ op' = [th \in Threads |-> "none"]
      /\ sid' = [th \in Threads |-> Null] /\ out' = [th \in Threads |-> "none"]
      /\ Memory(heap, {}, [th \in Threads |-> Null]) /\ spec' = spec
  BY DEF Restart
<1>2. /\ heap' = [o \in Objects |-> Blank] /\ reg' = {} /\ older' = {}
      /\ ref' = [th \in Threads |-> Null]
  BY <1>1, NullAssumption DEF Memory, Live
<1>3. Interrupted \subseteq Sessions
  BY <1>0 DEF Interrupted, MemInv, RefInv, StateOK
<1>. HIDE DEF Interrupted
<1>9. PICK failed \in SUBSET Interrupted :
         \E kept \in SUBSET (failed \cup open) : Reconciled(failed, kept)
  BY DEF Restart
<1>10. PICK kept \in SUBSET (failed \cup open) : Reconciled(failed, kept)
  BY <1>9
<1>11. /\ last' = [s \in Sessions |-> IF s \in failed THEN "failed" ELSE last[s]]
       /\ row' = [s \in Sessions |->
                    IF s \in failed \cup open THEN "live" ELSE row[s]]
       /\ open' \subseteq failed \cup open
  BY <1>10 DEF Reconciled
<1>4. StoreOK'
  BY <1>0, <1>1, <1>3, <1>11 DEF StateOK, StoreOK, Outcomes
<1>5. Blank \in Object /\ Blank.sid = Null
  BY DEF Blank, Object, BuildState, Phases
<1>6. StateOK'
  BY <1>1, <1>2, <1>4, <1>5 DEF StateOK, StoreOK, ThreadPc
<1>7. RefInv' /\ RegInv' /\ PrivateInv' /\ StartInv'
  BY <1>1, <1>2 DEF RefInv, RegInv, PrivateInv, StartInv, NoObject, Private
<1>8. RowlessInv'
  BY <1>0, <1>1, <1>2, <1>11, <1>5, NullAssumption
     DEF MemInv, RowlessInv, StateOK
<1>12. \A s \in Sessions \ (Interrupted \cup open) : row'[s] = row[s]
  BY <1>11
<1>. QED  BY <1>1, <1>2, <1>6, <1>7, <1>8, <1>11, <1>12 DEF MemInv

LEMMA MemInit == Init => MemInv
<1>. SUFFICES ASSUME Init PROVE MemInv
  OBVIOUS
<1>1. Blank \in Object /\ Blank.sid = Null
  BY DEF Blank, Object, BuildState, Phases
<1>2. StateOK
  BY <1>1 DEF Init, StateOK, ThreadPc
<1>3. RefInv /\ RegInv /\ PrivateInv /\ StartInv
  BY DEF Init, RefInv, RegInv, PrivateInv, StartInv, NoObject, Private
<1>4. RowlessInv
  BY <1>1, NullAssumption DEF Init, RowlessInv
<1>. QED  BY <1>2, <1>3, <1>4 DEF MemInv

LEMMA MemStutters ==
    ASSUME MemInv, UNCHANGED vars
    PROVE  MemInv'
BY DEF MemInv, StateOK, RefInv, RegInv, PrivateInv, RowlessInv, StartInv, vars,
   storeVars, threadVars

-----------------------------------------------------------------------------
(* Locks. *)

Holding == {"locked", "begin"}

\* A step that takes no lock, and gives back the one its thread holds.
Unlocks(th) ==
    /\ Only(th) /\ pc'[th] \notin Holding
    /\ \A o \in Objects :
          \/ heap'[o].lock = heap[o].lock /\ ~(pc[th] \in Holding /\ o = ref[th])
          \/ heap'[o].lock = Null /\ (Freed(o) \/ (pc[th] \in Holding /\ o = ref[th]))

LEMMA UnlocksKeeps ==
    ASSUME MemInv, LockInv, NEW th \in Threads, Unlocks(th)
    PROVE  LockInv'
<1>1. ASSUME NEW x \in Threads, pc'[x] \in Holding
      PROVE  heap'[ref'[x]].lock = x
  <2>1. x # th /\ pc[x] \in Holding /\ ref'[x] = ref[x]
    BY <1>1 DEF Unlocks, Only, Holding
  <2>2. /\ ref[x] \in Objects /\ heap[ref[x]].lock = x
        /\ ~Freed(ref[x])
    BY <2>1 DEF LockInv, Holding, MemInv, RefInv, NoObject, Freed
  <2>3. ~(pc[th] \in Holding /\ ref[x] = ref[th])
    BY <2>1, <2>2 DEF LockInv, Holding
  <2>. QED  BY <2>1, <2>2, <2>3 DEF Unlocks
<1>2. ASSUME NEW o \in Objects, heap'[o].lock # Null
      PROVE  pc'[heap'[o].lock] \in Holding /\ ref'[heap'[o].lock] = o
  <2>1. /\ heap'[o].lock = heap[o].lock /\ ~(pc[th] \in Holding /\ o = ref[th])
        /\ heap[o].lock # Null
    BY <1>2 DEF Unlocks
  <2>2. /\ pc[heap[o].lock] \in Holding /\ ref[heap[o].lock] = o
        /\ heap[o].lock \in Threads
    BY <2>1 DEF LockInv, Holding, MemInv, StateOK, Object
  <2>3. heap[o].lock # th
    BY <2>1, <2>2
  <2>. QED  BY <2>1, <2>2, <2>3 DEF Unlocks, Only, Holding
<1>. QED  BY <1>1, <1>2 DEF LockInv, Holding

\* The step by which th takes the lock of its object, or goes on with it.
Locks(th) ==
    /\ Only(th) /\ pc'[th] \in Holding /\ ref'[th] = ref[th]
    /\ heap'[ref[th]].lock = th
    /\ \A o \in Objects \ {ref[th]} : heap'[o] = heap[o]
    /\ pc[th] \in Holding \/ heap[ref[th]].lock = Null

LEMMA LocksKeeps ==
    ASSUME MemInv, LockInv, NEW th \in Threads, Locks(th)
    PROVE  LockInv'
<1>1. ASSUME NEW x \in Threads, pc'[x] \in Holding
      PROVE  heap'[ref'[x]].lock = x
  <2>1. CASE x = th
    BY <2>1 DEF Locks
  <2>2. CASE x # th
    <3>1. pc[x] \in Holding /\ ref'[x] = ref[x]
      BY <1>1, <2>2 DEF Locks, Only, Holding
    <3>2. ref[x] \in Objects /\ heap[ref[x]].lock = x
      BY <3>1 DEF LockInv, Holding, MemInv, RefInv, NoObject
    <3>3. ref[x] # ref[th]
      BY <2>2, <3>2, NullAssumption DEF Locks, LockInv, Holding
    <3>. QED  BY <3>1, <3>2, <3>3 DEF Locks
  <2>. QED  BY <2>1, <2>2
<1>2. ASSUME NEW o \in Objects, heap'[o].lock # Null
      PROVE  pc'[heap'[o].lock] \in Holding /\ ref'[heap'[o].lock] = o
  <2>1. CASE o = ref[th]
    BY <2>1 DEF Locks
  <2>2. CASE o # ref[th]
    <3>1. heap'[o].lock = heap[o].lock
      BY <2>2 DEF Locks
    <3>2. /\ pc[heap[o].lock] \in Holding /\ ref[heap[o].lock] = o
          /\ heap[o].lock \in Threads
      BY <1>2, <3>1 DEF LockInv, Holding, MemInv, StateOK, Object
    <3>3. heap[o].lock # th
      BY <2>2, <3>2
    <3>. QED  BY <3>1, <3>2, <3>3 DEF Locks, Only, Holding
  <2>. QED  BY <2>1, <2>2
<1>. QED  BY <1>1, <1>2 DEF LockInv, Holding

\* Objects nobody refers to are not locked.
LEMMA FreeUnlocked ==
    ASSUME MemInv, LockInv, NEW o \in Objects \ Live(reg, ref)
    PROVE  heap[o].lock = Null
<1>. SUFFICES ASSUME heap[o].lock # Null PROVE FALSE
  OBVIOUS
<1>1. heap[o].lock \in Threads /\ ref[heap[o].lock] = o
  BY DEF LockInv, MemInv, StateOK, Object
<1>. QED  BY <1>1, NullAssumption DEF Live

-----------------------------------------------------------------------------
(* Builds. *)

\* A step outside builds: it begins or ends none.
NotBuilding(th) ==
    /\ Only(th) /\ pc[th] \notin BuildPc /\ pc'[th] \notin BuildPc \cup {"begin"}
    /\ \A o \in Objects :
          \/ heap'[o].status = heap[o].status
          \/ heap'[o].status # "building" /\ heap[o].status # "building"
          \/ Freed(o)

LEMMA NotBuildingKeeps ==
    ASSUME MemInv, BuildInv, NEW th \in Threads, NotBuilding(th)
    PROVE  BuildInv'
<1>0. /\ \A x \in Threads : pc'[x] \in BuildPc \cup {"begin"} =>
            /\ x # th /\ pc'[x] = pc[x] /\ ref'[x] = ref[x] /\ out'[x] = out[x]
            /\ ref[x] \in Objects /\ ~Freed(ref[x])
      /\ \A x \in Threads : pc[x] \in BuildPc =>
            pc'[x] = pc[x] /\ ref'[x] = ref[x]
  BY DEF NotBuilding, Only, BuildPc, MemInv, RefInv, NoObject, Freed
<1>1. ASSUME NEW x \in Threads
      PROVE  /\ pc'[x] \in BuildPc => heap'[ref'[x]].status = "building"
             /\ pc'[x] = "begin" => heap'[ref'[x]].status # "building"
             /\ pc'[x] = "settle" => out'[x] \in Outcomes
  <2>1. pc'[x] \in BuildPc => heap'[ref'[x]].status = "building"
    BY <1>0 DEF NotBuilding, BuildInv
  <2>2. pc'[x] = "begin" => heap'[ref'[x]].status # "building"
    BY <1>0 DEF NotBuilding, BuildInv
  <2>3. pc'[x] = "settle" => out'[x] \in Outcomes
    BY <1>0 DEF BuildInv, BuildPc
  <2>. QED  BY <2>1, <2>2, <2>3
<1>2. \A x, y \in Threads :
        pc'[x] \in BuildPc /\ pc'[y] \in BuildPc /\ ref'[x] = ref'[y] => x = y
  BY <1>0 DEF BuildInv
<1>3. ASSUME NEW o \in Objects, heap'[o].status = "building"
      PROVE  \E x \in Threads : pc'[x] \in BuildPc /\ ref'[x] = o
  <2>1. heap[o].status = "building"
    BY <1>3 DEF NotBuilding, Freed, Blank
  <2>. QED  BY <1>0, <2>1 DEF BuildInv
<1>. QED  BY <1>1, <1>2, <1>3 DEF BuildInv

\* A build goes on: no object changes.
LEMMA BuildGoesOn ==
    ASSUME MemInv, BuildInv, NEW th \in Threads, Only(th), Steps(th),
           pc[th] \in BuildPc, pc'[th] \in BuildPc,
           pc'[th] = "settle" => out'[th] \in Outcomes
    PROVE  BuildInv'
<1>0. \A x \in Threads :
        /\ ref'[x] = ref[x]
        /\ pc'[x] \in BuildPc <=> pc[x] \in BuildPc
        /\ pc'[x] = "begin" <=> pc[x] = "begin"
        /\ x # th => out'[x] = out[x] /\ (pc'[x] = "settle" => pc[x] = "settle")
  BY DEF Only, Steps, BuildPc
<1>1. heap' = heap
  BY DEF Steps
<1>. QED  BY <1>0, <1>1 DEF BuildInv

\* An approval leaves its object without a build.
LEMMA ApproveKeepsBuilds ==
    ASSUME MemInv, BuildInv, NEW th \in Threads, Approve(th)
    PROVE  BuildInv'
<1>1. /\ pc[th] = "locked" /\ Mine(th).status # "building"
      /\ Rewrites(th, Granted(th), "begin")
  BY ApproveEffect
<1>2. Granted(th).status = Mine(th).status
  BY <1>1, HasObject DEF Granted, NoObject, Object
<1>3. \A o \in Objects : heap'[o].status = heap[o].status
  BY <1>1, <1>2 DEF Rewrites, Mine
<1>4. /\ \A x \in Threads : ref'[x] = ref[x] /\ out'[x] = out[x]
      /\ \A x \in Threads : x # th => pc'[x] = pc[x]
      /\ pc'[th] = "begin"
  BY <1>1 DEF Rewrites
<1>5. \A x \in Threads : pc[x] \in BuildPc \cup {"begin"} => ref[x] \in Objects
  BY DEF MemInv, RefInv, BuildPc, NoObject
<1>6. ref[th] \in Objects /\ heap[ref[th]].status # "building"
  BY <1>1 DEF Rewrites, Mine
<1>. QED  BY <1>1, <1>3, <1>4, <1>5, <1>6 DEF BuildInv, BuildPc

\* A build begins on an object without one; the lock keeps other approvals
\* of the object away.
LEMMA BeginKeepsBuilds ==
    ASSUME MemInv, LockInv, BuildInv, NEW th \in Threads, BeginBuild(th)
    PROVE  BuildInv'
<1>1. /\ pc[th] = "begin" /\ pc'[th] = "build" /\ out' = out /\ ref' = ref
      /\ heap'[ref[th]] = Begun(th) /\ ref[th] \in Objects
      /\ \A o \in Objects \ {ref[th]} : heap'[o] = heap[o]
      /\ \A x \in Threads : x # th =>
            IF ref[x] = ref[th] /\ pc[x] = "follow"
            THEN pc'[x] \in {"replay", "orphan"} ELSE pc'[x] = pc[x]
  BY BeginBuildEffect
<1>2. Begun(th).status = "building"
  BY <1>1, HasObject DEF Begun, NoObject, Object
<1>3. \A x \in Threads : x # th =>
        /\ pc'[x] \in BuildPc <=> pc[x] \in BuildPc
        /\ pc'[x] = "begin" <=> pc[x] = "begin"
        /\ pc'[x] = "settle" <=> pc[x] = "settle"
  BY <1>1 DEF BuildPc
<1>4. \A x \in Threads : pc[x] \in BuildPc => ref[x] # ref[th]
  BY <1>1 DEF BuildInv
<1>5. \A x \in Threads : pc[x] = "begin" /\ x # th => ref[x] # ref[th]
  BY <1>1 DEF LockInv
<1>6. \A x \in Threads : pc[x] \in BuildPc \cup {"begin"} => ref[x] \in Objects
  BY DEF MemInv, RefInv, BuildPc, NoObject
<1>7. ASSUME NEW x \in Threads
      PROVE  /\ pc'[x] \in BuildPc => heap'[ref'[x]].status = "building"
             /\ pc'[x] = "begin" => heap'[ref'[x]].status # "building"
             /\ pc'[x] = "settle" => out'[x] \in Outcomes
  <2>1. CASE x = th
    BY <1>1, <1>2, <2>1
  <2>2. CASE x # th
    BY <1>1, <1>3, <1>4, <1>5, <1>6, <2>2 DEF BuildInv
  <2>. QED  BY <2>1, <2>2
<1>8. \A x, y \in Threads :
        pc'[x] \in BuildPc /\ pc'[y] \in BuildPc /\ ref'[x] = ref'[y] => x = y
  BY <1>1, <1>3, <1>4 DEF BuildInv
<1>9. ASSUME NEW o \in Objects, heap'[o].status = "building"
      PROVE  \E x \in Threads : pc'[x] \in BuildPc /\ ref'[x] = o
  <2>1. CASE o = ref[th]
    BY <1>1, <2>1 DEF BuildPc
  <2>2. CASE o # ref[th]
    <3>1. PICK x \in Threads : pc[x] \in BuildPc /\ ref[x] = o
      BY <1>1, <1>9, <2>2 DEF BuildInv
    <3>2. x # th
      BY <1>1, <3>1 DEF BuildPc
    <3>. QED  BY <1>1, <1>3, <3>1, <3>2
  <2>. QED  BY <2>1, <2>2
<1>. QED  BY <1>7, <1>8, <1>9 DEF BuildInv

\* A build settles: it was the only one of its object.
LEMMA SettleKeepsBuilds ==
    ASSUME MemInv, BuildInv, NEW th \in Threads, Settle(th)
    PROVE  BuildInv'
<1>0. pc[th] = "settle" /\ out[th] \in Outcomes
  BY DEF Settle, BuildInv
<1>1. Only(th) /\ Ends(th) /\ Becomes(With(th, Settled(th)))
  BY <1>0, SettleEffect
<1>2. Mine(th) \in Object /\ ref[th] \in Objects
  BY <1>0, HasObject DEF NoObject
<1>3. Settled(th) \in Object /\ Settled(th).status = out[th]
  BY <1>0, <1>2 DEF Settled, Object, BuildState
<1>4. /\ With(th, Settled(th))[ref[th]] = Settled(th)
      /\ \A o \in Objects \ {ref[th]} : With(th, Settled(th))[o] = heap[o]
  BY <1>0, <1>3, WithFacts DEF NoObject
<1>5. /\ heap'[ref[th]].status # "building"
      /\ \A o \in Objects \ {ref[th]} : heap'[o] = heap[o] \/ Freed(o)
  <2>1. heap'[ref[th]] = Settled(th) \/ Freed(ref[th])
    BY <1>1, <1>2, <1>4 DEF Becomes
  <2>2. out[th] # "building"
    BY <1>0 DEF Outcomes
  <2>3. Blank.status # "building"
    BY DEF Blank
  <2>4. heap'[ref[th]].status # "building"
    BY <1>3, <2>1, <2>2, <2>3 DEF Freed
  <2>5. \A o \in Objects \ {ref[th]} : heap'[o] = heap[o] \/ Freed(o)
    BY <1>1, <1>4 DEF Becomes
  <2>. QED  BY <2>4, <2>5
<1>6. \A x \in Threads : pc'[x] \in BuildPc \cup {"begin"} =>
        /\ x # th /\ pc'[x] = pc[x] /\ ref'[x] = ref[x] /\ out'[x] = out[x]
        /\ ref[x] \in Objects /\ ~Freed(ref[x])
  BY <1>1 DEF Ends, Only, BuildPc, MemInv, RefInv, NoObject, Freed
<1>7. \A x \in Threads : x # th /\ pc[x] \in BuildPc =>
        pc'[x] = pc[x] /\ ref'[x] = ref[x] /\ ref[x] # ref[th]
  BY <1>0, <1>1 DEF Only, BuildPc, BuildInv
<1>8. ASSUME NEW x \in Threads
      PROVE  /\ pc'[x] \in BuildPc => heap'[ref'[x]].status = "building"
             /\ pc'[x] = "begin" => heap'[ref'[x]].status # "building"
             /\ pc'[x] = "settle" => out'[x] \in Outcomes
  <2>1. pc'[x] \in BuildPc => heap'[ref'[x]].status = "building"
    BY <1>5, <1>6, <1>7 DEF BuildInv
  <2>2. pc'[x] = "begin" => heap'[ref'[x]].status # "building"
    BY <1>5, <1>6 DEF BuildInv
  <2>3. pc'[x] = "settle" => out'[x] \in Outcomes
    BY <1>6 DEF BuildInv, BuildPc
  <2>. QED  BY <2>1, <2>2, <2>3
<1>9. \A x, y \in Threads :
        pc'[x] \in BuildPc /\ pc'[y] \in BuildPc /\ ref'[x] = ref'[y] => x = y
  BY <1>6 DEF BuildInv
<1>10. ASSUME NEW o \in Objects, heap'[o].status = "building"
       PROVE  \E x \in Threads : pc'[x] \in BuildPc /\ ref'[x] = o
  <2>1. o # ref[th] /\ heap[o].status = "building"
    BY <1>5, <1>10 DEF Freed, Blank
  <2>2. PICK x \in Threads : pc[x] \in BuildPc /\ ref[x] = o
    BY <2>1 DEF BuildInv
  <2>. QED  BY <1>7, <2>1, <2>2
<1>. QED  BY <1>8, <1>9, <1>10 DEF BuildInv

-----------------------------------------------------------------------------
(* The two together, step by step. *)

WorkInv == MemInv /\ LockInv /\ BuildInv

\* Most steps hold no lock, are outside builds, and leave both alone.
LEMMA IdleWork ==
    ASSUME WorkInv, MemInv', NEW th \in Threads, Only(th),
           pc[th] \notin Holding \cup BuildPc, pc'[th] \notin Holding \cup BuildPc,
           \A o \in Objects :
               \/ /\ heap'[o].lock = heap[o].lock
                  /\ \/ heap'[o].status = heap[o].status
                     \/ heap'[o].status # "building" /\ heap[o].status # "building"
               \/ Freed(o)
    PROVE  WorkInv'
<1>1. Unlocks(th)
  <2>1. \A o \in Objects : Freed(o) => heap'[o].lock = Null
    BY DEF Freed, Blank
  <2>2. \A o \in Objects : \/ heap'[o].lock = heap[o].lock
                           \/ heap'[o].lock = Null /\ Freed(o)
    BY <2>1
  <2>. QED  BY <2>2 DEF Unlocks
<1>2. NotBuilding(th)
  BY DEF NotBuilding, Holding
<1>. QED  BY <1>1, <1>2, UnlocksKeeps, NotBuildingKeeps DEF WorkInv

LEMMA FreshWork ==
    ASSUME WorkInv, NEW o \in Objects \ Live(reg, ref)
    PROVE  heap[o].lock = Null /\ heap[o].status # "building"
<1>1. heap[o].lock = Null
  BY FreeUnlocked DEF WorkInv
<1>2. heap[o].status # "building"
  BY NullAssumption DEF WorkInv, BuildInv, Live
<1>. QED  BY <1>1, <1>2

LEMMA MakesNewWork ==
    ASSUME WorkInv, MemInv', NEW th \in Threads, NEW m, MakesNew(th, m),
           m.lock = Null, m.status # "building"
    PROVE  WorkInv'
<1>1. /\ Only(th) /\ pc[th] \in {"idle", "specs"} /\ pc'[th] \in {"start", "builds"}
      /\ ref'[th] \in Objects \ Live(reg, ref) /\ heap'[ref'[th]] = m
      /\ \A o \in Objects \ {ref'[th]} : heap'[o] = heap[o] \/ Freed(o)
  BY DEF MakesNew, Makes
<1>2. heap[ref'[th]].lock = Null /\ heap[ref'[th]].status # "building"
  BY <1>1, FreshWork
<1>3. /\ pc[th] \notin Holding \cup BuildPc
      /\ pc'[th] \notin Holding \cup BuildPc
  BY <1>1 DEF Holding, BuildPc
<1>4. \A o \in Objects :
        \/ /\ heap'[o].lock = heap[o].lock
           /\ \/ heap'[o].status = heap[o].status
              \/ heap'[o].status # "building" /\ heap[o].status # "building"
        \/ Freed(o)
  BY <1>1, <1>2
<1>. QED  BY <1>1, <1>3, <1>4, IdleWork

\* A rewrite of an object that is neither locked nor built.
LEMMA RewritesWork ==
    ASSUME WorkInv, MemInv', NEW th \in Threads, NEW m, NEW label,
           Rewrites(th, m, label), m.lock = Mine(th).lock,
           m.status = Mine(th).status
             \/ (m.status # "building" /\ Mine(th).status # "building"),
           pc[th] \notin Holding \cup BuildPc, label \notin Holding \cup BuildPc
    PROVE  WorkInv'
<1>1. /\ Only(th) /\ pc'[th] = label /\ heap'[ref[th]] = m
      /\ \A o \in Objects \ {ref[th]} : heap'[o] = heap[o]
  BY DEF Rewrites
<1>2. \A o \in Objects :
        /\ heap'[o].lock = heap[o].lock
        /\ \/ heap'[o].status = heap[o].status
           \/ heap'[o].status # "building" /\ heap[o].status # "building"
  BY <1>1 DEF Mine
<1>. QED  BY <1>1, <1>2, IdleWork

\* The holder of a lock is done: its object becomes h's, unlocked.
LEMMA HolderLeavesWork ==
    ASSUME WorkInv, MemInv', NEW th \in Threads, NEW h, Only(th), Ends(th),
           pc[th] = "locked", Becomes(h), h[ref[th]].lock = Null,
           \A o \in Objects : h[o].status = heap[o].status,
           \A o \in Objects \ {ref[th]} : h[o].lock = heap[o].lock
    PROVE  WorkInv'
<1>0. pc'[th] = "idle" /\ ref[th] \in Objects
  BY HasObject DEF Ends, WorkInv, NoObject
<1>1. \A o \in Objects : Freed(o) => heap'[o].lock = Null
  BY DEF Freed, Blank
<1>2. Unlocks(th)
  <2>1. ASSUME NEW o \in Objects
        PROVE  \/ heap'[o].lock = heap[o].lock /\ o # ref[th]
               \/ heap'[o].lock = Null /\ (Freed(o) \/ o = ref[th])
    <3>1. CASE o = ref[th]
      BY <1>1, <3>1 DEF Becomes
    <3>2. CASE o # ref[th]
      BY <1>1, <3>2 DEF Becomes
    <3>. QED  BY <3>1, <3>2
  <2>. QED  BY <1>0, <2>1 DEF Unlocks, Holding
<1>3. NotBuilding(th)
  BY <1>0 DEF NotBuilding, Becomes, BuildPc
<1>. QED  BY <1>2, <1>3, UnlocksKeeps, NotBuildingKeeps DEF WorkInv

LEMMA BecomesWork ==
    ASSUME WorkInv, MemInv', NEW th \in Threads, Only(th), Becomes(heap),
           pc[th] \notin Holding \cup BuildPc, pc'[th] \notin Holding \cup BuildPc
    PROVE  WorkInv'
BY IdleWork DEF Becomes

LEMMA StepsWork ==
    ASSUME WorkInv, MemInv', NEW th \in Threads, Only(th), heap' = heap,
           pc[th] \notin Holding \cup BuildPc, pc'[th] \notin Holding \cup BuildPc
    PROVE  WorkInv'
BY IdleWork

LEMMA SettleWork ==
    ASSUME WorkInv, NEW th \in Threads, Settle(th)
    PROVE  WorkInv'
<1>0. pc[th] = "settle" /\ out[th] \in Outcomes
  BY DEF Settle, WorkInv, BuildInv
<1>1. MemInv' /\ Only(th) /\ Ends(th) /\ Becomes(With(th, Settled(th)))
  BY <1>0, SettleEffect DEF WorkInv
<1>2. Mine(th) \in Object /\ ref[th] \in Objects
  BY <1>0, HasObject DEF NoObject, WorkInv
<1>3. Settled(th) \in Object /\ Settled(th).lock = Mine(th).lock
  BY <1>0, <1>2 DEF Settled, Object, BuildState
<1>4. /\ With(th, Settled(th))[ref[th]] = Settled(th)
      /\ \A o \in Objects \ {ref[th]} : With(th, Settled(th))[o] = heap[o]
  BY <1>0, <1>3, WithFacts DEF NoObject, WorkInv
<1>5. \A o \in Objects : heap'[o].lock = heap[o].lock \/ Freed(o)
  BY <1>1, <1>3, <1>4 DEF Becomes, Mine
<1>6. \A o \in Objects : Freed(o) => heap'[o].lock = Null
  BY DEF Freed, Blank
<1>7. \A o \in Objects : \/ heap'[o].lock = heap[o].lock
                         \/ heap'[o].lock = Null /\ Freed(o)
  BY <1>5, <1>6
<1>8. Unlocks(th)
  BY <1>0, <1>1, <1>7 DEF Unlocks, Holding, Ends
<1>. QED  BY <1>1, <1>8, UnlocksKeeps, SettleKeepsBuilds DEF WorkInv

\* Every step of a handler keeps objects, locks and builds in order.
LEMMA WorkHandler ==
    ASSUME WorkInv, NEW th \in Threads, Handler(th)
    PROVE  WorkInv'
<1>0. MemInv /\ LockInv /\ BuildInv
  BY DEF WorkInv
<1>. USE <1>0
<1>1. ASSUME NEW phase \in {"clarify", "approve"}, FirstTurn(th, phase)
      PROVE  WorkInv'
  <2>1. /\ MemInv' /\ pc[th] = "start"
        /\ Rewrites(th, [Mine(th) EXCEPT !.phase = phase], "register")
    BY <1>1, FirstTurnEffect
  <2>2. Mine(th) \in Object
    BY <2>1, HasObject DEF NoObject
  <2>3. /\ [Mine(th) EXCEPT !.phase = phase].lock = Mine(th).lock
        /\ [Mine(th) EXCEPT !.phase = phase].status = Mine(th).status
    BY <2>2 DEF Object
  <2>. QED  BY <2>1, <2>3, RewritesWork DEF Holding, BuildPc
<1>2. CASE \/ FirstTurnFails(th) \/ Unknown(th) \/ Foreign(th)
           \/ DeleteRefused(th) \/ Tombstone(th) \/ StreamEnds(th)
  <2>1. MemInv' /\ Only(th) /\ Leaves(th)
    BY <1>2, LeavesEffect
  <2>. QED  BY <2>1, BecomesWork DEF Leaves, Ends, Holding, BuildPc, StreamPc
<1>3. CASE Register(th)
  <2>1. /\ MemInv' /\ Only(th) /\ Ends(th) /\ Becomes(heap)
        /\ pc[th] = "register"
    BY <1>3, RegisterEffect DEF Register
  <2>. QED  BY <2>1, BecomesWork DEF Ends, Holding, BuildPc
<1>4. CASE Hit(th)
  <2>1. /\ MemInv' /\ Only(th) /\ heap' = heap /\ pc[th] = "get"
        /\ pc'[th] = "check"
    BY <1>4, HitEffect DEF Finds
  <2>. QED  BY <2>1, StepsWork DEF Holding, BuildPc
<1>5. CASE Insert(th)
  <2>1. /\ MemInv' /\ Only(th) /\ Becomes(heap) /\ pc[th] = "insert"
        /\ pc'[th] = "check"
    BY <1>5, InsertEffect DEF Finds
  <2>. QED  BY <2>1, BecomesWork DEF Holding, BuildPc
<1>6. CASE ReadSpecs(th)
  <2>1. MemInv' /\ MakesNew(th, Resumed(sid[th]))
    BY <1>6, ReadSpecsEffect
  <2>2. Resumed(sid[th]).lock = Null /\ Resumed(sid[th]).status # "building"
    BY DEF Resumed, Blank
  <2>. QED  BY <2>1, <2>2, MakesNewWork
<1>7. CASE ReadBuilds(th)
  <2>1. /\ MemInv' /\ pc[th] = "builds"
        /\ Rewrites(th, Hydrated(th), "insert")
        /\ ResumedStatus(last[sid[th]], Mine(th).phase)
             \in Outcomes \cup {"idle"}
    BY <1>7, ReadBuildsEffect
  <2>2. Mine(th) \in Object
    BY <2>1, HasObject DEF NoObject
  <2>3. /\ Hydrated(th).lock = Mine(th).lock
        /\ Hydrated(th).status = ResumedStatus(last[sid[th]], Mine(th).phase)
    BY <2>2 DEF Hydrated, Object
  <2>4. Mine(th).status # "building"
    <3>1. ref[th] \in Objects
      BY <2>1, HasObject DEF NoObject
    <3>. QED
      BY <2>1, <3>1 DEF Mine, BuildInv, MemInv, PrivateInv, Private, BuildPc
  <2>. QED  BY <2>1, <2>3, <2>4, RewritesWork DEF Holding, BuildPc, Outcomes
<1>8. CASE Lock(th)
  <2>1. /\ MemInv' /\ pc[th] = "check" /\ heap[ref[th]].lock = Null
        /\ Rewrites(th, [Mine(th) EXCEPT !.lock = th], "locked")
    BY <1>8, LockEffect
  <2>2. Mine(th) \in Object /\ ref[th] \in Objects
    BY <2>1, HasObject DEF NoObject
  <2>3. /\ [Mine(th) EXCEPT !.lock = th].lock = th
        /\ [Mine(th) EXCEPT !.lock = th].status = heap[ref[th]].status
    BY <2>2 DEF Object, Mine
  <2>4. /\ Only(th) /\ pc'[th] = "locked" /\ ref' = ref
        /\ heap'[ref[th]].lock = th
        /\ \A o \in Objects \ {ref[th]} : heap'[o] = heap[o]
        /\ \A o \in Objects : heap'[o].status = heap[o].status
    BY <2>1, <2>3 DEF Rewrites
  <2>5. Locks(th)
    BY <2>1, <2>4 DEF Locks, Holding
  <2>6. NotBuilding(th)
    BY <2>1, <2>4 DEF NotBuilding, BuildPc
  <2>. QED  BY <2>1, <2>5, <2>6, LocksKeeps, NotBuildingKeeps DEF WorkInv
<1>9. CASE ApproveDenied(th) \/ ReplyIdle(th)
  <2>1. /\ MemInv' /\ Only(th) /\ Ends(th)
        /\ Becomes(Unlocked(th, Mine(th))) /\ pc[th] = "locked"
    BY <1>9, UnlocksEffect
  <2>2. Mine(th) \in Object /\ Mine(th).sid = sid[th]
    BY <2>1, HasObject DEF NoObject
  <2>3. /\ Unlocked(th, Mine(th))[ref[th]] = [Mine(th) EXCEPT !.lock = Null]
        /\ \A o \in Objects \ {ref[th]} : Unlocked(th, Mine(th))[o] = heap[o]
    BY <2>1, <2>2, UnlockedFacts DEF NoObject
  <2>4. /\ [Mine(th) EXCEPT !.lock = Null].lock = Null
        /\ [Mine(th) EXCEPT !.lock = Null].status = heap[ref[th]].status
    BY <2>2 DEF Object, Mine
  <2>. QED  BY <2>1, <2>3, <2>4, HolderLeavesWork
<1>10. CASE ReplyProposes(th)
  <2>1. /\ MemInv' /\ Only(th) /\ Ends(th)
        /\ Becomes(Proposed(th)) /\ pc[th] = "locked"
    BY <1>10, ProposesEffect
  <2>2. heap \in Heaps /\ ref[th] \in Objects /\ Mine(th) = heap[ref[th]]
    BY <2>1, HasObject DEF NoObject, Mine
  <2>3. ASSUME NEW o \in Objects
        PROVE  /\ Proposed(th)[o].status = heap[o].status
               /\ o # ref[th] => Proposed(th)[o].lock = heap[o].lock
               /\ o = ref[th] => Proposed(th)[o].lock = Null
    <3>1. heap[o] \in Object
      BY <2>2 DEF Heaps
    <3>. QED  BY <2>2, <3>1 DEF Proposed, Object
  <2>. QED  BY <2>1, <2>2, <2>3, HolderLeavesWork
<1>11. CASE Approve(th)
  <2>1. /\ MemInv' /\ pc[th] = "locked" /\ Rewrites(th, Granted(th), "begin")
    BY <1>11, ApproveEffect
  <2>2. Mine(th) \in Object /\ ref[th] \in Objects
    BY <2>1, HasObject DEF NoObject
  <2>3. Granted(th).lock = th
    BY <2>1, <2>2 DEF Granted, Object, Mine, LockInv
  <2>4. Locks(th)
    BY <2>1, <2>3 DEF Locks, Holding, Rewrites
  <2>. QED  BY <1>11, <2>1, <2>4, LocksKeeps, ApproveKeepsBuilds DEF WorkInv
<1>12. CASE BeginBuild(th)
  <2>1. /\ MemInv' /\ pc[th] = "begin" /\ Only(th) /\ pc'[th] = "build"
        /\ heap'[ref[th]] = Begun(th) /\ ref[th] \in Objects
        /\ \A o \in Objects \ {ref[th]} : heap'[o] = heap[o]
    BY <1>12, BeginBuildEffect
  <2>2. Begun(th).lock = Null
    BY <2>1, HasObject DEF Begun, NoObject, Object
  <2>3. Unlocks(th)
    BY <2>1, <2>2 DEF Unlocks, Holding
  <2>. QED  BY <1>12, <2>1, <2>3, UnlocksKeeps, BeginKeepsBuilds DEF WorkInv
<1>13. CASE Walks(th)
  <2>1. /\ MemInv' /\ Only(th) /\ Steps(th) /\ out' = out /\ heap' = heap
        /\ Path(th, pc'[th])
    BY <1>13, WalksEffect DEF Steps
  <2>2. CASE pc[th] = "build"
    <3>1. pc'[th] = "marked"
      BY <2>1, <2>2 DEF Path
    <3>2. BuildInv'
      BY <2>1, <2>2, <3>1, BuildGoesOn DEF BuildPc
    <3>3. Unlocks(th)
      BY <2>1, <2>2, <3>1 DEF Unlocks, Holding
    <3>. QED  BY <2>1, <3>2, <3>3, UnlocksKeeps DEF WorkInv
  <2>3. CASE pc[th] # "build"
    <3>1. /\ pc[th] \in {"get", "check", "pin"}
          /\ pc'[th] \in {"specs", "pop", "pin", "early", "follow"}
      BY <2>1, <2>3 DEF Path
    <3>. QED  BY <2>1, <3>1, StepsWork DEF Holding, BuildPc
  <2>. QED  BY <2>2, <2>3
<1>14. ASSUME NEW outcome \in Outcomes,
              \/ Built(th, outcome)
              \/ Blocked(th) /\ outcome = "failed"
       PROVE  WorkInv'
  <2>1. /\ MemInv' /\ Only(th) /\ Steps(th) /\ heap' = heap
        /\ pc[th] \in {"build", "marked"} /\ pc'[th] = "settle"
        /\ out'[th] = outcome
    BY <1>14, BuildEndsEffect DEF Steps
  <2>2. BuildInv'
    BY <2>1, BuildGoesOn DEF BuildPc
  <2>3. Unlocks(th)
    BY <2>1 DEF Unlocks, Holding
  <2>. QED  BY <2>1, <2>2, <2>3, UnlocksKeeps DEF WorkInv
<1>15. CASE Pop(th)
  <2>1. /\ MemInv' /\ Only(th) /\ Becomes(heap) /\ pc[th] = "pop"
        /\ pc'[th] = "tombstone"
    BY <1>15, PopEffect
  <2>. QED  BY <2>1, BecomesWork DEF Holding, BuildPc
<1>16. CASE Settle(th)
  BY <1>16, SettleWork
<1>17. "failed" \in Outcomes /\ Results \subseteq Outcomes
  BY RequestsAssumption DEF Outcomes
<1>. QED
  BY <1>1, <1>2, <1>3, <1>4, <1>5, <1>6, <1>7, <1>8, <1>9, <1>10, <1>11, <1>12,
     <1>13, <1>14, <1>15, <1>16, <1>17
     DEF Handler, Get, BuildSteps, Walks

LEMMA ArriveFacts ==
    ASSUME MemInv, NEW th \in Threads, NEW s \in Sessions,
           NEW kind \in Requests, Arrive(th, kind, s)
    PROVE  /\ MemInv' /\ pc[th] = "idle" /\ pc'[th] = "get" /\ op'[th] = kind
           /\ UNCHANGED <<row, spec, last, open, heap, reg, ref>> /\ out' = out
           /\ \A x \in Threads : x # th =>
                 pc'[x] = pc[x] /\ sid'[x] = sid[x] /\ op'[x] = op[x]
<1>0. StateOK
  BY DEF MemInv
<1>1. /\ pc[th] = "idle" /\ pc' = [pc EXCEPT ![th] = "get"]
      /\ op' = [op EXCEPT ![th] = kind] /\ sid' = [sid EXCEPT ![th] = s]
      /\ UNCHANGED <<row, spec, last, open, heap, reg, older, ref>> /\ out' = out
      /\ kind \in RequestKinds
  BY RequestsAssumption DEF Arrive, storeVars
<1>2. /\ pc' \in [Threads -> ThreadPc] /\ pc'[th] = "get"
      /\ op' \in [Threads -> RequestKinds \cup {"start", "none"}]
      /\ op'[th] = kind /\ sid' \in [Threads -> Sessions \cup {Null}]
      /\ \A x \in Threads : x # th =>
            pc'[x] = pc[x] /\ sid'[x] = sid[x] /\ op'[x] = op[x]
  BY <1>0, <1>1 DEF StateOK, ThreadPc, HandlerPc
<1>3. StateOK'
  BY <1>0, <1>1, <1>2 DEF StateOK
<1>4. MemInv'
  BY <1>3, ArriveKeepsMem
<1>. QED  BY <1>1, <1>2, <1>4

LEMMA WorkClient ==
    ASSUME WorkInv, NEW th \in Threads, Client(th)
    PROVE  WorkInv'
<1>1. ASSUME NEW s \in Sessions, Create(th, s) PROVE WorkInv'
  <2>1. MemInv' /\ MakesNew(th, Started(s))
    BY <1>1, CreateEffect DEF WorkInv
  <2>2. Started(s).lock = Null /\ Started(s).status # "building"
    BY DEF Started, Blank
  <2>. QED  BY <2>1, <2>2, MakesNewWork
<1>2. ASSUME NEW s \in Sessions, NEW kind \in Requests, Arrive(th, kind, s)
      PROVE  WorkInv'
  <2>1. /\ MemInv' /\ pc[th] = "idle" /\ pc'[th] = "get" /\ heap' = heap
        /\ ref' = ref /\ out' = out
        /\ \A x \in Threads : x # th => pc'[x] = pc[x]
    BY <1>2, ArriveFacts DEF WorkInv
  <2>2. \A o \in Objects : heap[o].lock # Null => heap[o].lock \in Threads
    BY DEF WorkInv, MemInv, StateOK, Object
  <2>3. LockInv'
    BY <2>1, <2>2 DEF WorkInv, LockInv
  <2>4. BuildInv'
    BY <2>1 DEF WorkInv, BuildInv, BuildPc
  <2>. QED  BY <2>1, <2>3, <2>4 DEF WorkInv
<1>. QED  BY <1>1, <1>2 DEF Client

LEMMA WorkNext == WorkInv /\ [Next]_vars => WorkInv'
<1>. SUFFICES ASSUME WorkInv, [Next]_vars PROVE WorkInv'
  OBVIOUS
<1>1. CASE Restart
  <2>1. /\ MemInv' /\ \A o \in Objects : heap'[o] = Blank
        /\ \A th \in Threads : pc'[th] = "idle"
    BY <1>1, RestartEffect DEF WorkInv
  <2>2. Blank.lock = Null /\ Blank.status = "idle"
    BY DEF Blank
  <2>. QED  BY <2>1, <2>2 DEF WorkInv, LockInv, BuildInv, BuildPc
<1>2. CASE UNCHANGED vars
  BY <1>2, MemStutters
     DEF WorkInv, LockInv, BuildInv, vars, storeVars, threadVars
<1>. QED  BY <1>1, <1>2, WorkClient, WorkHandler DEF Next

LEMMA WorkInit == Init => WorkInv
<1>. SUFFICES ASSUME Init PROVE WorkInv
  OBVIOUS
<1>1. Blank.lock = Null /\ Blank.status = "idle"
  BY DEF Blank
<1>. QED  BY <1>1, MemInit DEF Init, WorkInv, LockInv, BuildInv, BuildPc

-----------------------------------------------------------------------------
(* Deleted sessions. *)

\* A handler that does not read a session's specs makes no object of it.
LEMMA HandlerSids ==
    ASSUME WorkInv, NEW th \in Threads, Handler(th)
    PROVE  \/ SidsStay
           \/ ReadSpecs(th)
<1>. USE DEF WorkInv
<1>1. ASSUME NEW phase \in {"clarify", "approve"}, FirstTurn(th, phase)
      PROVE  SidsStay
  BY <1>1, FirstTurnEffect DEF Rewrites
<1>2. CASE \/ FirstTurnFails(th) \/ Unknown(th) \/ Foreign(th)
           \/ DeleteRefused(th) \/ Tombstone(th) \/ StreamEnds(th)
  BY <1>2, LeavesEffect
<1>3. CASE Register(th) \/ Insert(th) \/ Pop(th)
  BY <1>3, RegisterEffect, InsertEffect, PopEffect
<1>4. CASE Hit(th)
  BY <1>4, HitEffect DEF SidsStay
<1>5. CASE ReadBuilds(th) \/ Lock(th) \/ Approve(th)
  BY <1>5, ReadBuildsEffect, LockEffect, ApproveEffect DEF Rewrites
<1>6. CASE ApproveDenied(th) \/ ReplyIdle(th) \/ ReplyProposes(th)
  BY <1>6, UnlocksEffect, ProposesEffect
<1>7. CASE BeginBuild(th)
  BY <1>7, BeginBuildEffect
<1>8. CASE Walks(th)
  BY <1>8, WalksEffect DEF Steps, SidsStay
<1>9. ASSUME NEW outcome \in Results, Built(th, outcome) PROVE SidsStay
  BY <1>9, RequestsAssumption, BuildEndsEffect DEF Steps, SidsStay
<1>10. CASE Blocked(th)
  BY <1>10, BuildEndsEffect DEF Steps, SidsStay, Outcomes
<1>11. CASE Settle(th)
  BY <1>11, SettleEffect DEF Settle, BuildInv
<1>. QED
  BY <1>1, <1>2, <1>3, <1>4, <1>5, <1>6, <1>7, <1>8, <1>9, <1>10, <1>11
     DEF Handler, Get, BuildSteps, Walks

\* A handler marks its session deleted, or as a build thread live.
LEMMA HandlerRows ==
    ASSUME NEW th \in Threads, Handler(th)
    PROVE  \/ row' = row
           \/ row' = [row EXCEPT ![sid[th]] = "deleted"]
           \/ /\ pc[th] \in {"build", "marked"}
              /\ row' = [row EXCEPT ![sid[th]] = "live"]
<1>1. CASE Get(th)
  BY <1>1 DEF Get, Hit, Miss, Unknown, NotFound, ReadSpecs, ReadBuilds, Insert,
     Foreign, storeVars
<1>2. CASE BuildSteps(th)
  BY <1>2 DEF BuildSteps, ApproveDenied, Approve, BeginBuild, MarkBuilding,
     Blocked, Built, Recorded, Settle, storeVars
<1>3. CASE \/ \E phase \in {"clarify", "approve"} : FirstTurn(th, phase)
           \/ FirstTurnFails(th) \/ Register(th) \/ Lock(th)
  BY <1>3 DEF FirstTurn, FirstTurnFails, Register, Lock, storeVars
<1>4. CASE \/ ReplyIdle(th) \/ ReplyProposes(th) \/ DeleteRefused(th)
           \/ DeleteAllowed(th) \/ Pop(th) \/ Tombstone(th)
           \/ StreamOpens(th) \/ Pin(th) \/ StreamEnds(th)
  BY <1>4 DEF ReplyIdle, ReplyProposes, DeleteRefused, DeleteAllowed, Pop,
     Tombstone, StreamOpens, Pin, StreamEnds, storeVars
<1>. QED  BY <1>1, <1>2, <1>3, <1>4 DEF Handler

\* Only a build that ends in failure makes its session owe a cleanup.
LEMMA HandlerOpen ==
    ASSUME NEW th \in Threads, Handler(th)
    PROVE  \/ open' = open
           \/ pc[th] = "marked" /\ open' = open \cup {sid[th]}
<1>1. CASE Get(th)
  BY <1>1 DEF Get, Hit, Miss, Unknown, NotFound, ReadSpecs, ReadBuilds, Insert,
     Foreign, storeVars
<1>2. CASE BuildSteps(th)
  BY <1>2 DEF BuildSteps, ApproveDenied, Approve, BeginBuild, MarkBuilding,
     Blocked, Built, Recorded, Settle, storeVars
<1>3. CASE \/ \E phase \in {"clarify", "approve"} : FirstTurn(th, phase)
           \/ FirstTurnFails(th) \/ Register(th) \/ Lock(th)
  BY <1>3 DEF FirstTurn, FirstTurnFails, Register, Lock, storeVars
<1>4. CASE \/ ReplyIdle(th) \/ ReplyProposes(th) \/ DeleteRefused(th)
           \/ DeleteAllowed(th) \/ Pop(th) \/ Tombstone(th)
           \/ StreamOpens(th) \/ Pin(th) \/ StreamEnds(th)
  BY <1>4 DEF ReplyIdle, ReplyProposes, DeleteRefused, DeleteAllowed, Pop,
     Tombstone, StreamOpens, Pin, StreamEnds, storeVars
<1>. QED  BY <1>1, <1>2, <1>3, <1>4 DEF Handler

LEMMA GoneStays ==
    ASSUME WorkInv, [Next]_vars, NEW s \in Sessions, Gone(s)
    PROVE  Gone(s)'
<1>0. /\ row[s] = "deleted" /\ row \in [Sessions -> {"none", "live", "deleted"}]
      /\ \A o \in Objects : heap[o].sid # s
      /\ s # Null /\ s \notin open
  BY NullAssumption DEF Gone, NoObjectOf, WorkInv, MemInv, StateOK
<1>1. \A th \in Threads : pc[th] \in BuildPc => sid[th] # s
  BY <1>0 DEF WorkInv, MemInv, RefInv, BuildPc, NoObject
<1>2. SidsStay => \A o \in Objects : heap'[o].sid # s
  BY <1>0 DEF SidsStay, Freed, Blank
<1>3. ASSUME NEW th \in Threads, Handler(th) PROVE Gone(s)'
  <2>1. row'[s] = "deleted"
    BY <1>0, <1>1, <1>3, HandlerRows DEF BuildPc
  <2>0. s \notin open'
    BY <1>0, <1>1, <1>3, HandlerOpen DEF BuildPc
  <2>2. CASE SidsStay
    BY <1>2, <2>0, <2>1, <2>2 DEF Gone, NoObjectOf
  <2>3. CASE ReadSpecs(th)
    <3>1. /\ Resumable(sid[th]) /\ Makes(th) /\ sid' = sid
      BY <2>3, ReadSpecsEffect DEF WorkInv, MakesNew
    <3>2. sid[th] # s
      BY <1>0, <3>1 DEF Resumable
    <3>3. \A o \in Objects : heap'[o].sid # s
      BY <1>0, <3>1, <3>2 DEF Makes, Freed, Blank
    <3>. QED  BY <2>0, <2>1, <3>3 DEF Gone, NoObjectOf
  <2>. QED  BY <1>3, <2>2, <2>3, HandlerSids
<1>4. ASSUME NEW th \in Threads, NEW t \in Sessions, Create(th, t)
      PROVE  Gone(s)'
  <2>1. Makes(th) /\ sid'[th] = t /\ row[t] = "none"
    BY <1>4, CreateEffect DEF WorkInv, MakesNew
  <2>2. t # s /\ row' = [row EXCEPT ![t] = "live"] /\ open' = open
    BY <1>0, <1>4, <2>1 DEF Create
  <2>3. \A o \in Objects : heap'[o].sid # s
    BY <1>0, <2>1, <2>2 DEF Makes, Freed, Blank
  <2>. QED  BY <1>0, <2>2, <2>3 DEF Gone, NoObjectOf
<1>5. ASSUME NEW th \in Threads, NEW t \in Sessions, NEW kind \in Requests,
             Arrive(th, kind, t)
      PROVE  Gone(s)'
  BY <1>0, <1>5 DEF Arrive, Gone, NoObjectOf, storeVars
<1>6. CASE Restart
  <2>1. s \notin Interrupted
    BY <1>1 DEF Interrupted, BuildPc
  <2>2. /\ \A o \in Objects : heap'[o] = Blank
        /\ row'[s] = row[s] /\ s \notin open'
    BY <1>0, <1>6, <2>1, RestartEffect DEF WorkInv
  <2>. QED  BY <1>0, <2>2 DEF Gone, NoObjectOf, Blank
<1>7. CASE UNCHANGED vars
  BY <1>7 DEF Gone, NoObjectOf, vars, storeVars
<1>. QED  BY <1>3, <1>4, <1>5, <1>6, <1>7 DEF Next, Client

LEMMA WorkInvariance == Spec => []WorkInv
BY WorkInit, WorkNext, PTL DEF Spec

\* Only a build that ends and a startup write how a session was last built.
LEMMA HandlerBuilds ==
    ASSUME NEW th \in Threads, Handler(th)
    PROVE  \/ open' = open /\ last' = last
           \/ \E outcome \in Results : Built(th, outcome)
<1>1. CASE Get(th)
  BY <1>1 DEF Get, Hit, Miss, Unknown, NotFound, ReadSpecs, ReadBuilds, Insert,
     Foreign, storeVars
<1>2. CASE BuildSteps(th)
  BY <1>2 DEF BuildSteps, ApproveDenied, Approve, BeginBuild, MarkBuilding,
     Blocked, Settle, storeVars
<1>3. CASE \/ \E phase \in {"clarify", "approve"} : FirstTurn(th, phase)
           \/ FirstTurnFails(th) \/ Register(th) \/ Lock(th)
  BY <1>3 DEF FirstTurn, FirstTurnFails, Register, Lock, storeVars
<1>4. CASE \/ ReplyIdle(th) \/ ReplyProposes(th) \/ DeleteRefused(th)
           \/ DeleteAllowed(th) \/ Pop(th) \/ Tombstone(th)
           \/ StreamOpens(th) \/ Pin(th) \/ StreamEnds(th)
  BY <1>4 DEF ReplyIdle, ReplyProposes, DeleteRefused, DeleteAllowed, Pop,
     Tombstone, StreamOpens, Pin, StreamEnds, storeVars
<1>. QED  BY <1>1, <1>2, <1>3, <1>4 DEF Handler

LEMMA OpenNext == WorkInv /\ OpenInv /\ [Next]_vars => OpenInv'
<1>. SUFFICES ASSUME WorkInv, OpenInv, [Next]_vars PROVE OpenInv'
  OBVIOUS
<1>0. /\ open \in SUBSET Sessions
      /\ last \in [Sessions -> Outcomes \cup {"none"}]
  BY DEF WorkInv, MemInv, StateOK
<1>1. ASSUME NEW th \in Threads, NEW outcome, Built(th, outcome)
      PROVE  OpenInv'
  <2>1. pc[th] = "marked" /\ Recorded(sid[th], outcome)
    BY <1>1 DEF Built
  <2>2. sid[th] \in Sessions
    BY <2>1, HasObject DEF WorkInv, NoObject
  <2>3. PICK s \in Sessions : s = sid[th]
    BY <2>2
  <2>4. /\ s \in open => outcome = "failed"
        /\ last'[s] = outcome
        /\ \A t \in Sessions \ {s} : last'[t] = last[t]
        /\ open' = open \/ (outcome = "failed" /\ open' = open \cup {s})
    BY <1>0, <2>1, <2>3 DEF Recorded
  <2>5. ASSUME NEW t \in open' PROVE last'[t] = "failed"
    BY <1>0, <2>4, <2>5 DEF OpenInv
  <2>. QED  BY <2>5 DEF OpenInv
<1>2. ASSUME open' = open, last' = last PROVE OpenInv'
  BY <1>2 DEF OpenInv
<1>3. ASSUME NEW th \in Threads, Handler(th) PROVE OpenInv'
  BY <1>1, <1>2, <1>3, HandlerBuilds
<1>4. ASSUME NEW th \in Threads, Client(th) PROVE OpenInv'
  BY <1>2, <1>4 DEF Client, Create, Arrive, storeVars
<1>5. CASE Restart
  <2>1. PICK failed \in SUBSET Interrupted :
            \E kept \in SUBSET (failed \cup open) : Reconciled(failed, kept)
    BY <1>5 DEF Restart
  <2>2. PICK kept \in SUBSET (failed \cup open) : Reconciled(failed, kept)
    BY <2>1
  <2>3. /\ open' \subseteq failed \cup open
        /\ \A s \in Sessions :
              last'[s] = IF s \in failed THEN "failed" ELSE last[s]
    BY <2>2 DEF Reconciled
  <2>4. failed \subseteq Sessions
    BY HasObject DEF WorkInv, NoObject, Interrupted
  <2>5. ASSUME NEW s \in open' PROVE last'[s] = "failed"
    BY <1>0, <2>3, <2>4, <2>5 DEF OpenInv
  <2>. QED  BY <2>5 DEF OpenInv
<1>6. CASE UNCHANGED vars
  BY <1>2, <1>6 DEF vars, storeVars
<1>. QED  BY <1>3, <1>4, <1>5, <1>6 DEF Next

LEMMA OpenInvariance == Spec => []OpenInv
<1>1. Init => OpenInv
  BY DEF Init, OpenInv
<1>. QED  BY <1>1, OpenNext, WorkInvariance, PTL DEF Spec

\* A session whose deletion is complete, tombstone written, no object of it
\* left and no attempt of it waiting for a startup to reconcile, stays deleted
\* and unloaded: no lookup, hydration, build or restart brings it back
\* (SessionManager._hydrate refuses the tombstone, a build that would revive
\* the row still refers to an object of its session, and the startup writes the
\* status of sessions with a nonterminal attempt only).  A session deleted with
\* such an attempt does come back: TombstoneHolds is the property it breaks.
THEOREM DeletionIsFinal == Spec => DeletedStaysGone
<1>1. WorkInv /\ [Next]_vars => [\A s \in Sessions : Gone(s) => Gone(s)']_vars
  BY GoneStays
<1>. QED  BY <1>1, WorkInvariance, PTL DEF Spec, DeletedStaysGone

-----------------------------------------------------------------------------
(* Streams. *)

Following == {"pin", "early", "follow"}
Approving == {"begin", "builds"}

\* A step that closes no event list, settles no status and approves nothing.
StreamsStay(th) ==
    /\ Only(th) /\ pc[th] \notin Approving
    /\ \A o \in Objects :
          \/ /\ heap'[o].status = heap[o].status
             /\ heap'[o].closed = heap[o].closed
             /\ heap'[o].phase = heap[o].phase \/ heap'[o].phase # "approved"
          \/ Freed(o)
    /\ pc'[th] \in Following => ref'[th] = ref[th] /\ Written(ref[th])
    /\ pc'[th] # "orphan" /\ (pc'[th] = "follow" => BuildBegun(ref[th]))

\* The streams that followed a build go on, those of their lists as begun as
\* they were.
LEMMA FollowKept ==
    ASSUME FollowInv, NEW th \in Threads, Only(th), pc[th] # "begin",
           pc'[th] # "orphan",
           pc'[th] = "follow" => BuildBegun(ref[th]),
           \A x \in Threads : pc'[x] = "follow" /\ BuildBegun(ref[x]) =>
              heap'[ref'[x]].closed \/ heap'[ref'[x]].status = "building"
    PROVE  FollowInv'
<1>1. ASSUME NEW x \in Threads
      PROVE  pc'[x] # "orphan" /\ (pc'[x] = "follow" => BuildBegun(ref[x]))
  BY DEF FollowInv, Only
<1>. QED  BY <1>1 DEF FollowInv, BuildBegun

LEMMA ApprovedWitness ==
    ASSUME MemInv, ApprovedInv, NEW th \in Threads, Only(th),
           pc[th] \notin Approving,
           NEW o \in Objects, heap[o].phase = "approved", heap[o].status = "idle"
    PROVE  \E x \in Threads : ref'[x] = o /\ pc'[x] \in Approving
<1>1. PICK x \in Threads : ref[x] = o /\ pc[x] \in Approving
  BY DEF ApprovedInv, Approving
<1>2. x # th /\ pc'[x] = pc[x] /\ ref'[x] = ref[x]
  BY <1>1 DEF Only, Approving
<1>. QED  BY <1>1, <1>2

LEMMA StreamsStayKeeps ==
    ASSUME MemInv, MemInv', StreamInv, NEW th \in Threads, StreamsStay(th)
    PROVE  StreamInv'
<1>0. Blank.status = "idle" /\ Blank.phase = "intake"
  BY DEF Blank
<1>1. ASSUME NEW o \in Objects, heap'[o].status \notin {"idle", "building"}
      PROVE  heap'[o].closed
  <2>1. ~Freed(o)
    BY <1>0, <1>1 DEF Freed
  <2>2. heap'[o].status = heap[o].status /\ heap'[o].closed = heap[o].closed
    BY <2>1 DEF StreamsStay
  <2>3. heap[o].closed
    BY <1>1, <2>2 DEF StreamInv, ClosedInv
  <2>. QED  BY <2>2, <2>3
<1>2. ASSUME NEW o \in Objects, heap'[o].phase = "approved",
             heap'[o].status = "idle"
      PROVE  \E x \in Threads : ref'[x] = o /\ pc'[x] \in Approving
  <2>1. ~Freed(o)
    BY <1>0, <1>2 DEF Freed
  <2>2. heap[o].phase = "approved" /\ heap[o].status = "idle"
    BY <1>2, <2>1 DEF StreamsStay
  <2>. QED  BY <2>2, ApprovedWitness DEF StreamsStay, StreamInv
<1>3. ASSUME NEW x \in Threads, pc'[x] \in Following
      PROVE  Written(ref[x]) /\ ref'[x] = ref[x]
  BY <1>3 DEF StreamsStay, Only, StreamInv, Following
<1>4. ASSUME NEW x \in Threads, pc'[x] \in Following
      PROVE  \/ heap'[ref'[x]].closed
             \/ heap'[ref'[x]].status = "building"
             \/ \E y \in Threads : ref'[y] = ref'[x] /\ pc'[y] = "begin"
  <2>1. Written(ref[x]) /\ ref'[x] = ref[x]
    BY <1>3, <1>4
  <2>2. ref'[x] \in Objects
    BY <1>4 DEF MemInv, RefInv, Following, NoObject
  <2>3. ~Freed(ref[x])
    BY <2>1 DEF Freed
  <2>4. /\ heap'[ref[x]].closed = heap[ref[x]].closed
        /\ heap'[ref[x]].status = heap[ref[x]].status
    BY <2>1, <2>2, <2>3 DEF StreamsStay
  <2>5. CASE heap[ref[x]].closed
    BY <2>1, <2>4, <2>5
  <2>6. CASE heap[ref[x]].status = "building"
    BY <2>1, <2>4, <2>6
  <2>7. CASE \E y \in Threads : ref[y] = ref[x] /\ pc[y] = "begin"
    <3>1. PICK y \in Threads : ref[y] = ref[x] /\ pc[y] = "begin"
      BY <2>7
    <3>2. y # th /\ pc'[y] = "begin" /\ ref'[y] = ref[y]
      BY <3>1 DEF StreamsStay, Only, Approving
    <3>. QED  BY <2>1, <3>1, <3>2
  <2>. QED  BY <2>1, <2>5, <2>6, <2>7 DEF Written
<1>5. ClosedInv'
  BY <1>1 DEF ClosedInv
<1>6. ApprovedInv'
  BY <1>2 DEF ApprovedInv, Approving
<1>7. (\A x \in Threads : pc[x] \in Following => Written(ref[x]))'
  BY <1>4 DEF Written
<1>8. ASSUME NEW x \in Threads, pc'[x] = "follow", BuildBegun(ref[x])
      PROVE  heap'[ref'[x]].closed \/ heap'[ref'[x]].status = "building"
  <2>1. ref'[x] = ref[x] /\ ref'[x] \in Objects
    BY <1>3, <1>8 DEF MemInv, RefInv, Following, NoObject
  <2>2. ~Freed(ref[x])
    BY <2>1 DEF Freed
  <2>. QED  BY <1>8, <2>1, <2>2 DEF StreamsStay, BuildBegun
<1>9. FollowInv'
  BY <1>8, FollowKept DEF StreamsStay, StreamInv, Approving
<1>. QED  BY <1>5, <1>6, <1>7, <1>9 DEF StreamInv, Following

\* A step that makes m of the thread's object: what m must be.
LEMMA RewritesStreams ==
    ASSUME MemInv, MemInv', StreamInv, NEW th \in Threads, NEW m, NEW label,
           Rewrites(th, m, label), label \notin Following \cup {"orphan"},
           pc[th] # "begin",
           m.status \notin {"idle", "building"} => m.closed,
           m.phase = "approved" /\ m.status = "idle" => label = "begin",
           \A x \in Threads \ {th} :
              pc[x] \in Following /\ ref[x] = ref[th] => m.closed = Mine(th).closed
                                            /\ m.status = Mine(th).status
    PROVE  StreamInv'
<1>0. /\ Only(th) /\ pc'[th] = label /\ ref' = ref
      /\ heap'[ref[th]] = m /\ ref[th] \in Objects
      /\ \A o \in Objects \ {ref[th]} : heap'[o] = heap[o]
      /\ \A x \in Threads : x # th => pc'[x] = pc[x]
  BY DEF Rewrites
<1>1. ASSUME NEW o \in Objects, heap'[o].status \notin {"idle", "building"}
      PROVE  heap'[o].closed
  <2>1. CASE o = ref[th]
    BY <1>0, <1>1, <2>1
  <2>2. CASE o # ref[th]
    BY <1>0, <1>1, <2>2 DEF StreamInv, ClosedInv
  <2>. QED  BY <2>1, <2>2
<1>2. ASSUME NEW o \in Objects, heap'[o].phase = "approved",
             heap'[o].status = "idle"
      PROVE  \E x \in Threads : ref'[x] = o /\ pc'[x] \in Approving
  <2>1. CASE o = ref[th]
    BY <1>0, <1>2, <2>1 DEF Approving
  <2>2. CASE o # ref[th]
    <3>1. PICK x \in Threads : ref[x] = o /\ pc[x] \in Approving
      BY <1>0, <1>2, <2>2 DEF StreamInv, ApprovedInv, Approving
    <3>2. x # th
      BY <2>2, <3>1
    <3>. QED  BY <1>0, <3>1, <3>2
  <2>. QED  BY <2>1, <2>2
<1>3. ASSUME NEW x \in Threads, pc'[x] \in Following
      PROVE  \/ heap'[ref'[x]].closed
             \/ heap'[ref'[x]].status = "building"
             \/ \E y \in Threads : ref'[y] = ref'[x] /\ pc'[y] = "begin"
  <2>1. x # th /\ pc[x] \in Following /\ ref'[x] = ref[x] /\ Written(ref[x])
    BY <1>0, <1>3 DEF StreamInv, Following
  <2>2. ref[x] \in Objects
    BY <2>1 DEF MemInv, RefInv, Following, NoObject
  <2>3. /\ heap'[ref[x]].closed = heap[ref[x]].closed
        /\ heap'[ref[x]].status = heap[ref[x]].status
    BY <1>0, <2>1, <2>2 DEF Mine
  <2>4. CASE heap[ref[x]].closed
    BY <2>1, <2>3, <2>4
  <2>5. CASE heap[ref[x]].status = "building"
    BY <2>1, <2>3, <2>5
  <2>6. CASE \E y \in Threads : ref[y] = ref[x] /\ pc[y] = "begin"
    <3>1. PICK y \in Threads : ref[y] = ref[x] /\ pc[y] = "begin"
      BY <2>6
    <3>2. y # th /\ pc'[y] = "begin" /\ ref'[y] = ref[y]
      BY <1>0, <3>1
    <3>. QED  BY <2>1, <3>1, <3>2
  <2>. QED  BY <2>1, <2>4, <2>5, <2>6 DEF Written
<1>4. ClosedInv'
  BY <1>1 DEF ClosedInv
<1>5. ApprovedInv'
  BY <1>2 DEF ApprovedInv, Approving
<1>6. (\A x \in Threads : pc[x] \in Following => Written(ref[x]))'
  BY <1>3 DEF Written
<1>7. ASSUME NEW x \in Threads, pc'[x] = "follow", BuildBegun(ref[x])
      PROVE  heap'[ref'[x]].closed \/ heap'[ref'[x]].status = "building"
  <2>1. x # th /\ pc[x] = "follow" /\ ref'[x] = ref[x]
    BY <1>0, <1>7 DEF Following
  <2>2. ref[x] \in Objects
    BY <2>1 DEF MemInv, RefInv, NoObject
  <2>3. /\ heap'[ref[x]].closed = heap[ref[x]].closed
        /\ heap'[ref[x]].status = heap[ref[x]].status
    BY <1>0, <2>1, <2>2 DEF Mine, Following
  <2>. QED  BY <1>7, <2>1, <2>3 DEF BuildBegun
<1>8. FollowInv'
  BY <1>0, <1>7, FollowKept DEF StreamInv, Following
<1>. QED  BY <1>4, <1>5, <1>6, <1>8 DEF StreamInv, Following

\* A build begins: the streams of its object keep the list they pinned.
LEMMA BeginStreams ==
    ASSUME WorkInv, StreamInv, NEW th \in Threads, BeginBuild(th)
    PROVE  StreamInv'
<1>1. /\ MemInv' /\ pc[th] = "begin" /\ pc'[th] = "build" /\ ref' = ref
      /\ heap'[ref[th]] = Begun(th) /\ ref[th] \in Objects
      /\ \A o \in Objects \ {ref[th]} : heap'[o] = heap[o]
      /\ \A x \in Threads : x # th =>
            IF ref[x] = ref[th] /\ pc[x] = "follow"
            THEN pc'[x] = IF heap[ref[x]].closed THEN "replay" ELSE "orphan"
            ELSE pc'[x] = pc[x]
  BY BeginBuildEffect DEF WorkInv
<1>2. Begun(th).status = "building"
  BY <1>1, HasObject DEF Begun, NoObject, Object, WorkInv
<1>3. ClosedInv'
  BY <1>1, <1>2 DEF StreamInv, ClosedInv
<1>4. ASSUME NEW o \in Objects, heap'[o].phase = "approved",
             heap'[o].status = "idle"
      PROVE  \E x \in Threads : ref'[x] = o /\ pc'[x] \in Approving
  <2>1. o # ref[th]
    BY <1>1, <1>2, <1>4
  <2>2. PICK x \in Threads : ref[x] = o /\ pc[x] \in Approving
    BY <1>1, <1>4, <2>1 DEF StreamInv, ApprovedInv, Approving
  <2>. QED  BY <1>1, <2>1, <2>2 DEF Approving
<1>5. ASSUME NEW x \in Threads, pc'[x] \in Following
      PROVE  \/ heap'[ref'[x]].closed
             \/ heap'[ref'[x]].status = "building"
             \/ \E y \in Threads : ref'[y] = ref'[x] /\ pc'[y] = "begin"
  <2>1. x # th /\ pc[x] \in Following /\ ref'[x] = ref[x] /\ Written(ref[x])
    BY <1>1, <1>5 DEF StreamInv, Following
  <2>2. CASE ref[x] = ref[th]
    BY <1>1, <1>2, <2>1, <2>2
  <2>3. CASE ref[x] # ref[th]
    <3>1. ref[x] \in Objects
      BY <2>1 DEF WorkInv, MemInv, RefInv, Following, NoObject
    <3>2. heap'[ref[x]] = heap[ref[x]]
      BY <1>1, <2>3, <3>1
    <3>3. CASE heap[ref[x]].closed \/ heap[ref[x]].status = "building"
      BY <2>1, <3>2, <3>3
    <3>4. CASE \E y \in Threads : ref[y] = ref[x] /\ pc[y] = "begin"
      <4>1. PICK y \in Threads : ref[y] = ref[x] /\ pc[y] = "begin"
        BY <3>4
      <4>2. y # th /\ pc'[y] = "begin" /\ ref'[y] = ref[y]
        BY <1>1, <2>3, <4>1
      <4>. QED  BY <2>1, <4>1, <4>2
    <3>. QED  BY <2>1, <3>3, <3>4 DEF Written
  <2>. QED  BY <2>2, <2>3
<1>6. ApprovedInv'
  BY <1>4 DEF ApprovedInv, Approving
<1>7. (\A x \in Threads : pc[x] \in Following => Written(ref[x]))'
  BY <1>5 DEF Written
<1>8. ASSUME NEW x \in Threads
      PROVE  /\ pc'[x] # "orphan"
             /\ pc'[x] = "follow" =>
                   heap'[ref[x]].closed \/ heap'[ref[x]].status = "building"
  <2>1. CASE x = th
    BY <1>1, <2>1
  <2>2. CASE x # th /\ pc[x] # "follow"
    BY <1>1, <2>2 DEF StreamInv, FollowInv
  <2>3. CASE x # th /\ pc[x] = "follow" /\ ref[x] = ref[th]
    <3>1. heap[ref[x]].status # "building"
      BY <1>1, <2>3 DEF WorkInv, BuildInv
    <3>2. heap[ref[x]].closed
      BY <2>3, <3>1 DEF StreamInv, FollowInv, BuildBegun
    <3>. QED  BY <1>1, <2>3, <3>2
  <2>4. CASE x # th /\ pc[x] = "follow" /\ ref[x] # ref[th]
    <3>1. heap'[ref[x]] = heap[ref[x]]
      BY <1>1, <2>4 DEF WorkInv, MemInv, RefInv, NoObject
    <3>. QED  BY <1>1, <2>4, <3>1 DEF StreamInv, FollowInv, BuildBegun
  <2>. QED  BY <2>1, <2>2, <2>3, <2>4
<1>9. FollowInv'
  BY <1>1, <1>8 DEF FollowInv, BuildBegun
<1>. QED  BY <1>3, <1>6, <1>7, <1>9 DEF StreamInv, Following

\* A build settles: its object gets its terminal event.
LEMMA SettleStreams ==
    ASSUME WorkInv, StreamInv, NEW th \in Threads, Settle(th)
    PROVE  StreamInv'
<1>0. pc[th] = "settle" /\ out[th] \in Outcomes /\ MemInv
  BY DEF Settle, WorkInv, BuildInv
<1>1. MemInv' /\ Only(th) /\ Ends(th) /\ Becomes(With(th, Settled(th)))
  BY <1>0, SettleEffect
<1>2. Mine(th) \in Object /\ ref[th] \in Objects
  BY <1>0, HasObject DEF NoObject
<1>3. Settled(th) \in Object
  BY <1>0, <1>2 DEF Settled, Object, BuildState
<1>4. Settled(th).status = out[th] /\ Settled(th).closed
  BY <1>2 DEF Settled, Object
<1>5. /\ With(th, Settled(th))[ref[th]] = Settled(th)
      /\ \A o \in Objects \ {ref[th]} : With(th, Settled(th))[o] = heap[o]
  BY <1>0, <1>3, WithFacts DEF NoObject
<1>6. /\ heap'[ref[th]] = Settled(th) \/ Freed(ref[th])
      /\ \A o \in Objects \ {ref[th]} : heap'[o] = heap[o] \/ Freed(o)
  BY <1>1, <1>2, <1>5 DEF Becomes
<1>7. Blank.status = "idle" /\ Blank.phase = "intake" /\ out[th] # "idle"
  BY <1>0 DEF Blank, Outcomes
<1>8. ASSUME NEW o \in Objects, heap'[o].status \notin {"idle", "building"}
      PROVE  heap'[o].closed
  <2>1. ~Freed(o)
    BY <1>7, <1>8 DEF Freed
  <2>2. CASE o = ref[th]
    BY <1>4, <1>6, <2>1, <2>2
  <2>3. CASE o # ref[th]
    BY <1>6, <1>8, <2>1, <2>3 DEF StreamInv, ClosedInv
  <2>. QED  BY <2>2, <2>3
<1>9. ASSUME NEW o \in Objects, heap'[o].phase = "approved",
             heap'[o].status = "idle"
      PROVE  \E x \in Threads : ref'[x] = o /\ pc'[x] \in Approving
  <2>1. ~Freed(o)
    BY <1>7, <1>9 DEF Freed
  <2>2. o # ref[th]
    BY <1>4, <1>6, <1>7, <1>9, <2>1
  <2>3. heap'[o] = heap[o]
    BY <1>6, <2>1, <2>2
  <2>. QED  BY <1>0, <1>1, <1>9, <2>3, ApprovedWitness DEF StreamInv, Approving
<1>10. ASSUME NEW x \in Threads, pc'[x] \in Following
       PROVE  \/ heap'[ref'[x]].closed
              \/ heap'[ref'[x]].status = "building"
              \/ \E y \in Threads : ref'[y] = ref'[x] /\ pc'[y] = "begin"
  <2>1. x # th /\ pc[x] \in Following /\ ref'[x] = ref[x] /\ Written(ref[x])
    BY <1>1, <1>10 DEF StreamInv, Following, Only, Ends
  <2>2. ref[x] \in Objects /\ ~Freed(ref[x])
    BY <2>1 DEF WorkInv, MemInv, RefInv, Following, NoObject, Freed
  <2>3. CASE ref[x] = ref[th]
    BY <1>4, <1>6, <2>1, <2>2, <2>3
  <2>4. CASE ref[x] # ref[th]
    <3>2. heap'[ref[x]] = heap[ref[x]]
      BY <1>6, <2>2, <2>4
    <3>3. CASE heap[ref[x]].closed \/ heap[ref[x]].status = "building"
      BY <2>1, <3>2, <3>3
    <3>4. CASE \E y \in Threads : ref[y] = ref[x] /\ pc[y] = "begin"
      <4>1. PICK y \in Threads : ref[y] = ref[x] /\ pc[y] = "begin"
        BY <3>4
      <4>2. y # th /\ pc'[y] = "begin" /\ ref'[y] = ref[y]
        BY <1>0, <1>1, <4>1 DEF Only
      <4>. QED  BY <2>1, <4>1, <4>2
    <3>. QED  BY <2>1, <3>3, <3>4 DEF Written
  <2>. QED  BY <2>3, <2>4
<1>11. ClosedInv'
  BY <1>8 DEF ClosedInv
<1>12. ApprovedInv'
  BY <1>9 DEF ApprovedInv, Approving
<1>13. (\A x \in Threads : pc[x] \in Following => Written(ref[x]))'
  BY <1>10 DEF Written
<1>14. ASSUME NEW x \in Threads, pc'[x] = "follow", BuildBegun(ref[x])
       PROVE  heap'[ref'[x]].closed \/ heap'[ref'[x]].status = "building"
  <2>1. x # th /\ pc[x] = "follow" /\ ref'[x] = ref[x]
    BY <1>0, <1>1, <1>14 DEF Only, Ends
  <2>2. ref[x] \in Objects /\ ~Freed(ref[x])
    BY <2>1 DEF WorkInv, MemInv, RefInv, NoObject, Freed
  <2>3. CASE ref[x] = ref[th]
    BY <1>4, <1>6, <2>1, <2>2, <2>3
  <2>4. CASE ref[x] # ref[th]
    BY <1>6, <1>14, <2>1, <2>2, <2>4 DEF BuildBegun
  <2>. QED  BY <2>3, <2>4
<1>15. FollowInv'
  BY <1>0, <1>1, <1>14, FollowKept DEF StreamInv, Ends
<1>. QED  BY <1>11, <1>12, <1>13, <1>15 DEF StreamInv, Following

\* A new object has nobody following it, and is closed or idle.
LEMMA MakesNewStreams ==
    ASSUME WorkInv, MemInv', StreamInv, NEW th \in Threads, NEW m,
           MakesNew(th, m), m.status = "idle",
           m.phase = "approved" => pc'[th] = "builds"
    PROVE  StreamInv'
<1>1. /\ Only(th) /\ pc[th] \in {"idle", "specs"}
      /\ pc'[th] \in {"start", "builds"}
      /\ ref'[th] \in Objects \ Live(reg, ref) /\ heap'[ref'[th]] = m
      /\ \A o \in Objects \ {ref'[th]} : heap'[o] = heap[o] \/ Freed(o)
  BY DEF MakesNew, Makes
<1>2. Blank.status = "idle" /\ Blank.phase = "intake"
  BY DEF Blank
<1>3. \A x \in Threads : ref[x] # ref'[th]
  BY <1>1, NullAssumption DEF Live
<1>4. ASSUME NEW o \in Objects, heap'[o].status \notin {"idle", "building"}
      PROVE  heap'[o].closed
  <2>1. o # ref'[th] /\ heap'[o] = heap[o]
    BY <1>1, <1>2, <1>4 DEF Freed
  <2>. QED  BY <1>4, <2>1 DEF StreamInv, ClosedInv
<1>5. ASSUME NEW o \in Objects, heap'[o].phase = "approved",
             heap'[o].status = "idle"
      PROVE  \E x \in Threads : ref'[x] = o /\ pc'[x] \in Approving
  <2>1. CASE o = ref'[th]
    BY <1>1, <1>5, <2>1 DEF Approving
  <2>2. CASE o # ref'[th]
    <3>1. heap'[o] = heap[o]
      BY <1>1, <1>2, <1>5, <2>2 DEF Freed
    <3>. QED
      BY <1>1, <1>5, <3>1, ApprovedWitness DEF StreamInv, Approving, WorkInv
  <2>. QED  BY <2>1, <2>2
<1>6. ASSUME NEW x \in Threads, pc'[x] \in Following
      PROVE  \/ heap'[ref'[x]].closed
             \/ heap'[ref'[x]].status = "building"
             \/ \E y \in Threads : ref'[y] = ref'[x] /\ pc'[y] = "begin"
  <2>1. x # th /\ pc[x] \in Following /\ ref'[x] = ref[x] /\ Written(ref[x])
    BY <1>1, <1>6 DEF StreamInv, Following, Only
  <2>2. ref[x] \in Objects /\ ~Freed(ref[x])
    BY <2>1 DEF WorkInv, MemInv, RefInv, Following, NoObject, Freed
  <2>3. heap'[ref[x]] = heap[ref[x]]
    BY <1>1, <1>3, <2>2
  <2>4. CASE heap[ref[x]].closed \/ heap[ref[x]].status = "building"
    BY <2>1, <2>3, <2>4
  <2>5. CASE \E y \in Threads : ref[y] = ref[x] /\ pc[y] = "begin"
    <3>1. PICK y \in Threads : ref[y] = ref[x] /\ pc[y] = "begin"
      BY <2>5
    <3>2. y # th /\ pc'[y] = "begin" /\ ref'[y] = ref[y]
      BY <1>1, <3>1 DEF Only
    <3>. QED  BY <2>1, <3>1, <3>2
  <2>. QED  BY <2>1, <2>4, <2>5 DEF Written
<1>7. ClosedInv'
  BY <1>4 DEF ClosedInv
<1>8. ApprovedInv'
  BY <1>5 DEF ApprovedInv, Approving
<1>9. (\A x \in Threads : pc[x] \in Following => Written(ref[x]))'
  BY <1>6 DEF Written
<1>10. ASSUME NEW x \in Threads, pc'[x] = "follow", BuildBegun(ref[x])
       PROVE  heap'[ref'[x]].closed \/ heap'[ref'[x]].status = "building"
  <2>1. x # th /\ pc[x] = "follow" /\ ref'[x] = ref[x]
    BY <1>1, <1>10 DEF Only
  <2>2. ref[x] \in Objects /\ ~Freed(ref[x])
    BY <2>1 DEF WorkInv, MemInv, RefInv, NoObject, Freed
  <2>. QED  BY <1>1, <1>3, <1>10, <2>1, <2>2 DEF BuildBegun
<1>11. FollowInv'
  BY <1>1, <1>10, FollowKept DEF StreamInv
<1>. QED  BY <1>7, <1>8, <1>9, <1>11 DEF StreamInv, Following

\* A step of an idle hand: no object changes but those it frees.
LEMMA BecomesStreams ==
    ASSUME MemInv, MemInv', StreamInv, NEW th \in Threads, Only(th),
           Becomes(heap), pc[th] \notin Approving,
           pc'[th] \notin Following \cup {"orphan"}
    PROVE  StreamInv'
<1>1. StreamsStay(th)
  BY DEF StreamsStay, Becomes, Following
<1>. QED  BY <1>1, StreamsStayKeeps

\* A stream that has found its session approved or past its build.
LEMMA StreamOpensStreams ==
    ASSUME WorkInv, StreamInv, NEW th \in Threads, StreamOpens(th)
    PROVE  StreamInv'
<1>1. /\ MemInv' /\ Only(th) /\ ref' = ref /\ heap' = heap
  BY WalksEffect DEF Walks, Steps, WorkInv
<1>2. /\ pc[th] = "check"
      /\ Mine(th).phase = "approved" \/ Mine(th).status # "idle"
  BY DEF StreamOpens
<1>3. ref[th] \in Objects
  BY <1>2, HasObject DEF NoObject, WorkInv
<1>4. Written(ref[th])
  <2>1. CASE Mine(th).status # "idle"
    BY <1>3, <2>1 DEF Written, Mine, StreamInv, ClosedInv
  <2>2. CASE Mine(th).status = "idle"
    <3>1. PICK x \in Threads : ref[x] = ref[th] /\ pc[x] \in {"begin", "builds"}
      BY <1>2, <1>3, <2>2 DEF StreamInv, ApprovedInv, Mine
    <3>2. pc[x] # "builds"
      BY <1>2, <3>1 DEF WorkInv, MemInv, PrivateInv, Private
    <3>. QED  BY <3>1, <3>2 DEF Written
  <2>. QED  BY <2>1, <2>2
<1>5. pc'[th] = "pin"
  BY DEF StreamOpens, Go, WorkInv, MemInv, StateOK
<1>6. StreamsStay(th)
  BY <1>1, <1>2, <1>4, <1>5 DEF StreamsStay, Approving
<1>. QED  BY <1>1, <1>6, StreamsStayKeeps DEF WorkInv

\* Other steps that leave all objects alone.
LEMMA StepsStreams ==
    ASSUME MemInv, MemInv', StreamInv, NEW th \in Threads, Only(th),
           heap' = heap, pc[th] \notin Approving,
           pc'[th] \in Following => pc[th] = "pin" /\ ref' = ref,
           pc'[th] # "orphan", pc'[th] = "follow" => BuildBegun(ref[th])
    PROVE  StreamInv'
<1>1. StreamsStay(th)
  BY DEF StreamsStay, StreamInv
<1>. QED  BY <1>1, StreamsStayKeeps

LEMMA StreamHandler ==
    ASSUME WorkInv, StreamInv, NEW th \in Threads, Handler(th)
    PROVE  StreamInv'
<1>0. MemInv /\ MemInv'
  BY WorkHandler DEF WorkInv
<1>. USE <1>0
<1>1. ASSUME NEW phase \in {"clarify", "approve"}, FirstTurn(th, phase)
      PROVE  StreamInv'
  <2>. DEFINE m == [Mine(th) EXCEPT !.phase = phase]
  <2>1. pc[th] = "start" /\ Rewrites(th, m, "register")
    BY <1>1, FirstTurnEffect
  <2>2. Mine(th) \in Object /\ ref[th] \in Objects
    BY <2>1, HasObject DEF NoObject
  <2>3. /\ m.status = Mine(th).status /\ m.closed = Mine(th).closed
        /\ m.phase # "approved"
    BY <2>2 DEF Object
  <2>4. m.status \notin {"idle", "building"} => m.closed
    BY <2>2, <2>3 DEF StreamInv, ClosedInv, Mine
  <2>. HIDE DEF m
  <2>. QED  BY <2>1, <2>3, <2>4, RewritesStreams DEF Following
<1>2. CASE \/ FirstTurnFails(th) \/ Unknown(th) \/ Foreign(th)
           \/ DeleteRefused(th) \/ Tombstone(th) \/ StreamEnds(th)
  <2>1. Only(th) /\ Leaves(th)
    BY <1>2, LeavesEffect
  <2>. QED
    BY <2>1, BecomesStreams DEF Leaves, Ends, Approving, Following, StreamPc
<1>3. CASE Register(th)
  <2>1. Only(th) /\ Ends(th) /\ Becomes(heap) /\ pc[th] = "register"
    BY <1>3, RegisterEffect DEF Register
  <2>. QED  BY <2>1, BecomesStreams DEF Ends, Approving, Following
<1>4. CASE Hit(th)
  <2>1. Only(th) /\ heap' = heap /\ pc[th] = "get" /\ pc'[th] = "check"
    BY <1>4, HitEffect DEF Finds
  <2>. QED  BY <2>1, StepsStreams DEF Approving, Following
<1>5. CASE Insert(th)
  <2>1. Only(th) /\ Becomes(heap) /\ pc[th] = "insert" /\ pc'[th] = "check"
    BY <1>5, InsertEffect DEF Finds
  <2>. QED  BY <2>1, BecomesStreams DEF Approving, Following
<1>6. CASE ReadSpecs(th)
  <2>1. MakesNew(th, Resumed(sid[th])) /\ pc'[th] = "builds"
    BY <1>6, ReadSpecsEffect
  <2>2. Resumed(sid[th]).status = "idle"
    BY DEF Resumed, Blank
  <2>. QED  BY <2>1, <2>2, MakesNewStreams
<1>7. CASE ReadBuilds(th)
  <2>1. pc[th] = "builds" /\ Rewrites(th, Hydrated(th), "insert")
    BY <1>7, ReadBuildsEffect
  <2>2. Mine(th) \in Object
    BY <2>1, HasObject DEF NoObject
  <2>. DEFINE status == ResumedStatus(last[sid[th]], Mine(th).phase)
  <2>3. /\ Hydrated(th).status = status
        /\ Hydrated(th).phase = Mine(th).phase
        /\ Hydrated(th).closed = (status # "idle")
    BY <2>2 DEF Hydrated, Object
  <2>4. Hydrated(th).status # "idle" => Hydrated(th).closed
    BY <2>3
  <2>5. Mine(th).phase = "approved" => status # "idle"
    <3>1. last[sid[th]] # "idle"
      BY <2>1, HasObject DEF NoObject, MemInv, StateOK, Outcomes
    <3>. QED  BY <3>1 DEF ResumedStatus
  <2>6. \A x \in Threads \ {th} : ref[x] # ref[th]
    BY <2>1 DEF MemInv, PrivateInv, Private
  <2>. HIDE DEF status
  <2>. QED
    BY <2>1, <2>3, <2>4, <2>5, <2>6, RewritesStreams DEF Following
<1>8. CASE Lock(th)
  <2>. DEFINE m == [Mine(th) EXCEPT !.lock = th]
  <2>1. pc[th] = "check" /\ Rewrites(th, m, "locked")
    BY <1>8, LockEffect
  <2>2. Only(th) /\ pc'[th] = "locked"
    BY <2>1 DEF Rewrites
  <2>3. \A o \in Objects :
          /\ heap'[o].status = heap[o].status /\ heap'[o].closed = heap[o].closed
          /\ heap'[o].phase = heap[o].phase
    BY <2>1, HasObject DEF Rewrites, Mine, Object, NoObject
  <2>4. StreamsStay(th)
    BY <2>1, <2>2, <2>3 DEF StreamsStay, Approving, Following
  <2>. QED  BY <2>4, StreamsStayKeeps
<1>9. CASE ApproveDenied(th) \/ ReplyIdle(th)
  <2>1. /\ Only(th) /\ Ends(th)
        /\ Becomes(Unlocked(th, Mine(th))) /\ pc[th] = "locked"
    BY <1>9, UnlocksEffect
  <2>2. Mine(th) \in Object /\ Mine(th).sid = sid[th]
    BY <2>1, HasObject DEF NoObject
  <2>3. /\ Unlocked(th, Mine(th))[ref[th]] = [Mine(th) EXCEPT !.lock = Null]
        /\ \A o \in Objects \ {ref[th]} : Unlocked(th, Mine(th))[o] = heap[o]
    BY <2>1, <2>2, UnlockedFacts DEF NoObject
  <2>4. \A o \in Objects :
          /\ Unlocked(th, Mine(th))[o].status = heap[o].status
          /\ Unlocked(th, Mine(th))[o].closed = heap[o].closed
          /\ Unlocked(th, Mine(th))[o].phase = heap[o].phase
    BY <2>2, <2>3 DEF Object, Mine
  <2>5. StreamsStay(th)
    BY <2>1, <2>4 DEF StreamsStay, Approving, Following, Ends, Becomes
  <2>. QED  BY <2>5, StreamsStayKeeps
<1>10. CASE ReplyProposes(th)
  <2>1. /\ Only(th) /\ Ends(th) /\ Becomes(Proposed(th)) /\ pc[th] = "locked"
    BY <1>10, ProposesEffect
  <2>2. heap \in Heaps /\ ref[th] \in Objects /\ Mine(th) = heap[ref[th]]
    BY <2>1, HasObject DEF NoObject, Mine
  <2>3. ASSUME NEW o \in Objects
        PROVE  /\ Proposed(th)[o].status = heap[o].status
               /\ Proposed(th)[o].closed = heap[o].closed
               /\ \/ Proposed(th)[o].phase = heap[o].phase
                  \/ Proposed(th)[o].phase # "approved"
    <3>1. heap[o] \in Object
      BY <2>2 DEF Heaps
    <3>2. CASE o = ref[th]
      <4>1. Proposed(th)[o] = [heap[o] EXCEPT !.phase = "approve",
                                              !.newest = TRUE, !.lock = Null]
        BY <2>2, <3>2 DEF Proposed
      <4>. QED  BY <3>1, <4>1 DEF Object
    <3>3. CASE o # ref[th]
      <4>1. \/ Proposed(th)[o] = [heap[o] EXCEPT !.newest = FALSE]
            \/ Proposed(th)[o] = heap[o]
        BY <3>3 DEF Proposed
      <4>. QED  BY <3>1, <4>1 DEF Object
    <3>. QED  BY <3>2, <3>3
  <2>4. StreamsStay(th)
    BY <2>1, <2>3 DEF StreamsStay, Approving, Following, Ends, Becomes
  <2>. QED  BY <2>4, StreamsStayKeeps
<1>11. CASE Approve(th)
  <2>1. pc[th] = "locked" /\ Rewrites(th, Granted(th), "begin")
    BY <1>11, ApproveEffect
  <2>2. Mine(th) \in Object /\ ref[th] \in Objects
    BY <2>1, HasObject DEF NoObject
  <2>3. /\ Granted(th).status = Mine(th).status
        /\ Granted(th).closed = Mine(th).closed
    BY <2>2 DEF Granted, Object
  <2>4. Granted(th).status \notin {"idle", "building"} => Granted(th).closed
    BY <2>2, <2>3 DEF StreamInv, ClosedInv, Mine
  <2>. QED  BY <2>1, <2>3, <2>4, RewritesStreams DEF Following
<1>12. CASE BeginBuild(th)
  BY <1>12, BeginStreams
<1>13. CASE StreamOpens(th)
  BY <1>13, StreamOpensStreams
<1>14. CASE Walks(th) /\ ~StreamOpens(th)
  <2>1. Only(th) /\ ref' = ref /\ heap' = heap /\ Path(th, pc'[th])
    BY <1>14, WalksEffect DEF Steps
  <2>2. pc'[th] # "pin"
    BY <1>14, GoFacts DEF Walks, Miss, MarkBuilding, DeleteAllowed, Pin,
       ThreadPc, HandlerPc, BuildPc, StreamPc, MemInv
  <2>. QED  BY <2>1, <2>2, StepsStreams DEF Path, Approving, Following
<1>15. ASSUME NEW outcome \in Outcomes,
              \/ Built(th, outcome)
              \/ Blocked(th) /\ outcome = "failed"
       PROVE  StreamInv'
  <2>1. /\ Only(th) /\ heap' = heap
        /\ pc[th] \in {"build", "marked"} /\ pc'[th] = "settle"
    BY <1>15, BuildEndsEffect DEF Steps
  <2>. QED  BY <2>1, StepsStreams DEF Approving, Following
<1>16. CASE Pop(th)
  <2>1. /\ Only(th) /\ Becomes(heap) /\ pc[th] = "pop"
        /\ pc'[th] = "tombstone"
    BY <1>16, PopEffect
  <2>. QED  BY <2>1, BecomesStreams DEF Approving, Following
<1>17. CASE Settle(th)
  BY <1>17, SettleStreams
<1>18. "failed" \in Outcomes /\ Results \subseteq Outcomes
  BY RequestsAssumption DEF Outcomes
<1>. QED
  BY <1>1, <1>2, <1>3, <1>4, <1>5, <1>6, <1>7, <1>8, <1>9, <1>10, <1>11, <1>12,
     <1>13, <1>14, <1>15, <1>16, <1>17, <1>18
     DEF Handler, Get, BuildSteps, Walks

LEMMA StreamNext == WorkInv /\ StreamInv /\ [Next]_vars => StreamInv'
<1>. SUFFICES ASSUME WorkInv, StreamInv, [Next]_vars PROVE StreamInv'
  OBVIOUS
<1>0. WorkInv'
  BY WorkNext
<1>1. CASE Restart
  <2>1. /\ \A o \in Objects : heap'[o] = Blank
        /\ \A th \in Threads : pc'[th] = "idle"
    BY <1>1, RestartEffect DEF WorkInv
  <2>2. Blank.status = "idle" /\ Blank.phase = "intake"
    BY DEF Blank
  <2>. QED  BY <2>1, <2>2 DEF StreamInv, ClosedInv, ApprovedInv, FollowInv
<1>2. CASE UNCHANGED vars
  BY <1>2 DEF StreamInv, ClosedInv, ApprovedInv, FollowInv, BuildBegun, Written,
     vars, threadVars
<1>3. ASSUME NEW th \in Threads, NEW s \in Sessions, Create(th, s)
      PROVE  StreamInv'
  <2>1. MemInv' /\ MakesNew(th, Started(s))
    BY <1>3, CreateEffect DEF WorkInv
  <2>2. Started(s).status = "idle" /\ Started(s).phase = "intake"
    BY DEF Started, Blank
  <2>. QED  BY <2>1, <2>2, MakesNewStreams
<1>4. ASSUME NEW th \in Threads, NEW s \in Sessions, NEW kind \in Requests,
             Arrive(th, kind, s)
      PROVE  StreamInv'
  <2>1. /\ pc[th] = "idle" /\ pc'[th] = "get" /\ heap' = heap /\ ref' = ref
        /\ \A x \in Threads : x # th => pc'[x] = pc[x]
    BY <1>4, ArriveFacts DEF WorkInv
  <2>2. ClosedInv'
    BY <2>1 DEF StreamInv, ClosedInv
  <2>3. ApprovedInv'
    BY <2>1 DEF StreamInv, ApprovedInv
  <2>4. (\A x \in Threads :
            pc[x] \in {"pin", "early", "follow"} => Written(ref[x]))'
    BY <2>1 DEF StreamInv, Written
  <2>5. FollowInv'
    BY <2>1 DEF StreamInv, FollowInv, BuildBegun
  <2>. QED  BY <2>2, <2>3, <2>4, <2>5 DEF StreamInv
<1>. QED  BY <1>1, <1>2, <1>3, <1>4, StreamHandler DEF Next, Client

LEMMA StreamInit == Init => StreamInv
<1>. SUFFICES ASSUME Init PROVE StreamInv
  OBVIOUS
<1>1. Blank.status = "idle" /\ Blank.phase = "intake"
  BY DEF Blank
<1>. QED  BY <1>1 DEF Init, StreamInv, ClosedInv, ApprovedInv, FollowInv

\* With any number of requests, evictions, deletes and restarts, a stream that
\* joined a build running or over waits on a list that has its terminal event,
\* or that the running build closes: no reset_events of a later approve strands
\* it.  One that joined before its approve reset the events has an approve or a
\* build under way on its object, and may be left on the list that approve
\* replaced: EveryStreamCloses is what that breaks (ManagedSession.stream_events,
\* reset_events, apply_build_success and apply_build_failure, and the terminal
\* event _hydrate puts in).
THEOREM StreamsAreServed == Spec => []StreamHasWriter
<1>1. StreamInv => StreamHasWriter
  BY DEF StreamInv, FollowInv, StreamHasWriter, Written, BuildBegun,
     ApproveUnderWay
<1>. QED  BY <1>1, WorkInvariance, StreamInit, StreamNext, PTL DEF Spec

-----------------------------------------------------------------------------
(* Without deletes and evictions. *)

\* While a session is not registered, the registry has room for it.
LEMMA NoneEvicted ==
    ASSUME NoEviction, MemInv, NEW s \in Sessions, Lookup(s) = {}
    PROVE  Evicted = {}
<1>1. \A o \in reg : heap[o].sid \in Sessions \ {s}
  BY DEF MemInv, RegInv, Lookup
<1>. DEFINE f == [o \in reg |-> heap[o].sid]
<1>2. f \in Injection(reg, Sessions \ {s})
  BY <1>1 DEF MemInv, RegInv, Injection, IsInjective
<1>3. /\ IsFiniteSet(Sessions \ {s})
      /\ Cardinality(Sessions \ {s}) = Cardinality(Sessions) - 1
  BY FS_RemoveElement, ObjectsAssumption
<1>4. IsFiniteSet(reg) /\ Cardinality(reg) <= Cardinality(Sessions \ {s})
  BY <1>2, <1>3, FS_Injection
<1>5. Cardinality(reg) \in Nat /\ Cardinality(Sessions) \in Nat
  BY <1>4, FS_CardinalityType, ObjectsAssumption
<1>6. Cardinality(reg) < MaxSessions
  BY <1>3, <1>4, <1>5, CapAssumption DEF NoEviction
<1>7. ASSUME NEW o \in reg PROVE o \notin Evicted
  <2>. DEFINE P == {p \in reg : Evictable(p) /\ <<p, o>> \in older}
  <2>1. Cardinality(P) \in Nat
    BY <1>4, FS_Subset, FS_CardinalityType
  <2>. HIDE DEF P
  <2>2. ~(Cardinality(P) + MaxSessions <= Cardinality(reg))
    BY <1>5, <1>6, <2>1, CapAssumption
  <2>. QED  BY <2>2 DEF Evicted, P
<1>. QED  BY <1>7 DEF Evicted

\* Of an object whose phase, status and session's rows are as they were.
LEMMA ShowsSame ==
    ASSUME NEW o, NEW s, ShowsRows(o, s),
           heap'[o].phase = heap[o].phase, heap'[o].status = heap[o].status,
           heap'[o].newest = heap[o].newest,
           spec'[s] = spec[s], last'[s] = last[s]
    PROVE  ShowsRows(o, s)'
<1>1. heap'[o].phase = ResumedPhase(s)'
  BY DEF ShowsRows, ResumedPhase
<1>2. heap'[o].newest
  BY DEF ShowsRows
<1>3. heap'[o].status # "building" =>
          IF last'[s] = "none" THEN heap'[o].status \in {"idle", "failed"}
          ELSE heap'[o].status = last'[s]
  BY DEF ShowsRows
<1>. QED  BY <1>1, <1>2, <1>3 DEF ShowsRows

\* The thread works on the registered object of its session, or starts it.
Worked(th) == pc[th] \notin NoObject /\ (op[th] = "start" \/ ref[th] \in reg)

\* The rows and objects of no other session are touched, and those of its own
\* only by a thread that works on it.
Quiet(th) ==
    /\ Only(th)
    /\ \A s \in Sessions : s # sid[th] =>
          spec'[s] = spec[s] /\ last'[s] = last[s]
    /\ reg \subseteq reg' /\ reg' \subseteq reg \cup {ref[th], ref'[th]}
    /\ \A o \in reg : heap'[o].sid = heap[o].sid
    /\ \A o \in Objects \ {ref[th], ref'[th]} :
          \/ Freed(o)
          \/ /\ heap'[o].sid = heap[o].sid /\ heap'[o].phase = heap[o].phase
             /\ heap'[o].status = heap[o].status
             /\ \/ heap'[o].newest = heap[o].newest
                \/ heap[o].sid = sid[th] /\ Worked(th)
    /\ \/ spec' = spec
       \/ Worked(th)
    /\ \/ last' = last
       \/ pc[th] \in BuildPc

\* Whoever works on a session has it to itself: no other registered object is
\* of that session, and no thread that still counts on it being unregistered.
LEMMA WorkedAlone ==
    ASSUME WorkInv, NEW th \in Threads, Worked(th)
    PROVE  /\ \A o \in reg \ {ref[th]} : heap[o].sid # sid[th]
           /\ \A x \in Threads \ {th} :
                 op[x] = "start" \/ (pc[x] \in Private /\ Lookup(sid[x]) = {})
                 => sid[x] # sid[th]
<1>0. MemInv
  BY DEF WorkInv
<1>1. ref[th] \in Objects /\ heap[ref[th]].sid = sid[th]
  BY <1>0 DEF MemInv, RefInv, Worked
<1>2. CASE op[th] = "start"
  BY <1>0, <1>1, <1>2 DEF MemInv, StartInv, StateOK
<1>3. CASE ref[th] \in reg
  BY <1>0, <1>1, <1>3 DEF MemInv, StartInv, RegInv, Lookup
<1>. QED  BY <1>2, <1>3 DEF Worked

LEMMA QuietStep ==
    ASSUME WorkInv, WorkInv', QuietInv, NEW th \in Threads, Quiet(th),
           QuietThread(th)',
           \A o \in reg' : o \in {ref[th], ref'[th]} =>
                ShowsRows(o, heap[o].sid)'
    PROVE  QuietInv'
<1>0. MemInv /\ MemInv' /\ BuildInv /\ StateOK
  BY DEF WorkInv, MemInv
<1>1. \A s : Lookup(s)' = {} => Lookup(s) = {}
  BY DEF Lookup, Quiet
<1>2. BuildPc \cap NoObject = {}
  BY DEF BuildPc, NoObject
<1>3. ASSUME pc[th] \in BuildPc PROVE Worked(th)
  <2>1. pc[th] \notin NoObject \cup Private
    BY <1>3 DEF BuildPc, NoObject, Private
  <2>. QED  BY <2>1 DEF QuietInv, QuietThread, Worked
<1>4. \A s \in Sessions :
          s # sid[th] \/ ~Worked(th) => spec'[s] = spec[s] /\ last'[s] = last[s]
  BY <1>3 DEF Quiet
<1>5. ASSUME NEW o \in reg', o \notin {ref[th], ref'[th]}
      PROVE  ShowsRows(o, heap[o].sid)'
  <2>1. o \in Objects /\ ~Freed(o) /\ o \in reg
    BY <1>0, <1>5 DEF StateOK, MemInv, Freed, Quiet
  <2>2. heap[o].sid \in Sessions /\ ShowsRows(o, heap[o].sid)
    BY <1>0, <2>1 DEF MemInv, RegInv, QuietInv
  <2>3. heap[o].sid # sid[th] \/ ~Worked(th)
    BY <1>5, <2>1, WorkedAlone
  <2>4. /\ heap'[o].sid = heap[o].sid /\ heap'[o].phase = heap[o].phase
        /\ heap'[o].status = heap[o].status /\ heap'[o].newest = heap[o].newest
    BY <1>5, <2>1, <2>3 DEF Quiet
  <2>5. PICK s \in Sessions : s = heap[o].sid
    BY <2>2
  <2>6. ShowsRows(o, s) /\ spec'[s] = spec[s] /\ last'[s] = last[s]
    BY <1>4, <2>2, <2>3, <2>5
  <2>7. ShowsRows(o, s)'
    BY <2>4, <2>6, ShowsSame
  <2>. QED  BY <2>4, <2>5, <2>7
<1>6. ASSUME NEW x \in Threads, x # th PROVE QuietThread(x)'
  <2>1. /\ sid'[x] = sid[x] /\ op'[x] = op[x] /\ ref'[x] = ref[x]
        /\ out'[x] = out[x]
        /\ \/ pc'[x] = pc[x]
           \/ pc[x] = "follow" /\ pc'[x] \in {"replay", "orphan"}
    BY <1>6 DEF Quiet, Only
  <2>2. QuietThread(x)
    BY DEF QuietInv
  <2>3. pc'[x] \notin {"pop", "tombstone"} /\ op'[x] # "delete"
    BY <2>1, <2>2 DEF QuietThread
  <2>4. pc'[x] \notin NoObject \cup Private => ref'[x] \in reg'
    <3>1. pc'[x] \notin NoObject \cup Private => pc[x] \notin NoObject \cup Private
      BY <2>1 DEF NoObject, Private
    <3>. QED  BY <2>1, <2>2, <3>1 DEF QuietThread, Quiet
  <2>5. ASSUME pc'[x] \in Private,
               op[x] = "start" \/ Lookup(sid[x])' = {}
        PROVE  /\ pc'[x] = pc[x] /\ ref'[x] = ref[x] /\ sid'[x] = sid[x]
               /\ heap'[ref[x]].phase = heap[ref[x]].phase
               /\ heap'[ref[x]].status = heap[ref[x]].status
               /\ heap'[ref[x]].newest = heap[ref[x]].newest
               /\ spec'[sid[x]] = spec[sid[x]] /\ last'[sid[x]] = last[sid[x]]
               /\ sid[x] \in Sessions
    <3>1. pc'[x] = pc[x]
      BY <2>1, <2>5 DEF Private
    <3>2. ref[x] \in Objects /\ heap[ref[x]].sid = sid[x] /\ sid[x] \in Sessions
      BY <1>0, <2>5, <3>1, HasObject DEF Private, NoObject, Mine
    <3>3. ref[x] # ref[th]
      BY <1>0, <1>6, <2>5, <3>1 DEF MemInv, PrivateInv
    <3>4. ref[x] # ref'[th]
      BY <1>0, <1>6, <2>1, <2>5, <3>1 DEF MemInv, PrivateInv
    <3>5. ~Freed(ref[x])
      BY <2>1 DEF Freed
    <3>6. op[x] = "start" \/ (pc[x] \in Private /\ Lookup(sid[x]) = {})
      <4>1. PICK s \in Sessions : s = sid[x]
        BY <3>2
      <4>2. Lookup(s)' = {} => Lookup(s) = {}
        BY <1>1
      <4>. QED  BY <2>1, <2>5, <3>1, <4>1, <4>2 DEF Lookup
    <3>7. sid[x] # sid[th] \/ ~Worked(th)
      BY <1>6, <3>6, WorkedAlone
    <3>8. /\ heap'[ref[x]].phase = heap[ref[x]].phase
          /\ heap'[ref[x]].status = heap[ref[x]].status
          /\ heap'[ref[x]].newest = heap[ref[x]].newest
      BY <3>2, <3>3, <3>4, <3>5, <3>7 DEF Quiet
    <3>. QED  BY <1>4, <2>1, <3>1, <3>2, <3>7, <3>8
  <2>6. pc'[x] = "start" =>
            heap'[ref'[x]].status = "idle" /\ heap'[ref'[x]].newest
    <3>1. pc'[x] = "start" => op[x] = "start"
      BY <1>0, <2>1 DEF MemInv, StartInv
    <3>. QED  BY <2>2, <2>5, <3>1 DEF QuietThread, Private
  <2>7. pc'[x] = "register" => ShowsRows(ref[x], sid[x])'
    <3>1. pc'[x] = "register" => op[x] = "start"
      BY <1>0, <2>1 DEF MemInv, StartInv
    <3>2. ASSUME pc'[x] = "register" PROVE ShowsRows(ref[x], sid[x])'
      <4>1. PICK o \in Objects, s \in Sessions : o = ref[x] /\ s = sid[x]
        BY <1>0, <2>5, <3>1, <3>2, HasObject DEF Private, NoObject
      <4>2. ShowsRows(o, s)
        BY <2>2, <2>5, <3>1, <3>2, <4>1 DEF QuietThread, Private
      <4>3. ShowsRows(o, s)'
        BY <2>5, <3>1, <3>2, <4>1, <4>2, ShowsSame DEF Private
      <4>. QED  BY <2>1, <4>1, <4>3
    <3>. QED  BY <3>2
  <2>8. pc'[x] = "builds" /\ Lookup(sid[x])' = {} =>
            /\ heap'[ref'[x]].phase = ResumedPhase(sid[x])'
            /\ heap'[ref'[x]].newest
    BY <1>1, <2>1, <2>2, <2>5 DEF QuietThread, Private, ResumedPhase
  <2>9. pc'[x] = "insert" /\ Lookup(sid[x])' = {} => ShowsRows(ref[x], sid[x])'
    <3>1. ASSUME pc'[x] = "insert", Lookup(sid[x])' = {}
          PROVE  ShowsRows(ref[x], sid[x])'
      <4>0. pc[x] = "insert" /\ Lookup(sid[x]) = {}
        BY <1>1, <2>1, <2>5, <3>1 DEF Private
      <4>1. PICK o \in Objects, s \in Sessions : o = ref[x] /\ s = sid[x]
        BY <1>0, <4>0, HasObject DEF NoObject
      <4>2. ShowsRows(o, s)
        BY <2>2, <4>0, <4>1 DEF QuietThread
      <4>3. ShowsRows(o, s)'
        BY <2>5, <3>1, <4>1, <4>2, ShowsSame DEF Private
      <4>. QED  BY <2>1, <4>1, <4>3
    <3>. QED  BY <3>1
  <2>10. pc'[x] = "settle" => out'[x] = last'[sid'[x]]
    <3>1. CASE last' = last
      BY <2>1, <2>2, <3>1 DEF QuietThread
    <3>2. CASE pc[th] \in BuildPc /\ pc[x] = "settle"
      <4>1. pc[x] \in BuildPc /\ pc[x] \notin NoObject \cup Private
        BY <3>2 DEF BuildPc, NoObject, Private
      <4>2. ref[x] \in reg /\ heap[ref[x]].sid = sid[x] /\ sid[x] \in Sessions
        BY <1>0, <2>2, <4>1, HasObject DEF QuietThread, Mine
      <4>3. ref[x] # ref[th]
        BY <1>0, <1>6, <3>2, <4>1 DEF BuildInv
      <4>4. sid[x] # sid[th]
        BY <1>3, <3>2, <4>2, <4>3, WorkedAlone
      <4>. QED  BY <1>4, <2>1, <2>2, <3>2, <4>2, <4>4 DEF QuietThread
    <3>. QED  BY <2>1, <3>1, <3>2 DEF Quiet
  <2>. QED  BY <2>3, <2>4, <2>6, <2>7, <2>8, <2>9, <2>10 DEF QuietThread
<1>7. \A x \in Threads : QuietThread(x)'
  BY <1>6
<1>8. \A o \in reg' : ShowsRows(o, heap[o].sid)'
  BY <1>5
<1>. QED  BY <1>7, <1>8 DEF QuietInv

\* What an object shows is as it was.
Kept(o) ==
    /\ heap'[o].sid = heap[o].sid /\ heap'[o].phase = heap[o].phase
    /\ heap'[o].status = heap[o].status /\ heap'[o].newest = heap[o].newest

\* A step that leaves the rows, and all that objects show but for one that is
\* not registered; it may register an object that shows its rows.
LEMMA KeptQuiet ==
    ASSUME WorkInv, WorkInv', QuietInv, NEW th \in Threads, Only(th),
           spec' = spec, last' = last,
           reg \subseteq reg', reg' \subseteq reg \cup {ref[th]},
           \A o \in Objects : Freed(o) \/ Kept(o) \/ (o = ref'[th] /\ o \notin reg'),
           ref[th] \in reg' \ reg => ShowsRows(ref[th], heap[ref[th]].sid),
           QuietThread(th)'
    PROVE  QuietInv'
<1>1. \A o \in reg' : Kept(o)
  BY DEF Freed, WorkInv, MemInv, StateOK
<1>2. Quiet(th)
  <2>1. \A o \in Objects \ {ref[th], ref'[th]} : Freed(o) \/ Kept(o)
    OBVIOUS
  <2>. QED  BY <1>1, <2>1 DEF Quiet, Kept
<1>3. ASSUME NEW o \in reg' PROVE ShowsRows(o, heap[o].sid)'
  <2>1. ShowsRows(o, heap[o].sid)
    BY DEF QuietInv
  <2>2. PICK s : s = heap[o].sid
    OBVIOUS
  <2>3. ShowsRows(o, s)'
    BY <1>1, <2>1, <2>2, ShowsSame DEF Kept
  <2>. QED  BY <1>1, <2>2, <2>3 DEF Kept
<1>. QED  BY <1>2, <1>3, QuietStep

LEMMA QuietEnds ==
    ASSUME NEW th \in Threads, pc'[th] = "idle", op'[th] = "none"
    PROVE  QuietThread(th)'
BY DEF QuietThread, NoObject

LEMMA QuietGoesOn ==
    ASSUME NEW th \in Threads, ref'[th] \in reg', op'[th] # "delete",
           pc'[th] \notin NoObject \cup Private \cup {"pop", "tombstone", "settle"}
    PROVE  QuietThread(th)'
BY DEF QuietThread, Private

LEMMA QuietWaits ==
    ASSUME NEW th \in Threads, pc'[th] \in {"get", "specs"}, op'[th] # "delete"
    PROVE  QuietThread(th)'
BY DEF QuietThread, NoObject

\* A thread past the lookup works on the registered object of its session.
LEMMA QuietOwner ==
    ASSUME WorkInv, QuietInv, NEW th \in Threads,
           pc[th] \notin NoObject \cup Private
    PROVE  /\ ref[th] \in reg /\ ref[th] \in Objects /\ sid[th] \in Sessions
           /\ heap[ref[th]].sid = sid[th] /\ ShowsRows(ref[th], sid[th])
           /\ Worked(th) /\ op[th] # "delete" /\ heap[ref[th]] \in Object
<1>1. /\ ref[th] \in Objects /\ sid[th] \in Sessions
      /\ heap[ref[th]].sid = sid[th] /\ heap[ref[th]] \in Object
  BY HasObject DEF WorkInv, Mine
<1>2. QuietThread(th)
  BY DEF QuietInv
<1>. QED  BY <1>1, <1>2 DEF QuietInv, QuietThread, Worked

\* Requests that end, or turn to the rows.
LEMMA QuietLeaves ==
    ASSUME WorkInv, WorkInv', QuietInv, NEW th \in Threads,
           \/ FirstTurnFails(th) \/ Unknown(th) \/ Foreign(th)
           \/ DeleteRefused(th) \/ Tombstone(th) \/ StreamEnds(th)
           \/ ApproveDenied(th) \/ ReplyIdle(th)
    PROVE  QuietInv'
<1>1. CASE \/ FirstTurnFails(th) \/ Unknown(th) \/ Foreign(th)
           \/ DeleteRefused(th) \/ Tombstone(th) \/ StreamEnds(th)
  <2>1. /\ Only(th) /\ pc'[th] = "idle" /\ op'[th] = "none"
        /\ Becomes(heap) /\ reg' = reg /\ spec' = spec /\ last' = last
    BY <1>1, LeavesEffect DEF WorkInv, Leaves, Ends
  <2>. QED  BY <2>1, QuietEnds, KeptQuiet DEF Becomes, Kept
<1>2. CASE ApproveDenied(th) \/ ReplyIdle(th)
  <2>1. /\ Only(th) /\ pc'[th] = "idle" /\ op'[th] = "none" /\ pc[th] = "locked"
        /\ Becomes(Unlocked(th, Mine(th)))
        /\ reg' = reg /\ spec' = spec /\ last' = last
    BY <1>2, UnlocksEffect DEF WorkInv, Ends, storeVars
  <2>2. Mine(th) \in Object /\ Mine(th).sid = sid[th] /\ Mine(th) = heap[ref[th]]
    BY <2>1, HasObject DEF NoObject, WorkInv, Mine
  <2>3. /\ Unlocked(th, Mine(th))[ref[th]] = [Mine(th) EXCEPT !.lock = Null]
        /\ \A o \in Objects \ {ref[th]} : Unlocked(th, Mine(th))[o] = heap[o]
    BY <2>1, <2>2, UnlockedFacts DEF NoObject, WorkInv
  <2>4. [Mine(th) EXCEPT !.lock = Null].phase = Mine(th).phase
        /\ [Mine(th) EXCEPT !.lock = Null].sid = Mine(th).sid
        /\ [Mine(th) EXCEPT !.lock = Null].status = Mine(th).status
        /\ [Mine(th) EXCEPT !.lock = Null].newest = Mine(th).newest
    BY <2>2 DEF Object
  <2>5. \A o \in Objects : Freed(o) \/ Kept(o)
    BY ZenonT(40), <2>1, <2>2, <2>3, <2>4 DEF Becomes, Kept
  <2>. QED  BY <2>1, <2>5, QuietEnds, KeptQuiet
<1>. QED  BY <1>1, <1>2

\* A session is started: the row of its spec shows the phase of its object.
LEMMA QuietFirstTurn ==
    ASSUME WorkInv, WorkInv', QuietInv, NEW th \in Threads,
           NEW phase \in {"clarify", "approve"}, FirstTurn(th, phase)
    PROVE  QuietInv'
<1>0. MemInv /\ MemInv' /\ StateOK
  BY DEF WorkInv, MemInv
<1>1. /\ pc[th] = "start" /\ last' = last
      /\ spec' = [spec EXCEPT ![sid[th]] =
                      IF phase = "clarify" THEN "asked" ELSE "proposed"]
      /\ Rewrites(th, [Mine(th) EXCEPT !.phase = phase], "register")
  BY <1>0, FirstTurnEffect
<1>2. /\ ref[th] \in Objects /\ Mine(th) \in Object /\ sid[th] \in Sessions
      /\ Mine(th) = heap[ref[th]]
  BY <1>0, <1>1, HasObject DEF NoObject, Mine
<1>3. op[th] = "start" /\ last[sid[th]] = "none" /\ ref[th] \notin reg
  BY <1>0, <1>1 DEF MemInv, StartInv, PrivateInv, Private
<1>4. /\ heap'[ref[th]].phase = phase
      /\ heap'[ref[th]].status = heap[ref[th]].status
      /\ heap'[ref[th]].newest = heap[ref[th]].newest
  BY <1>1, <1>2 DEF Rewrites, Object
<1>5. heap[ref[th]].status = "idle" /\ heap[ref[th]].newest
  BY <1>1 DEF QuietInv, QuietThread
<1>6. /\ spec'[sid[th]] = IF phase = "clarify" THEN "asked" ELSE "proposed"
      /\ \A s \in Sessions : s # sid[th] => spec'[s] = spec[s]
  BY <1>0, <1>1, <1>2 DEF StateOK
<1>7. /\ Only(th) /\ pc'[th] = "register" /\ sid' = sid /\ op' = op
      /\ reg' = reg /\ ref' = ref
      /\ \A o \in Objects \ {ref[th]} : heap'[o] = heap[o]
  BY <1>1 DEF Rewrites
<1>8. ShowsRows(ref[th], sid[th])'
  <2>1. heap'[ref[th]].phase = ResumedPhase(sid[th])'
    BY <1>4, <1>6, <1>7 DEF ResumedPhase
  <2>. QED  BY <1>1, <1>3, <1>4, <1>5, <1>7, <2>1 DEF ShowsRows, ResumedPhase
<1>9. QuietThread(th)'
  BY <1>3, <1>7, <1>8 DEF QuietThread, NoObject, Private
<1>10. Quiet(th)
  <2>1. \A o \in reg : o \in Objects \ {ref[th]}
    BY <1>0, <1>3 DEF StateOK
  <2>. QED  BY <1>1, <1>3, <1>6, <1>7, <2>1 DEF Quiet, Worked, NoObject
<1>. QED  BY <1>3, <1>7, <1>9, <1>10, QuietStep

LEMMA QuietApprove ==
    ASSUME WorkInv, WorkInv', QuietInv, NEW th \in Threads, Approve(th)
    PROVE  QuietInv'
<1>0. MemInv /\ MemInv' /\ StateOK
  BY DEF WorkInv, MemInv
<1>1. /\ pc[th] = "locked" /\ last' = last
      /\ spec' = IF ~MayRetry(Mine(th)) /\ Mine(th).newest
                 THEN [spec EXCEPT ![sid[th]] = "approved"] ELSE spec
      /\ Rewrites(th, Granted(th), "begin")
  BY <1>0, ApproveEffect
<1>2. /\ ref[th] \in reg /\ ref[th] \in Objects /\ sid[th] \in Sessions
      /\ heap[ref[th]].sid = sid[th] /\ ShowsRows(ref[th], sid[th])
      /\ Worked(th) /\ op[th] # "delete" /\ Mine(th) \in Object
      /\ Mine(th) = heap[ref[th]]
  BY <1>1, QuietOwner DEF NoObject, Private, Mine
<1>3. /\ Only(th) /\ pc'[th] = "begin" /\ sid' = sid /\ op' = op
      /\ reg' = reg /\ ref' = ref /\ heap'[ref[th]] = Granted(th)
      /\ \A o \in Objects \ {ref[th]} : heap'[o] = heap[o]
  BY <1>1 DEF Rewrites
<1>4. /\ heap'[ref[th]].sid = sid[th]
      /\ heap'[ref[th]].status = heap[ref[th]].status
      /\ heap'[ref[th]].newest = heap[ref[th]].newest
      /\ heap'[ref[th]].phase = IF MayRetry(Mine(th)) THEN heap[ref[th]].phase
                                ELSE "approved"
  BY <1>2, <1>3 DEF Granted, Object
<1>5. /\ spec'[sid[th]] = IF MayRetry(Mine(th)) THEN spec[sid[th]] ELSE "approved"
      /\ \A s \in Sessions : s # sid[th] => spec'[s] = spec[s]
  BY <1>0, <1>1, <1>2 DEF StateOK, ShowsRows
<1>6. ShowsRows(ref[th], heap[ref[th]].sid)'
  <2>1. heap'[ref[th]].phase = ResumedPhase(sid[th])'
    BY <1>2, <1>3, <1>4, <1>5 DEF ShowsRows, ResumedPhase
  <2>. QED  BY <1>1, <1>2, <1>3, <1>4, <2>1 DEF ShowsRows, ResumedPhase
<1>7. QuietThread(th)'
  BY <1>2, <1>3, QuietGoesOn DEF NoObject, Private
<1>8. \A o \in reg : heap'[o].sid = heap[o].sid
  BY <1>0, <1>2, <1>3, <1>4 DEF StateOK
<1>9. Quiet(th)
  BY <1>1, <1>2, <1>3, <1>5, <1>8 DEF Quiet
<1>. QED  BY <1>3, <1>6, <1>7, <1>9, QuietStep

LEMMA QuietBegin ==
    ASSUME WorkInv, WorkInv', QuietInv, NEW th \in Threads, BeginBuild(th)
    PROVE  QuietInv'
<1>0. MemInv /\ MemInv' /\ StateOK
  BY DEF WorkInv, MemInv
<1>1. /\ pc[th] = "begin" /\ spec' = spec /\ last' = last
      /\ Only(th) /\ pc'[th] = "build" /\ sid' = sid /\ op' = op
      /\ reg' = reg /\ ref' = ref /\ heap'[ref[th]] = Begun(th)
      /\ \A o \in Objects \ {ref[th]} : heap'[o] = heap[o]
  BY <1>0, BeginBuildEffect DEF storeVars
<1>2. /\ ref[th] \in reg /\ ref[th] \in Objects
      /\ heap[ref[th]].sid = sid[th] /\ ShowsRows(ref[th], sid[th])
      /\ op[th] # "delete" /\ Mine(th) \in Object /\ Mine(th) = heap[ref[th]]
  BY <1>1, QuietOwner DEF NoObject, Private, Mine
<1>3. /\ heap'[ref[th]].sid = sid[th] /\ heap'[ref[th]].status = "building"
      /\ heap'[ref[th]].newest = heap[ref[th]].newest
      /\ heap'[ref[th]].phase = heap[ref[th]].phase
  BY <1>1, <1>2 DEF Begun, Object
<1>4. ShowsRows(ref[th], heap[ref[th]].sid)'
  BY <1>1, <1>2, <1>3 DEF ShowsRows, ResumedPhase
<1>5. QuietThread(th)'
  BY <1>1, <1>2, QuietGoesOn DEF NoObject, Private
<1>6. \A o \in reg : heap'[o].sid = heap[o].sid
  BY <1>0, <1>1, <1>2, <1>3 DEF StateOK
<1>7. Quiet(th)
  BY <1>1, <1>2, <1>6 DEF Quiet
<1>. QED  BY <1>1, <1>4, <1>5, <1>7, QuietStep

\* Only one build of a session is ever under way, so one is refused for the
\* attempt an earlier build left, and that one failed too.
LEMMA QuietBlocked ==
    ASSUME WorkInv, WorkInv', OpenInv, QuietInv, NEW th \in Threads, Blocked(th)
    PROVE  QuietInv'
<1>0. MemInv /\ "failed" \in Outcomes
  BY DEF WorkInv, Outcomes
<1>1. /\ pc[th] = "build" /\ pc'[th] = "settle" /\ out'[th] = "failed"
      /\ Only(th) /\ spec' = spec /\ sid' = sid /\ op' = op
      /\ reg' = reg /\ ref' = ref /\ heap' = heap
  BY <1>0, BuildEndsEffect DEF Steps, Blocked
<1>2. /\ ref[th] \in reg /\ sid[th] \in Sessions /\ op[th] # "delete"
      /\ heap[ref[th]].sid = sid[th]
  BY <1>1, QuietOwner DEF NoObject, Private
<1>3. ~\E x \in Threads \ {th} : pc[x] = "marked" /\ sid[x] = sid[th]
  <2>. SUFFICES ASSUME NEW x \in Threads \ {th},
                       pc[x] = "marked", sid[x] = sid[th]
                PROVE  FALSE
    OBVIOUS
  <2>1. ref[x] \in reg /\ heap[ref[x]].sid = sid[x]
    BY QuietOwner DEF NoObject, Private
  <2>2. ref[th] = ref[x]
    BY <1>2, <2>1 DEF WorkInv, MemInv, RegInv
  <2>. QED  BY <1>1, <2>2 DEF WorkInv, BuildInv, BuildPc
<1>4. last' = last /\ last[sid[th]] = "failed"
  BY <1>2, <1>3 DEF Blocked, OpenInv, storeVars
<1>5. QuietThread(th)'
  BY <1>1, <1>2, <1>4 DEF QuietThread, NoObject, Private
<1>6. \A o \in Objects : Kept(o)
  BY <1>1 DEF Kept
<1>. QED  BY <1>1, <1>2, <1>4, <1>5, <1>6, KeptQuiet

LEMMA QuietBuilt ==
    ASSUME WorkInv, WorkInv', QuietInv, NEW th \in Threads,
           NEW outcome \in Outcomes, Built(th, outcome)
    PROVE  QuietInv'
<1>0. MemInv /\ MemInv' /\ StateOK
  BY DEF WorkInv, MemInv
<1>1. /\ pc[th] = "marked" /\ spec' = spec /\ pc'[th] = "settle"
      /\ Only(th) /\ out'[th] = outcome /\ sid' = sid /\ op' = op
      /\ reg' = reg /\ ref' = ref /\ heap' = heap
  BY <1>0, BuildEndsEffect DEF Steps, Built
<1>2. /\ ref[th] \in reg /\ ref[th] \in Objects /\ sid[th] \in Sessions
      /\ heap[ref[th]].sid = sid[th] /\ ShowsRows(ref[th], sid[th])
      /\ op[th] # "delete" /\ Worked(th)
  BY <1>1, QuietOwner DEF NoObject, Private
<1>3. /\ last'[sid[th]] = outcome
      /\ \A s \in Sessions : s # sid[th] => last'[s] = last[s]
  BY <1>0, <1>2 DEF Built, Recorded, StateOK
<1>4. heap[ref[th]].status = "building"
  BY <1>1 DEF WorkInv, BuildInv, BuildPc
<1>5. ShowsRows(ref[th], heap[ref[th]].sid)'
  BY <1>1, <1>2, <1>4 DEF ShowsRows, ResumedPhase
<1>6. QuietThread(th)'
  BY <1>1, <1>2, <1>3 DEF QuietThread, NoObject, Private
<1>7. Quiet(th)
  BY <1>1, <1>2, <1>3 DEF Quiet, BuildPc
<1>. QED  BY <1>1, <1>5, <1>6, <1>7, QuietStep

LEMMA QuietSettle ==
    ASSUME WorkInv, WorkInv', QuietInv, NEW th \in Threads, Settle(th)
    PROVE  QuietInv'
<1>0. MemInv /\ MemInv' /\ StateOK
  BY DEF WorkInv, MemInv
<1>1. pc[th] = "settle" /\ out[th] \in Outcomes
  BY DEF Settle, WorkInv, BuildInv
<1>2. /\ spec' = spec /\ last' = last /\ pc'[th] = "idle" /\ op'[th] = "none"
      /\ Only(th) /\ reg' = reg /\ ref'[th] = Null
      /\ Becomes(With(th, Settled(th)))
  BY <1>0, <1>1, SettleEffect DEF Ends, storeVars
<1>3. /\ ref[th] \in reg /\ ref[th] \in Objects /\ sid[th] \in Sessions
      /\ heap[ref[th]].sid = sid[th] /\ ShowsRows(ref[th], sid[th])
      /\ op[th] # "delete" /\ Mine(th) \in Object /\ Mine(th) = heap[ref[th]]
  BY <1>1, QuietOwner DEF NoObject, Private, Mine
<1>4. /\ Settled(th) \in Object /\ Settled(th).sid = sid[th]
      /\ Settled(th).phase = heap[ref[th]].phase
      /\ Settled(th).newest = heap[ref[th]].newest
      /\ Settled(th).status = out[th]
  BY <1>1, <1>3 DEF Settled, Object, BuildState
<1>5. /\ With(th, Settled(th))[ref[th]] = Settled(th)
      /\ \A o \in Objects \ {ref[th]} : With(th, Settled(th))[o] = heap[o]
  BY <1>0, <1>1, <1>4, WithFacts DEF NoObject
<1>6. heap'[ref[th]] = Settled(th)
  BY <1>2, <1>3, <1>5 DEF Becomes, Freed
<1>7. /\ \A o \in Objects \ {ref[th]} : heap'[o] = heap[o] \/ Freed(o)
      /\ \A o \in reg : heap'[o].sid = heap[o].sid
  BY <1>0, <1>2, <1>3, <1>4, <1>5, <1>6 DEF Becomes, Freed, StateOK
<1>8. out[th] = last[sid[th]]
  BY <1>1 DEF QuietInv, QuietThread
<1>9. ASSUME NEW o \in reg', o \in {ref[th], ref'[th]}
      PROVE  ShowsRows(o, heap[o].sid)'
  <2>1. o = ref[th]
    BY <1>0, <1>2, <1>9, NullAssumption DEF StateOK
  <2>2. PICK s \in Sessions : s = sid[th]
    BY <1>3
  <2>3. /\ heap'[o].sid = s /\ heap'[o].phase = heap[o].phase
        /\ heap'[o].newest = heap[o].newest /\ heap'[o].status = last'[s]
        /\ last'[s] \in Outcomes /\ spec'[s] = spec[s] /\ ShowsRows(o, s)
    BY <1>1, <1>2, <1>3, <1>4, <1>6, <1>8, <2>1, <2>2
  <2>4. ShowsRows(o, s)'
    BY <2>3 DEF ShowsRows, ResumedPhase, Outcomes
  <2>. QED  BY <2>3, <2>4
<1>10. QuietThread(th)'
  BY <1>2, QuietEnds
<1>11. Quiet(th)
  BY <1>2, <1>7 DEF Quiet
<1>. QED  BY <1>9, <1>10, <1>11, QuietStep

LEMMA QuietProposes ==
    ASSUME WorkInv, WorkInv', QuietInv, NEW th \in Threads, ReplyProposes(th)
    PROVE  QuietInv'
<1>0. MemInv /\ MemInv' /\ StateOK
  BY DEF WorkInv, MemInv
<1>1. /\ pc[th] = "locked" /\ last' = last /\ pc'[th] = "idle"
      /\ op'[th] = "none" /\ Only(th) /\ reg' = reg /\ ref'[th] = Null
      /\ Becomes(Proposed(th)) /\ spec' = [spec EXCEPT ![sid[th]] = "proposed"]
  BY <1>0, ProposesEffect DEF Ends
<1>2. /\ ref[th] \in reg /\ ref[th] \in Objects /\ sid[th] \in Sessions
      /\ heap[ref[th]].sid = sid[th] /\ ShowsRows(ref[th], sid[th])
      /\ Worked(th) /\ Mine(th) \in Object /\ Mine(th) = heap[ref[th]]
  BY <1>1, QuietOwner DEF NoObject, Private, Mine
<1>3. /\ Proposed(th)[ref[th]].sid = sid[th]
      /\ Proposed(th)[ref[th]].phase = "approve"
      /\ Proposed(th)[ref[th]].newest
      /\ Proposed(th)[ref[th]].status = heap[ref[th]].status
  BY <1>2 DEF Proposed, Object
<1>4. ASSUME NEW o \in Objects, o # ref[th]
      PROVE  /\ Proposed(th)[o].sid = heap[o].sid
             /\ Proposed(th)[o].phase = heap[o].phase
             /\ Proposed(th)[o].status = heap[o].status
             /\ \/ Proposed(th)[o].newest = heap[o].newest
                \/ heap[o].sid = sid[th]
  <2>1. heap[o] \in Object
    BY <1>0 DEF StateOK
  <2>. QED  BY <1>4, <2>1 DEF Proposed, Object
<1>5. \A o \in reg : heap'[o] = Proposed(th)[o]
  BY <1>0, <1>1 DEF Becomes, Freed, StateOK
<1>6. \A o \in reg : heap'[o].sid = heap[o].sid
  BY <1>0, <1>2, <1>3, <1>4, <1>5 DEF StateOK
<1>7. /\ spec'[sid[th]] = "proposed"
      /\ \A s \in Sessions : s # sid[th] => spec'[s] = spec[s]
  BY <1>0, <1>1, <1>2 DEF StateOK
<1>8. ASSUME NEW o \in reg', o \in {ref[th], ref'[th]}
      PROVE  ShowsRows(o, heap[o].sid)'
  <2>1. o = ref[th]
    BY <1>0, <1>1, <1>8, NullAssumption DEF StateOK
  <2>2. PICK s \in Sessions : s = sid[th]
    BY <1>2
  <2>3. /\ heap'[o].sid = s /\ heap'[o].phase = "approve" /\ heap'[o].newest
        /\ heap'[o].status = heap[o].status
        /\ last'[s] = last[s] /\ spec'[s] = "proposed" /\ ShowsRows(o, s)
    BY <1>1, <1>2, <1>3, <1>5, <1>7, <2>1, <2>2
  <2>4. ShowsRows(o, s)'
    BY <2>3 DEF ShowsRows, ResumedPhase
  <2>. QED  BY <2>3, <2>4
<1>9. QuietThread(th)'
  BY <1>1, QuietEnds
<1>10. Quiet(th)
  <2>1. ASSUME NEW o \in Objects \ {ref[th], ref'[th]}
        PROVE  \/ Freed(o)
               \/ /\ heap'[o].sid = heap[o].sid
                  /\ heap'[o].phase = heap[o].phase
                  /\ heap'[o].status = heap[o].status
                  /\ \/ heap'[o].newest = heap[o].newest
                     \/ heap[o].sid = sid[th] /\ Worked(th)
    BY <1>1, <1>2, <1>4, <2>1 DEF Becomes
  <2>. QED  BY <1>1, <1>2, <1>6, <1>7, <2>1 DEF Quiet
<1>. QED  BY <1>8, <1>9, <1>10, QuietStep

\* Hydration: the object shows what the rows say when nobody else has
\* registered one of the session meanwhile.
LEMMA QuietReads ==
    ASSUME WorkInv, WorkInv', QuietInv, NEW th \in Threads,
           ReadSpecs(th) \/ ReadBuilds(th)
    PROVE  QuietInv'
<1>0. MemInv /\ MemInv' /\ StateOK
  BY DEF WorkInv, MemInv
<1>1. CASE ReadSpecs(th)
  <2>1. /\ Only(th) /\ heap'[ref'[th]] = Resumed(sid[th]) /\ reg' = reg
        /\ \A o \in Objects \ {ref'[th]} : heap'[o] = heap[o] \/ Freed(o)
        /\ spec' = spec /\ last' = last /\ pc[th] = "specs"
        /\ pc'[th] = "builds" /\ sid' = sid /\ op' = op
        /\ ref'[th] \in Objects \ Live(reg, ref)
    BY <1>0, <1>1, ReadSpecsEffect DEF MakesNew, Makes
  <2>2. ref'[th] \notin reg' /\ ref[th] \notin reg'
    BY <1>0, <2>1, NullAssumption
       DEF Live, MemInv, RefInv, NoObject, StateOK
  <2>3. /\ heap'[ref'[th]].phase = ResumedPhase(sid[th])
        /\ heap'[ref'[th]].newest
    BY <2>1 DEF Resumed, Blank
  <2>4. op[th] # "delete"
    BY DEF QuietInv, QuietThread
  <2>5. QuietThread(th)'
    BY <2>1, <2>3, <2>4 DEF QuietThread, Private, ResumedPhase
  <2>6. \A o \in Objects :
            Freed(o) \/ Kept(o) \/ (o = ref'[th] /\ o \notin reg')
    BY <2>1, <2>2 DEF Kept
  <2>. QED  BY <2>1, <2>2, <2>5, <2>6, KeptQuiet
<1>2. CASE ReadBuilds(th)
  <2>1. /\ pc[th] = "builds" /\ spec' = spec /\ last' = last
        /\ Rewrites(th, Hydrated(th), "insert")
    BY <1>0, <1>2, ReadBuildsEffect DEF storeVars
  <2>2. /\ ref[th] \in Objects /\ Mine(th) \in Object /\ sid[th] \in Sessions
        /\ Mine(th) = heap[ref[th]]
    BY <1>0, <2>1, HasObject DEF NoObject, Mine
  <2>3. /\ Only(th) /\ pc'[th] = "insert" /\ sid' = sid /\ op' = op
        /\ reg' = reg /\ ref' = ref /\ heap'[ref[th]] = Hydrated(th)
        /\ \A o \in Objects \ {ref[th]} : heap'[o] = heap[o]
    BY <2>1 DEF Rewrites
  <2>4. ref[th] \notin reg
    BY <1>0, <2>1 DEF MemInv, PrivateInv, Private
  <2>5. /\ heap'[ref[th]].phase = heap[ref[th]].phase
        /\ heap'[ref[th]].newest = heap[ref[th]].newest
        /\ heap'[ref[th]].status =
              ResumedStatus(last[sid[th]], heap[ref[th]].phase)
    BY <2>2, <2>3 DEF Hydrated, Object
  <2>6. \A s \in Sessions : Lookup(s)' = {} => Lookup(s) = {}
    <3>1. \A o \in reg : heap'[o] = heap[o]
      BY <1>0, <2>3, <2>4 DEF StateOK
    <3>. QED  BY <2>3, <3>1 DEF Lookup
  <2>7. QuietThread(th)
    BY DEF QuietInv
  <2>8. ASSUME Lookup(sid[th])' = {} PROVE ShowsRows(ref[th], sid[th])'
    <3>1. PICK o \in Objects, s \in Sessions : o = ref[th] /\ s = sid[th]
      BY <2>2
    <3>2. Lookup(s)' = {}
      BY <2>3, <2>8, <3>1 DEF Lookup
    <3>3. heap[o].phase = ResumedPhase(s) /\ heap[o].newest
      BY <2>1, <2>6, <2>7, <3>1, <3>2 DEF QuietThread
    <3>4. /\ heap'[o].phase = ResumedPhase(s) /\ heap'[o].newest
          /\ heap'[o].status = ResumedStatus(last[s], heap[o].phase)
      BY <2>5, <3>1, <3>3
    <3>5. last[s] \in Outcomes \cup {"none"}
      BY <1>0 DEF StateOK
    <3>6. ShowsRows(o, s)'
      BY <2>1, <3>4, <3>5 DEF ShowsRows, ResumedPhase, ResumedStatus, Outcomes
    <3>. QED  BY <2>3, <3>1, <3>6
  <2>9. QuietThread(th)'
    BY <2>3, <2>7, <2>8 DEF QuietThread, Private
  <2>10. \A o \in Objects :
             Freed(o) \/ Kept(o) \/ (o = ref'[th] /\ o \notin reg')
    BY <2>3, <2>4 DEF Kept
  <2>. QED  BY <2>1, <2>3, <2>4, <2>9, <2>10, KeptQuiet
<1>. QED  BY <1>1, <1>2

\* A session gets its object into the registry beside all the others.
LEMMA QuietRegisters ==
    ASSUME NoEviction, WorkInv, WorkInv', QuietInv, NEW th \in Threads,
           Hit(th) \/ Insert(th) \/ Register(th)
    PROVE  QuietInv'
<1>0. MemInv /\ MemInv' /\ StateOK
  BY DEF WorkInv, MemInv
<1>1. QuietThread(th) /\ op[th] # "delete"
  BY DEF QuietInv, QuietThread
<1>2. CASE Hit(th) \/ (Insert(th) /\ ref'[th] \in Lookup(sid[th]) /\ reg' = reg)
  <2>1. /\ Only(th) /\ spec' = spec /\ last' = last /\ reg' = reg
        /\ pc'[th] = "check" /\ op'[th] = op[th] /\ Becomes(heap)
        /\ ref'[th] \in Lookup(sid[th])
    BY <1>0, <1>2, HitEffect, InsertEffect DEF Finds, Becomes, storeVars
  <2>2. ref'[th] \in reg'
    BY <2>1 DEF Lookup
  <2>3. QuietThread(th)'
    BY <1>1, <2>1, <2>2, QuietGoesOn DEF NoObject, Private
  <2>. QED  BY <2>1, <2>3, KeptQuiet DEF Becomes, Kept
<1>3. CASE Insert(th) /\ Lookup(sid[th]) = {} /\ reg' = RoomFor(ref[th])
           /\ ref' = ref
  <2>1. /\ Only(th) /\ spec' = spec /\ last' = last /\ pc[th] = "insert"
        /\ pc'[th] = "check" /\ op'[th] = op[th] /\ Becomes(heap)
    BY <1>0, <1>3, InsertEffect DEF Finds, storeVars
  <2>2. sid[th] \in Sessions /\ heap[ref[th]].sid = sid[th]
    BY <1>0, <2>1, HasObject DEF NoObject, Mine
  <2>3. reg' = reg \cup {ref[th]}
    BY <1>0, <1>3, <2>2, NoneEvicted DEF RoomFor
  <2>4. ShowsRows(ref[th], heap[ref[th]].sid)
    BY <1>1, <1>3, <2>1, <2>2 DEF QuietThread
  <2>5. QuietThread(th)'
    BY <1>1, <1>3, <2>1, <2>3, QuietGoesOn DEF NoObject, Private
  <2>. QED  BY <2>1, <2>3, <2>4, <2>5, KeptQuiet DEF Becomes, Kept
<1>4. CASE Register(th)
  <2>1. /\ Only(th) /\ spec' = spec /\ last' = last /\ pc[th] = "register"
        /\ pc'[th] = "idle" /\ op'[th] = "none" /\ Becomes(heap)
        /\ reg' = RoomFor(ref[th])
    BY <1>0, <1>4, RegisterEffect DEF Ends, Register, storeVars
  <2>2. sid[th] \in Sessions /\ heap[ref[th]].sid = sid[th]
    BY <1>0, <2>1, HasObject DEF NoObject, Mine
  <2>3. Lookup(sid[th]) = {}
    BY <1>0, <2>1
       DEF MemInv, StateOK, StartInv, PrivateInv, Private, Lookup
  <2>4. reg' = reg \cup {ref[th]}
    BY <1>0, <2>1, <2>2, <2>3, NoneEvicted DEF RoomFor
  <2>5. ShowsRows(ref[th], heap[ref[th]].sid)
    BY <1>1, <2>1, <2>2 DEF QuietThread
  <2>6. QuietThread(th)'
    BY <2>1, QuietEnds
  <2>. QED  BY <2>1, <2>4, <2>5, <2>6, KeptQuiet DEF Becomes, Kept
<1>5. \/ Hit(th) \/ Register(th)
      \/ Insert(th) /\ \/ ref'[th] \in Lookup(sid[th]) /\ reg' = reg
                       \/ /\ Lookup(sid[th]) = {} /\ reg' = RoomFor(ref[th])
                          /\ ref' = ref
  BY <1>0, InsertEffect
<1>. QED  BY <1>2, <1>3, <1>4, <1>5

LEMMA QuietWalks ==
    ASSUME WorkInv, WorkInv', QuietInv, NEW th \in Threads,
           Walks(th) \/ Lock(th)
    PROVE  QuietInv'
<1>0. MemInv /\ MemInv' /\ StateOK
  BY DEF WorkInv, MemInv
<1>1. op[th] # "delete"
  BY DEF QuietInv, QuietThread
<1>2. CASE Walks(th)
  <2>1. /\ Only(th) /\ spec' = spec /\ last' = last /\ reg' = reg
        /\ ref' = ref /\ op' = op /\ heap' = heap /\ Path(th, pc'[th])
    BY <1>0, <1>2, WalksEffect DEF Steps
  <2>2. ~DeleteAllowed(th)
    BY <1>1 DEF DeleteAllowed
  <2>3. /\ pc[th] \in {"get", "build", "check", "pin"}
        /\ IF pc[th] = "get" THEN pc'[th] = "specs"
           ELSE pc'[th] \in {"marked", "pin", "early", "follow"}
    <3>1. pc[th] = "check" => pc'[th] = "pin"
      BY <1>0, <1>2, <2>2
         DEF Walks, Miss, MarkBuilding, StreamOpens, Pin, Go, StateOK
    <3>. QED  BY <2>1, <3>1 DEF Path
  <2>4. QuietThread(th)'
    <3>1. CASE pc[th] = "get"
      BY <1>1, <2>1, <2>3, <3>1, QuietWaits
    <3>2. CASE pc[th] # "get"
      <4>1. ref[th] \in reg
        BY <2>3, <3>2, QuietOwner DEF NoObject, Private
      <4>. QED
        BY <1>1, <2>1, <2>3, <3>2, <4>1, QuietGoesOn DEF NoObject, Private
    <3>. QED  BY <3>1, <3>2
  <2>. QED  BY <2>1, <2>4, KeptQuiet DEF Kept
<1>3. CASE Lock(th)
  <2>1. /\ pc[th] = "check" /\ spec' = spec /\ last' = last
        /\ Rewrites(th, [Mine(th) EXCEPT !.lock = th], "locked")
    BY <1>0, <1>3, LockEffect DEF storeVars
  <2>2. /\ ref[th] \in reg /\ ref[th] \in Objects /\ Mine(th) \in Object
        /\ Mine(th) = heap[ref[th]]
    BY <2>1, QuietOwner DEF NoObject, Private, Mine
  <2>3. /\ Only(th) /\ pc'[th] = "locked" /\ op' = op /\ reg' = reg
        /\ ref' = ref /\ heap'[ref[th]] = [Mine(th) EXCEPT !.lock = th]
        /\ \A o \in Objects \ {ref[th]} : heap'[o] = heap[o]
    BY <2>1 DEF Rewrites
  <2>4. \A o \in Objects : Kept(o)
    BY <2>2, <2>3 DEF Kept, Object
  <2>5. QuietThread(th)'
    BY <1>1, <2>2, <2>3, QuietGoesOn DEF NoObject, Private
  <2>. QED  BY <2>1, <2>3, <2>4, <2>5, KeptQuiet
<1>. QED  BY <1>2, <1>3

LEMMA QuietClient ==
    ASSUME NoEviction, WorkInv, WorkInv', QuietInv, NEW th \in Threads,
           Client(th)
    PROVE  QuietInv'
<1>0. MemInv /\ MemInv' /\ StateOK
  BY DEF WorkInv, MemInv
<1>1. ASSUME NEW s \in Sessions, Create(th, s) PROVE QuietInv'
  <2>1. /\ Only(th) /\ heap'[ref'[th]] = Started(s) /\ reg' = reg
        /\ \A o \in Objects \ {ref'[th]} : heap'[o] = heap[o] \/ Freed(o)
        /\ spec' = spec /\ last' = last /\ pc'[th] = "start"
        /\ ref'[th] \in Objects \ Live(reg, ref)
    BY <1>0, <1>1, CreateEffect DEF MakesNew, Makes
  <2>2. op'[th] = "start" /\ ref[th] = Null
    BY <1>0, <1>1, <2>1 DEF MemInv, StartInv, RefInv, NoObject, Create
  <2>3. ref'[th] \notin reg' /\ ref[th] \notin reg'
    BY <1>0, <2>1, <2>2, NullAssumption DEF Live, StateOK
  <2>4. Started(s).status = "idle" /\ Started(s).newest
    BY DEF Started, Blank
  <2>5. QuietThread(th)'
    BY <2>1, <2>2, <2>4 DEF QuietThread, Private
  <2>6. \A o \in Objects :
            Freed(o) \/ Kept(o) \/ (o = ref'[th] /\ o \notin reg')
    BY <2>1, <2>3 DEF Kept
  <2>. QED  BY <2>1, <2>3, <2>5, <2>6, KeptQuiet
<1>2. ASSUME NEW s \in Sessions, NEW kind \in Requests, Arrive(th, kind, s)
      PROVE  QuietInv'
  <2>1. /\ pc[th] = "idle" /\ pc'[th] = "get" /\ op'[th] = kind
        /\ spec' = spec /\ last' = last /\ heap' = heap /\ reg' = reg
        /\ ref' = ref /\ out' = out
        /\ \A x \in Threads : x # th =>
              pc'[x] = pc[x] /\ sid'[x] = sid[x] /\ op'[x] = op[x]
    BY <1>0, <1>2, ArriveFacts
  <2>2. QuietThread(th)'
    BY <2>1, QuietWaits DEF NoEviction
  <2>3. Only(th)
    BY <2>1 DEF Only
  <2>. QED  BY <2>1, <2>2, <2>3, KeptQuiet DEF Kept
<1>. QED  BY <1>1, <1>2 DEF Client

LEMMA QuietNext ==
    NoEviction /\ WorkInv /\ OpenInv /\ QuietInv /\ [Next]_vars => QuietInv'
<1>. SUFFICES ASSUME NoEviction, WorkInv, OpenInv, QuietInv, [Next]_vars
              PROVE  QuietInv'
  OBVIOUS
<1>1. WorkInv'
  BY WorkNext
<1>2. CASE Restart
  <2>1. /\ reg' = {}
        /\ \A th \in Threads : pc'[th] = "idle" /\ op'[th] = "none"
    BY <1>2, RestartEffect DEF WorkInv
  <2>. QED  BY <2>1, QuietEnds DEF QuietInv
<1>3. CASE UNCHANGED vars
  BY <1>3 DEF QuietInv, QuietThread, ShowsRows, Lookup, ResumedPhase,
              vars, storeVars, threadVars
<1>4. ASSUME NEW th \in Threads, Handler(th) PROVE QuietInv'
  <2>1. Blocked(th) => QuietInv'
    BY <1>1, QuietBlocked
  <2>2. ~Pop(th) /\ ~Tombstone(th)
    BY DEF QuietInv, QuietThread, Pop, Tombstone
  <2>3. Results \subseteq Outcomes
    BY RequestsAssumption
  <2>. QED
    BY <1>1, <1>4, <2>1, <2>2, <2>3, QuietFirstTurn, QuietLeaves,
       QuietRegisters, QuietReads, QuietWalks, QuietApprove, QuietBegin,
       QuietBuilt, QuietSettle, QuietProposes
       DEF Handler, Get, BuildSteps, Walks
<1>. QED  BY <1>1, <1>2, <1>3, <1>4, QuietClient DEF Next

LEMMA QuietInit == Init => QuietInv
BY QuietEnds DEF Init, QuietInv, QuietThread, NoObject

\* Without deletes, and with room for every session in the registry, a session
\* is never worked on through two objects: hydrations race, but all their
\* threads end up on the one object that was registered.
THEOREM TurnsAreSerialised == NoEviction => (Spec => []OneTurnPerSession)
<1>. SUFFICES ASSUME NoEviction PROVE Spec => []OneTurnPerSession
  OBVIOUS
<1>1. Init => QuietInv
  BY QuietInit
<1>2. WorkInv /\ OpenInv /\ QuietInv /\ [Next]_vars => QuietInv'
  BY QuietNext
<1>3. WorkInv /\ QuietInv => OneTurnPerSession
  <2>. SUFFICES ASSUME WorkInv, QuietInv PROVE OneTurnPerSession
    OBVIOUS
  <2>1. ASSUME NEW o \in Objects, AtWork(o) PROVE o \in reg
    <3>1. CASE heap[o].lock # Null
      <4>1. heap[o].lock \in Threads
        BY <3>1 DEF WorkInv, MemInv, StateOK, Object
      <4>2. pc[heap[o].lock] \in {"locked", "begin"} /\ ref[heap[o].lock] = o
        BY <3>1 DEF WorkInv, LockInv
      <4>. QED  BY <4>1, <4>2, QuietOwner DEF NoObject, Private
    <3>2. CASE heap[o].status = "building"
      <4>1. PICK x \in Threads : pc[x] \in BuildPc /\ ref[x] = o
        BY <3>2 DEF WorkInv, BuildInv
      <4>. QED  BY <4>1, QuietOwner DEF NoObject, Private, BuildPc
    <3>. QED  BY <2>1, <3>1, <3>2 DEF AtWork
  <2>. QED  BY <2>1 DEF OneTurnPerSession, WorkInv, MemInv, RegInv
<1>. QED  BY <1>1, <1>2, <1>3, WorkInvariance, OpenInvariance, PTL DEF Spec

\* Then, too, a registered object that nobody works on offers what its rows
\* would: nothing is lost when the process dies and the session is read back.
THEOREM MemoryIsRecoverable == NoEviction => (Spec => []MemoryAgreesWithStore)
<1>. SUFFICES ASSUME NoEviction PROVE Spec => []MemoryAgreesWithStore
  OBVIOUS
<1>1. Init => QuietInv
  BY QuietInit
<1>2. WorkInv /\ OpenInv /\ QuietInv /\ [Next]_vars => QuietInv'
  BY QuietNext
<1>3. WorkInv /\ StreamInv /\ QuietInv => MemoryAgreesWithStore
  <2>. SUFFICES ASSUME WorkInv, StreamInv, QuietInv
                PROVE  MemoryAgreesWithStore
    OBVIOUS
  <2>. SUFFICES ASSUME NEW o \in reg, ~AtWork(o)
                PROVE  LET m == heap[o]
                           status == ResumedStatus(last[m.sid], m.phase) IN
                       /\ m.phase = ResumedPhase(m.sid)
                       /\ MayRetry(m) = MayRetry([m EXCEPT !.status = status])
                       /\ {m.status, status} \cap Shown # {} =>
                             m.status = status
    BY DEF MemoryAgreesWithStore
  <2>. DEFINE m == heap[o]
              status == ResumedStatus(last[m.sid], m.phase)
  <2>1. /\ o \in Objects /\ m \in Object /\ m.sid \in Sessions
        /\ last[m.sid] \in Outcomes \cup {"none"}
    BY DEF WorkInv, MemInv, StateOK, RegInv
  <2>2. /\ m.phase = ResumedPhase(m.sid)
        /\ IF last[m.sid] = "none" THEN m.status \in {"idle", "failed"}
           ELSE m.status = last[m.sid]
    BY DEF QuietInv, ShowsRows, AtWork
  <2>3. ~(m.phase = "approved" /\ m.status = "idle")
    <3>. SUFFICES ASSUME m.phase = "approved", m.status = "idle" PROVE FALSE
      OBVIOUS
    <3>1. PICK x \in Threads : ref[x] = o /\ pc[x] \in {"begin", "builds"}
      BY <2>1 DEF StreamInv, ApprovedInv
    <3>2. CASE pc[x] = "begin"
      BY <3>1, <3>2, NullAssumption DEF WorkInv, LockInv, AtWork
    <3>3. CASE pc[x] = "builds"
      BY <3>1, <3>3 DEF WorkInv, MemInv, PrivateInv, Private
    <3>. QED  BY <3>1, <3>2, <3>3
  <2>4. /\ [m EXCEPT !.status = status].status = status
        /\ [m EXCEPT !.status = status].phase = m.phase
    BY <2>1 DEF Object
  <2>5. \/ status = m.status
        \/ m.phase # "approved" /\ status = "idle" /\ m.status = "failed"
    BY <2>1, <2>2, <2>3 DEF ResumedStatus
  <2>6. MayRetry(m) = MayRetry([m EXCEPT !.status = status])
    <3>. HIDE DEF status
    <3>. QED  BY <2>4, <2>5 DEF MayRetry
  <2>7. {m.status, status} \cap Shown # {} => m.status = status
    <3>. HIDE DEF status
    <3>. QED  BY <2>5 DEF Shown
  <2>. QED  BY <2>2, <2>6, <2>7, Zenon
<1>. QED
  BY <1>1, <1>2, <1>3, WorkInvariance, OpenInvariance, StreamInit, StreamNext,
     PTL DEF Spec
=============================================================================
