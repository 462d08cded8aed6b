----------------------------- MODULE AgentProofs -----------------------------
(***************************************************************************)
(* The dialogue, for every set of specs and findings: how often the user   *)
(* is questioned, what a lost object comes back as, which revision a build *)
(* stands for, and that change requests are filed once.                    *)
(***************************************************************************)
EXTENDS AgentMachine, TLAPS, WellFoundedInduction

\* How a turn ends, and the tuples of variables: every step mentions them.
USE DEF MAX_CLARIFY_ROUNDS, Early, Forgotten, Abandoned, Show, Answer,
        LlmPc, StorePc, AgentPhase, storeVars, agentVars, clientVars

\* Stamping keeps what a spec says.
LEMMA StampKeeps ==
    ASSUME NEW s \in Spec_ \cup {NoSpec}
    PROVE  /\ Stamped(s) \in Spec_ \cup {NoSpec}
           /\ Stamped(s) = NoSpec <=> s = NoSpec
           /\ s # NoSpec => Stamped(s).what = s.what
BY ContentsAssumption, TargetAssumption DEF Stamped, Spec_

\* A set of rows that is not empty has a newest one.
LEMMA NewestExists ==
    ASSUME NEW n \in Nat, NEW S \in SUBSET (1..n), S # {}
    PROVE  \E i \in S : \A j \in S : j <= i
<1>. DEFINE T == {n - i : i \in S}
<1>1. T \subseteq Nat /\ T # {}
  <2>1. \A i \in S : i \in 1..n /\ n - i \in Nat
    OBVIOUS
  <2>. QED  BY <2>1
<1>2. PICK x \in T : \A y \in T : ~(<<y, x>> \in OpToRel(<, Nat))
  BY <1>1, WFMin, NatLessThanWellFounded
<1>3. \A y \in T : x <= y
  <2>1. \A y \in T : y \in Nat /\ x \in Nat
    BY <1>1
  <2>2. \A y \in T : ~(y < x)
    BY <1>2, <2>1 DEF OpToRel
  <2>. QED  BY <2>1, <2>2
<1>4. PICK i \in S : x = n - i
  OBVIOUS
<1>5. \A j \in S : n - j \in T /\ i \in 1..n /\ j \in 1..n
  OBVIOUS
<1>6. ASSUME NEW j \in S PROVE j <= i
  <2>1. x <= n - j /\ x = n - i
    BY <1>3, <1>4, <1>5
  <2>2. i \in Nat /\ j \in Nat
    BY <1>5
  <2>. HIDE DEF T
  <2>. QED  BY <2>1, <2>2
<1>. QED  BY <1>6

\* The row a build stands for is one of the session's.
LEMMA BuildOfType ==
    ASSUME NEW rows \in Seq([spec : Spec_, status : {"proposed", "approved"}])
    PROVE  /\ BuildOf(rows).row \in 0..Len(rows)
           /\ Approved(rows) # {} => /\ BuildOf(rows).row \in Approved(rows)
                                    /\ \A i \in Approved(rows) :
                                            i <= BuildOf(rows).row
<1>1. Approved(rows) \in SUBSET (1..Len(rows)) /\ Len(rows) \in Nat
  BY DEF Approved
<1>2. CASE Approved(rows) = {}
  BY <1>1, <1>2 DEF BuildOf
<1>3. CASE Approved(rows) # {}
  <2>1. \E i \in Approved(rows) : \A j \in Approved(rows) : j <= i
    BY <1>1, <1>3, NewestExists
  <2>2. BuildOf(rows).row = CHOOSE i \in Approved(rows) :
                                \A j \in Approved(rows) : j <= i
    BY <1>3 DEF BuildOf
  <2>. QED  BY <1>1, <2>1, <2>2
<1>. QED  BY <1>2, <1>3

\* An approved newest row is the one a build stands for.
LEMMA NewestIsBuilt ==
    ASSUME NEW rows \in Seq([spec : Spec_, status : {"proposed", "approved"}]),
           Len(rows) \in DOMAIN rows, rows[Len(rows)].status = "approved"
    PROVE  BuildOf(rows).row = Len(rows)
<1>1. Len(rows) \in Approved(rows) /\ Len(rows) \in Nat
  BY DEF Approved
<1>2. /\ BuildOf(rows).row \in 0..Len(rows)
      /\ Len(rows) <= BuildOf(rows).row
  BY <1>1, BuildOfType
<1>. QED  BY <1>1, <1>2

\* The newest row is one.
LEMMA NewestType ==
    ASSUME TypeOK, specs # <<>>
    PROVE  /\ Newest.spec \in Spec_
           /\ Newest.status \in {"proposed", "approved"}
           /\ Len(specs) \in DOMAIN specs
<1>. DEFINE Rows == [spec : Spec_, status : {"proposed", "approved"}]
<1>1. specs \in Seq(Rows)
  BY DEF TypeOK
<1>2. Newest \in Rows /\ Len(specs) \in DOMAIN specs
  <2>. HIDE DEF Rows
  <2>. QED  BY <1>1 DEF Newest
<1>. QED  BY <1>2

\* What a first turn that fails leaves is of the types.
LEMMA TypeAbandoned ==
    ASSUME TypeOK, Abandoned
    PROVE  TypeOK'
<1>. DEFINE Rows == [spec : Spec_, status : {"proposed", "approved"}]
<1>1. specs' = <<>> /\ specs' \in Seq(Rows) /\ Len(specs') = 0
  OBVIOUS
<1>2. filed' \in [Keys -> Nat]
  OBVIOUS
<1>3. said' \in 0..MaxSaid /\ answers' \in 0..MaxSaid
  BY BoundsAssumption
<1>4. /\ known' \in BOOLEAN /\ asked' \in Nat /\ lost' \in Nat /\ shown' \subseteq Keys
      /\ built' \in Builds
  BY DEF TypeOK
<1>5. /\ traced' \in Nat /\ live' \in BOOLEAN /\ phase' \in AgentPhase
      /\ spec_row' = 0 /\ hurt' \in BOOLEAN /\ strayed' \in BOOLEAN
  OBVIOUS
<1>6. spec' \in Spec_ \cup {NoSpec}
  OBVIOUS
<1>7. rounds' \in 0..MAX_CLARIFY_ROUNDS
  OBVIOUS
<1>8. logged' \subseteq Keys /\ verdicts' \subseteq Keys
  OBVIOUS
<1>9. pc' \in {"idle"} \cup LlmPc \cup StorePc
  OBVIOUS
<1>. QED  BY <1>1, <1>2, <1>3, <1>4, <1>5, <1>6, <1>7, <1>8, <1>9 DEF TypeOK

\* What a patch makes of a spec is one.
LEMMA PatchedType ==
    ASSUME TypeOK, Shape, pc = "patch",
           NEW c \in Contents, NEW target \in {"kept", "reset"}
    PROVE  Patched(c, target) \in Spec_
<1>1. spec \in Spec_
  BY DEF TypeOK, Shape
<1>. QED  BY <1>1 DEF Patched, Drafted, Spec_

\* The steps of a turn keep the types.
LEMMA TypeTurn ==
    ASSUME TypeOK, Shape, Turn
    PROVE  TypeOK'
<1>1. ASSUME NEW unclear \in BOOLEAN, Ground(unclear) PROVE TypeOK'
  BY <1>1 DEF TypeOK, Ground
<1>2. CASE Ask \/ Announce
  BY <1>2 DEF TypeOK, Ask, Announce
<1>3. CASE AskTraced \/ AskUntraced \/ Noop \/ Proposed
  <2>1. Stamped(spec) \in Spec_ \cup {NoSpec}
    BY StampKeeps DEF TypeOK
  <2>2. CASE AskTraced
    BY <2>1, <2>2 DEF TypeOK, AskTraced
  <2>3. CASE AskUntraced
    <3>1. asked' \in Nat /\ lost' \in Nat /\ shown' \subseteq Keys
      BY <2>3 DEF TypeOK, AskUntraced
    <3>2. /\ spec' \in Spec_ \cup {NoSpec} /\ hurt' \in BOOLEAN
          /\ strayed' \in BOOLEAN
      BY <2>1, <2>3 DEF TypeOK, AskUntraced
    <3>3. pc' \in {"idle"} \cup LlmPc \cup StorePc /\ known' \in BOOLEAN
      BY <2>3 DEF AskUntraced
    <3>. QED  BY <2>3, <3>1, <3>2, <3>3 DEF TypeOK, AskUntraced
  <2>4. CASE Noop \/ Proposed
    BY <2>1, <2>4 DEF TypeOK, Noop, Proposed
  <2>. QED  BY <1>3, <2>2, <2>4, <2>3
<1>4. ASSUME NEW c \in Contents, Propose(c) PROVE TypeOK'
  BY <1>4, RequestsAssumption DEF TypeOK, Propose, Spec_, Drafted
<1>5. ASSUME NEW c \in Contents, NEW target \in {"kept", "reset"},
             Patch(c, target) PROVE TypeOK'
  <2>1. Patched(c, target) \in Spec_ /\ Requests[c] \subseteq Keys
    BY <1>5, PatchedType, RequestsAssumption DEF Patch
  <2>. QED  BY <1>5, <2>1 DEF TypeOK, Patch
<1>6. CASE SaveSpec
  <2>1. [spec |-> spec, status |-> "proposed"]
            \in [spec : Spec_, status : {"proposed", "approved"}]
    BY <1>6 DEF TypeOK, Shape, SaveSpec
  <2>2. /\ specs' \in Seq([spec : Spec_, status : {"proposed", "approved"}])
        /\ Len(specs') = Len(specs) + 1 /\ Len(specs) \in Nat
    BY <1>6, <2>1 DEF TypeOK, SaveSpec
  <2>3. spec_row' \in 0..Len(specs')
    BY <1>6, <2>2 DEF SaveSpec
  <2>4. strayed' \in BOOLEAN /\ pc' \in {"idle"} \cup LlmPc \cup StorePc
    BY <1>6 DEF SaveSpec
  <2>. QED  BY <1>6, <2>2, <2>3, <2>4 DEF TypeOK, SaveSpec
<1>7. ASSUME NEW k \in Keys, LogRequest(k) PROVE TypeOK'
  BY <1>7 DEF TypeOK, LogRequest
<1>8. ASSUME NEW c \in Contents, ProposeRaises(c), known PROVE TypeOK'
  <2>1. Drafted(c) \in Spec_
    BY DEF Drafted, Spec_
  <2>. QED  BY <1>8, <2>1 DEF TypeOK, ProposeRaises, Strays
<1>9. ASSUME NEW c \in Contents, NEW target \in {"kept", "reset"},
             PatchRaises(c, target) PROVE TypeOK'
  <2>1. Patched(c, target) \in Spec_ /\ known
    BY <1>9, PatchedType DEF PatchRaises, Shape
  <2>. QED  BY <1>9, <2>1 DEF TypeOK, PatchRaises, Strays
<1>10. ASSUME NEW c \in Contents, ProposeRaises(c), ~known PROVE TypeOK'
  BY <1>10, TypeAbandoned DEF ProposeRaises, Strays
<1>. QED
  BY <1>1, <1>2, <1>3, <1>4, <1>5, <1>6, <1>7, <1>8, <1>9, <1>10 DEF Turn

\* Every step keeps the types.
LEMMA TypeNext ==
    ASSUME IInv, [Next]_vars
    PROVE  TypeOK'
<1>. USE DEF IInv
<1>. DEFINE Rows == [spec : Spec_, status : {"proposed", "approved"}]
<1>1. Stamped(spec) \in Spec_ \cup {NoSpec}
  BY StampKeeps DEF TypeOK
<1>2. CASE Turn
  BY <1>2, TypeTurn
<1>3. CASE Start
  BY <1>3, BoundsAssumption DEF TypeOK, Start
<1>4. CASE Reply
  <2>1. said' \in 0..MaxSaid /\ answers' \in 0..MaxSaid
    BY <1>4, BoundsAssumption DEF TypeOK, Reply, OneMore
  <2>. QED  BY <1>4, <2>1 DEF TypeOK, Reply
<1>5. ASSUME NEW c \in Contents, Adopt(c) PROVE TypeOK'
  BY <1>5, RequestsAssumption, TargetAssumption DEF TypeOK, Adopt, Spec_
<1>6. CASE Abandoned
  BY <1>6, TypeAbandoned
<1>7. CASE LlmFails /\ known
  BY <1>7 DEF TypeOK, LlmFails
<1>8. CASE StoreFails /\ known
  BY <1>8 DEF TypeOK, StoreFails
<1>9. ASSUME NEW k \in Keys, FilingFails(k), known PROVE TypeOK'
  BY <1>9 DEF TypeOK, FilingFails
<1>10. CASE Approve
  <2>1. specs' \in Seq(Rows) /\ Len(specs') = Len(specs)
    <3>1. CASE spec_row = 0
      BY <1>10, <3>1 DEF TypeOK, Approve
    <3>2. CASE spec_row # 0
      <4>1. spec_row \in DOMAIN specs /\ specs \in Seq(Rows)
        BY <3>2 DEF TypeOK
      <4>2. [spec |-> specs[spec_row].spec, status |-> "approved"] \in Rows
        <5>1. specs[spec_row] \in Rows
          <6>. HIDE DEF Rows
          <6>. QED  BY <4>1
        <5>. QED  BY <5>1
      <4>. HIDE DEF Rows
      <4>. QED  BY <1>10, <3>2, <4>1, <4>2 DEF Approve
    <3>. QED  BY <3>1, <3>2
  <2>2. built' \in Builds
    <3>1. spec # NoSpec /\ spec.what \in Contents
      BY <1>10 DEF TypeOK, Shape, Approve, Spec_
    <3>2. BuildOf(specs').row \in 0..Len(specs')
      BY <2>1, BuildOfType
    <3>3. Len(specs') \in Nat
      BY <2>1
    <3>4. built' = [what |-> spec.what, row |-> BuildOf(specs').row,
                   whole |-> ~hurt, strayed |-> strayed]
      BY <1>10 DEF Approve, BuildOf
    <3>. HIDE DEF Rows
    <3>5. hurt \in BOOLEAN /\ strayed \in BOOLEAN
      BY DEF TypeOK
    <3>. QED  BY <3>1, <3>2, <3>3, <3>4, <3>5 DEF Builds
  <2>. QED  BY <1>1, <1>10, <2>1, <2>2 DEF TypeOK, Approve
<1>11. CASE Rebuild
  <2>1. built' \in Builds
    <3>1. spec # NoSpec /\ spec.what \in Contents
      BY <1>11 DEF TypeOK, Shape, Rebuild, Spec_
    <3>2. BuildOf(specs).row \in 0..Len(specs)
      BY BuildOfType DEF TypeOK
    <3>3. Len(specs) \in Nat
      BY DEF TypeOK
    <3>4. built' = [what |-> spec.what, row |-> BuildOf(specs).row,
                   whole |-> ~hurt, strayed |-> strayed]
      BY <1>11 DEF Rebuild, BuildOf
    <3>. HIDE DEF Rows
    <3>5. hurt \in BOOLEAN /\ strayed \in BOOLEAN
      BY DEF TypeOK
    <3>. QED  BY <3>1, <3>2, <3>3, <3>4, <3>5 DEF Builds
  <2>. QED  BY <1>1, <1>11, <2>1 DEF TypeOK, Rebuild
<1>12. CASE ApproveFails
  BY <1>1, <1>12 DEF TypeOK, ApproveFails
<1>13. CASE ApproveDenied
  BY <1>1, <1>13 DEF TypeOK, ApproveDenied
<1>14. CASE Lose /\ known
  <2>1. said' \in 0..MaxSaid /\ answers' \in 0..MaxSaid
    BY <1>14, BoundsAssumption DEF TypeOK, Lose
  <2>2. rounds' \in 0..MAX_CLARIFY_ROUNDS /\ spec_row' \in 0..Len(specs')
    BY <1>14 DEF TypeOK, Lose
  <2>3. logged' \subseteq Keys /\ verdicts' \subseteq Keys
    BY <1>14 DEF Lose
  <2>4. spec' \in Spec_ \cup {NoSpec} /\ pc' \in {"idle"} \cup LlmPc \cup StorePc
    BY <1>14 DEF Lose
  <2>. QED  BY <1>14, <2>1, <2>2, <2>3, <2>4 DEF TypeOK, Lose
<1>15. CASE Restore
  <2>1. CASE specs # <<>>
    <3>1. Len(specs) \in DOMAIN specs /\ Len(specs) \in Nat
      BY <2>1 DEF TypeOK
    <3>2. Newest.spec \in Spec_
      BY <2>1, NewestType
    <3>3. phase' \in AgentPhase /\ spec' \in Spec_ \cup {NoSpec}
      BY <1>15, <2>1, <3>2 DEF Restore
    <3>4. spec_row' \in 0..Len(specs')
      BY <1>15, <2>1, <3>1 DEF Restore
    <3>. QED  BY <1>15, <2>1, <3>3, <3>4 DEF TypeOK, Restore
  <2>2. CASE specs = <<>>
    <3>1. said > 0 /\ answers' = said - 1 /\ rounds' = traced
      BY <1>15, <2>2 DEF TypeOK, Shape, Restore
    <3>2. answers' \in 0..MaxSaid /\ rounds' \in 0..MAX_CLARIFY_ROUNDS
      BY <3>1, BoundsAssumption DEF TypeOK, Shape
    <3>. QED  BY <1>15, <2>2, <3>2 DEF TypeOK, Restore
  <2>. QED  BY <2>1, <2>2
<1>16. CASE UNCHANGED vars
  BY <1>16 DEF TypeOK, vars
<1>. QED
  BY <1>2, <1>3, <1>4, <1>5, <1>6, <1>7, <1>8, <1>9, <1>10, <1>11, <1>12,
     <1>13, <1>14, <1>15, <1>16
  DEF Next, LlmFails, StoreFails, FilingFails, Lose

\* One step per action: Shape.
LEMMA ShapeNext ==
    ASSUME IInv, [Next]_vars
    PROVE  Shape'
<1>1. /\ Shape /\ traced \in Nat /\ rounds \in 0..MAX_CLARIFY_ROUNDS
      /\ asked \in Nat /\ lost \in Nat /\ said \in Nat /\ phase \in AgentPhase
      /\ pc \in {"idle"} \cup LlmPc \cup StorePc
      /\ live \in BOOLEAN /\ known \in BOOLEAN /\ hurt \in BOOLEAN
  BY DEF IInv, TypeOK
<1>2. /\ Stamped(spec) = NoSpec <=> spec = NoSpec
      /\ spec # NoSpec => spec \in Spec_
  BY StampKeeps DEF IInv, TypeOK
<1>3. /\ \A c \in Contents : [what |-> c, target |-> Target] # NoSpec
      /\ \A c \in Contents : Drafted(c) # NoSpec
      /\ pc = "patch" => \A c \in Contents, t \in {"kept", "reset"} :
                            Patched(c, t) # NoSpec
  BY ContentsAssumption, TargetAssumption, PatchedType
  DEF IInv, Drafted, Spec_
<1>4. specs # <<>> => Newest.spec # NoSpec
  <2>1. specs # <<>> => Newest.spec \in Spec_
    BY NewestType DEF IInv, TypeOK
  <2>. QED  BY <2>1, ContentsAssumption DEF Spec_
<1>5. \A r : Append(specs, r) # <<>>
  BY DEF IInv, TypeOK
<1>. USE <1>1 DEF Shape
<1>6. ASSUME NEW unclear \in BOOLEAN, Ground(unclear) PROVE Shape'
  BY <1>6 DEF Ground
<1>7. CASE Ask
  BY <1>7 DEF Ask
<1>8. CASE Announce
  BY <1>8 DEF Announce
<1>9. CASE AskTraced
  BY <1>2, <1>9 DEF AskTraced
<1>10. CASE AskUntraced
  BY <1>2, <1>10 DEF AskUntraced
<1>11. CASE Noop
  BY <1>2, <1>11 DEF Noop
<1>12. CASE Proposed
  BY <1>2, <1>12 DEF Proposed
<1>13. ASSUME NEW c \in Contents, Propose(c) PROVE Shape'
  BY <1>3, <1>13 DEF Propose
<1>14. ASSUME NEW c \in Contents, NEW target \in {"kept", "reset"},
             Patch(c, target) PROVE Shape'
  BY <1>3, <1>14 DEF Patch
<1>15. CASE SaveSpec
  BY <1>15, <1>5 DEF SaveSpec
<1>16. ASSUME NEW k \in Keys, LogRequest(k) PROVE Shape'
  BY <1>16 DEF LogRequest
<1>17. CASE Start
  BY <1>17 DEF Start
<1>18. CASE Reply
  BY <1>18, BoundsAssumption DEF Reply, OneMore
<1>19. ASSUME NEW c \in Contents, Adopt(c) PROVE Shape'
  BY <1>3, <1>19, TargetAssumption DEF Adopt
<1>20. CASE Abandoned /\ ~known
  BY <1>20
<1>21. CASE LlmFails /\ known
  BY <1>21 DEF LlmFails
<1>22. CASE StoreFails /\ known
  BY <1>22 DEF StoreFails
<1>23. ASSUME NEW k \in Keys, FilingFails(k), known PROVE Shape'
  BY <1>23 DEF FilingFails
<1>24. CASE Approve
  BY <1>2, <1>24 DEF Approve
<1>25. CASE Rebuild
  BY <1>2, <1>25 DEF Rebuild
<1>26. CASE ApproveFails
  BY <1>2, <1>26 DEF ApproveFails
<1>27. CASE ApproveDenied
  BY <1>2, <1>27 DEF ApproveDenied
<1>28. CASE Lose /\ known
  BY <1>28 DEF Lose
<1>29. CASE Restore
  BY <1>29, <1>4 DEF Restore
<1>30. CASE UNCHANGED vars
  BY <1>30 DEF vars
<1>31. ASSUME NEW c \in Contents, ProposeRaises(c), known PROVE Shape'
  BY <1>3, <1>31 DEF ProposeRaises, Strays
<1>32. ASSUME NEW c \in Contents, NEW target \in {"kept", "reset"},
             PatchRaises(c, target) PROVE Shape'
  BY <1>3, <1>32 DEF PatchRaises, Strays
<1>. QED
  BY <1>6, <1>7, <1>8, <1>9, <1>10, <1>11, <1>12, <1>13, <1>14, <1>15, <1>16,
     <1>17, <1>18, <1>19, <1>20, <1>21, <1>22, <1>23, <1>24, <1>25, <1>26, <1>27,
     <1>28, <1>29, <1>30, <1>31, <1>32
  DEF Next, Turn, ProposeRaises, Strays, LlmFails, StoreFails, FilingFails, Lose

\* What a session no Store call failed has of its rows.
LEMMA WholeNext ==
    ASSUME IInv, [Next]_vars
    PROVE  Whole'
<1>1. /\ Shape /\ Whole /\ traced \in Nat /\ rounds \in 0..MAX_CLARIFY_ROUNDS
      /\ said \in 0..MaxSaid /\ answers \in 0..MaxSaid /\ phase \in AgentPhase
      /\ pc \in {"idle"} \cup LlmPc \cup StorePc
      /\ live \in BOOLEAN /\ known \in BOOLEAN /\ hurt \in BOOLEAN
      /\ filed \in [Keys -> Nat] /\ MaxSaid \in Nat \ {0}
  BY BoundsAssumption DEF IInv, TypeOK
<1>2. /\ Stamped(spec) = NoSpec <=> spec = NoSpec
      /\ spec # NoSpec => Stamped(spec).what = spec.what
  BY StampKeeps DEF IInv, TypeOK
<1>3. /\ \A c \in Contents : [what |-> c, target |-> Target] # NoSpec
      /\ \A c \in Contents : Drafted(c) # NoSpec
      /\ pc = "patch" => \A c \in Contents, t \in {"kept", "reset"} :
                            Patched(c, t) # NoSpec
  BY ContentsAssumption, TargetAssumption, PatchedType
  DEF IInv, Drafted, Spec_
<1>. USE <1>1 DEF Shape, Whole, Newest
<1>4. ASSUME NEW unclear \in BOOLEAN, Ground(unclear) PROVE Whole'
  BY <1>4 DEF Ground
<1>5. CASE Ask
  BY <1>5 DEF Ask
<1>6. CASE Announce
  BY <1>6 DEF Announce
<1>7. CASE AskTraced
  BY <1>2, <1>7 DEF AskTraced
<1>8. CASE AskUntraced
  BY <1>2, <1>8 DEF AskUntraced
<1>9. CASE Noop
  BY <1>2, <1>9 DEF Noop
<1>10. CASE Proposed
  BY <1>2, <1>10 DEF Proposed
<1>11. ASSUME NEW c \in Contents, Propose(c) PROVE Whole'
  BY <1>3, <1>11 DEF Propose
<1>12. ASSUME NEW c \in Contents, NEW target \in {"kept", "reset"},
             Patch(c, target) PROVE Whole'
  BY <1>3, <1>12 DEF Patch
<1>13. CASE SaveSpec
  BY <1>13 DEF SaveSpec
<1>14. ASSUME NEW k \in Keys, LogRequest(k) PROVE Whole'
  BY <1>14 DEF LogRequest
<1>15. CASE Start
  BY <1>15 DEF Start
<1>16. CASE Reply
  BY <1>16 DEF Reply, OneMore
<1>17. ASSUME NEW c \in Contents, Adopt(c) PROVE Whole'
  BY <1>3, <1>17, TargetAssumption DEF Adopt
<1>18. CASE Abandoned
  BY <1>18
<1>19. CASE LlmFails /\ known
  BY <1>19 DEF LlmFails
<1>20. CASE StoreFails /\ known
  BY <1>20 DEF StoreFails
<1>21. ASSUME NEW k \in Keys, FilingFails(k), known PROVE Whole'
  BY <1>21 DEF FilingFails
<1>22. CASE Approve
  BY <1>2, <1>22 DEF Approve
<1>23. CASE Rebuild
  BY <1>2, <1>23 DEF Rebuild
<1>24. CASE ApproveFails
  BY <1>2, <1>24 DEF ApproveFails
<1>25. CASE ApproveDenied
  BY <1>2, <1>25 DEF ApproveDenied
<1>26. CASE Lose /\ known
  BY <1>26 DEF Lose
<1>27. CASE Restore
  BY <1>27 DEF Restore
<1>28. CASE UNCHANGED vars
  BY <1>28 DEF vars
<1>29. ASSUME NEW c \in Contents, ProposeRaises(c), known PROVE Whole'
  BY <1>3, <1>29 DEF ProposeRaises, Strays
<1>30. ASSUME NEW c \in Contents, NEW target \in {"kept", "reset"},
             PatchRaises(c, target) PROVE Whole'
  BY <1>3, <1>30 DEF PatchRaises, Strays
<1>. QED
  BY <1>4, <1>5, <1>6, <1>7, <1>8, <1>9, <1>10, <1>11, <1>12, <1>13, <1>14,
     <1>15, <1>16, <1>17, <1>18, <1>19, <1>20, <1>21, <1>22, <1>23, <1>24, <1>25,
     <1>26, <1>27, <1>28, <1>29, <1>30
  DEF Next, Turn, ProposeRaises, Strays, LlmFails, StoreFails, FilingFails, Lose

\* What is filed is remembered, what was shown is filed.
LEMMA FilingNext ==
    ASSUME IInv, [Next]_vars
    PROVE  Filing'
<1>1. /\ Shape /\ Filing
      /\ live /\ ~hurt => logged = {k \in Keys : filed[k] > 0}
      /\ pc \in {"idle"} \cup LlmPc \cup StorePc
      /\ live \in BOOLEAN /\ known \in BOOLEAN /\ hurt \in BOOLEAN
      /\ filed \in [Keys -> Nat]
      /\ verdicts \subseteq Keys /\ shown \subseteq Keys /\ logged \subseteq Keys
  BY DEF IInv, TypeOK, Whole
<1>. USE <1>1 DEF Shape, Filing, FiledOnce
<1>2. ASSUME NEW unclear \in BOOLEAN, Ground(unclear) PROVE Filing'
  BY <1>2 DEF Ground
<1>3. CASE Ask
  BY <1>3 DEF Ask
<1>4. CASE Announce
  BY <1>4 DEF Announce
<1>5. CASE AskTraced
  BY <1>5 DEF AskTraced
<1>6. CASE AskUntraced
  BY <1>6 DEF AskUntraced
<1>7. CASE Noop
  BY <1>7 DEF Noop
<1>8. CASE Proposed
  BY <1>8 DEF Proposed, Unlogged
<1>9. ASSUME NEW c \in Contents, Propose(c) PROVE Filing'
  BY <1>9 DEF Propose
<1>10. ASSUME NEW c \in Contents, NEW target \in {"kept", "reset"},
             Patch(c, target) PROVE Filing'
  BY <1>10 DEF Patch
<1>11. CASE SaveSpec
  BY <1>11 DEF SaveSpec
<1>12. ASSUME NEW k \in Keys, LogRequest(k) PROVE Filing'
  BY <1>12 DEF LogRequest, Unlogged
<1>13. CASE Start
  BY <1>13 DEF Start
<1>14. CASE Reply
  BY <1>14 DEF Reply
<1>15. ASSUME NEW c \in Contents, Adopt(c) PROVE Filing'
  BY <1>15 DEF Adopt
<1>16. CASE Abandoned /\ ~known
  BY <1>16
<1>17. CASE LlmFails /\ known
  BY <1>17 DEF LlmFails
<1>18. CASE StoreFails /\ known
  BY <1>18 DEF StoreFails
<1>19. ASSUME NEW k \in Keys, FilingFails(k), known PROVE Filing'
  BY <1>19 DEF FilingFails
<1>20. CASE Approve
  BY <1>20 DEF Approve
<1>21. CASE Rebuild
  BY <1>21 DEF Rebuild
<1>22. CASE ApproveFails
  BY <1>22 DEF ApproveFails
<1>23. CASE ApproveDenied
  BY <1>23 DEF ApproveDenied
<1>24. CASE Lose /\ known
  BY <1>24 DEF Lose
<1>25. CASE Restore
  BY <1>25 DEF Restore
<1>26. CASE UNCHANGED vars
  BY <1>26 DEF vars
<1>27. ASSUME NEW c \in Contents, ProposeRaises(c), known PROVE Filing'
  BY <1>27 DEF ProposeRaises, Strays
<1>28. ASSUME NEW c \in Contents, NEW target \in {"kept", "reset"},
             PatchRaises(c, target) PROVE Filing'
  BY <1>28 DEF PatchRaises, Strays
<1>. QED
  BY <1>2, <1>3, <1>4, <1>5, <1>6, <1>7, <1>8, <1>9, <1>10, <1>11, <1>12,
     <1>13, <1>14, <1>15, <1>16, <1>17, <1>18, <1>19, <1>20, <1>21, <1>22, <1>23,
     <1>24, <1>25, <1>26, <1>27, <1>28
  DEF Next, Turn, ProposeRaises, Strays, LlmFails, StoreFails, FilingFails, Lose

\* Only a save, an approval and a rebuild matter here.
LEMMA StoredNext ==
    ASSUME IInv, [Next]_vars
    PROVE  BuiltIsStored'
<1>. DEFINE Rows == [spec : Spec_, status : {"proposed", "approved"}]
<1>1. /\ BuiltIsStored /\ specs \in Seq(Rows)
      /\ ~known => ~built.whole
  BY DEF IInv, TypeOK, Shape
<1>2. CASE UNCHANGED <<specs, built>>
  BY <1>1, <1>2 DEF BuiltIsStored
<1>3. CASE Abandoned /\ ~known
  BY <1>1, <1>3 DEF BuiltIsStored
<1>4. CASE SaveSpec
  <2>1. built' = built /\ DOMAIN specs \subseteq DOMAIN specs'
    <3>. HIDE DEF Rows
    <3>. QED  BY <1>1, <1>4 DEF SaveSpec
  <2>2. \A i \in DOMAIN specs : specs'[i] = specs[i]
    <3>. HIDE DEF Rows
    <3>. QED  BY <1>1, <1>4 DEF SaveSpec
  <2>. QED  BY <1>1, <2>1, <2>2 DEF BuiltIsStored
<1>5. CASE Approve /\ (hurt \/ strayed)
  BY <1>5 DEF BuiltIsStored, Approve, BuildOf
<1>6. CASE Rebuild /\ (hurt \/ strayed)
  BY <1>6 DEF BuiltIsStored, Rebuild, BuildOf
<1>7. CASE Approve /\ ~hurt /\ ~strayed
  <2>1. /\ specs # <<>> /\ spec_row = Len(specs) /\ spec.what = Newest.spec.what
        /\ spec_row # 0 /\ Len(specs) \in DOMAIN specs
    <3>1. specs # <<>>
      BY <1>7 DEF IInv, Whole, Approve
    <3>2. Len(specs) \in DOMAIN specs
      BY <3>1, NewestType DEF IInv
    <3>. QED  BY <1>1, <1>7, <3>1, <3>2 DEF IInv, Whole, Approve
  <2>2. /\ specs' \in Seq(Rows) /\ Len(specs') = Len(specs)
        /\ specs'[Len(specs)] = [spec |-> Newest.spec, status |-> "approved"]
    <3>1. [spec |-> Newest.spec, status |-> "approved"] \in Rows
      BY <2>1, NewestType DEF IInv
    <3>. HIDE DEF Rows
    <3>. QED  BY <1>1, <1>7, <2>1, <3>1 DEF Approve, Newest
  <2>3. BuildOf(specs').row = Len(specs)
    <3>1. /\ Len(specs') \in DOMAIN specs'
          /\ specs'[Len(specs')].status = "approved"
      BY <2>1, <2>2
    <3>2. BuildOf(specs').row = Len(specs')
      BY <2>2, <3>1, NewestIsBuilt
    <3>. QED  BY <2>2, <3>2
  <2>4. built'.row = BuildOf(specs').row /\ built'.what = spec.what
    BY <1>7 DEF Approve, BuildOf
  <2>. QED  BY <1>1, <2>1, <2>2, <2>3, <2>4 DEF BuiltIsStored
<1>8. CASE Rebuild /\ ~hurt /\ ~strayed
  <2>1. /\ specs # <<>> /\ spec.what = Newest.spec.what
        /\ Newest.status = "approved"
    BY <1>8 DEF IInv, Whole, Rebuild
  <2>2. Len(specs) \in DOMAIN specs
    BY <2>1, NewestType DEF IInv
  <2>3. BuildOf(specs).row = Len(specs)
    BY <1>1, <2>1, <2>2, NewestIsBuilt DEF Newest
  <2>4. built'.row = BuildOf(specs).row /\ built'.what = spec.what /\ specs' = specs
    BY <1>8 DEF Rebuild, BuildOf, storeVars
  <2>. QED  BY <2>1, <2>2, <2>3, <2>4 DEF BuiltIsStored, Newest
<1>9. CASE ~UNCHANGED <<specs, built>>
  <2>1. (Abandoned /\ ~known) \/ SaveSpec \/ Approve \/ Rebuild
    BY <1>9 DEF Next, Turn, Ground, Ask, AskTraced, AskUntraced, Propose, Patch,
         ProposeRaises, PatchRaises, Strays, Noop, Announce,
         LogRequest, Proposed, Start, Adopt, Reply, LlmFails, StoreFails,
         FilingFails, ApproveDenied, ApproveFails, Lose, Restore, vars
  <2>. QED  BY <1>3, <1>4, <1>5, <1>6, <1>7, <1>8, <2>1
<1>. QED  BY <1>2, <1>9

\* The inductive invariant.
LEMMA Inductive == Spec => []IInv
<1>1. Init => IInv
  <2>. SUFFICES ASSUME Init PROVE IInv
    OBVIOUS
  <2>1. /\ said \in 0..MaxSaid /\ answers \in 0..MaxSaid
        /\ specs = <<>>
        /\ specs \in Seq([spec : Spec_, status : {"proposed", "approved"}])
        /\ Len(specs) = 0
    BY BoundsAssumption DEF Init
  <2>2. filed \in [Keys -> Nat] /\ \A k \in Keys : filed[k] = 0
    BY DEF Init
  <2>3. /\ built \in Builds
        /\ ~built.whole
    BY DEF Init, NoBuild, Builds
  <2>4. spec \in Spec_ \cup {NoSpec}
    BY DEF Init
  <2>5. pc \in {"idle"} \cup LlmPc \cup StorePc /\ phase \in AgentPhase
    BY DEF Init
  <2>6. /\ logged \subseteq Keys /\ verdicts \subseteq Keys /\ shown \subseteq Keys
        /\ traced \in Nat /\ spec_row = 0 /\ rounds \in 0..MAX_CLARIFY_ROUNDS
    BY DEF Init
  <2>7. live \in BOOLEAN /\ hurt \in BOOLEAN /\ strayed \in BOOLEAN
        /\ known \in BOOLEAN /\ asked \in Nat /\ lost \in Nat
    BY DEF Init
  <2>8. TypeOK
    BY <2>1, <2>2, <2>3, <2>4, <2>5, <2>6, <2>7 DEF TypeOK
  <2>9. Shape
    BY <2>2, <2>3 DEF Init, Shape
  <2>. QED
    BY <2>2, <2>3, <2>8, <2>9
    DEF Init, IInv, Whole, Filing, FiledOnce, BuiltIsStored
<1>2. IInv /\ [Next]_vars => IInv'
  BY TypeNext, ShapeNext, WholeNext, FilingNext, StoredNext DEF IInv
<1>. QED  BY <1>1, <1>2, PTL DEF Spec

\* However often the object is lost and restored, the user is questioned at
\* most MAX_CLARIFY_ROUNDS times: _trace's count is what ground goes by.
THEOREM Questions == Spec => []QuestionsBounded
<1>1. IInv => QuestionsBounded
  BY DEF IInv, TypeOK, Shape, QuestionsBounded
<1>. QED  BY <1>1, Inductive, PTL

\* What _hydrate makes of the rows is what the session had in memory, but for a
\* spec whose turn raised before storing it.
THEOREM Resume == Spec => []ResumeLosesNothing
<1>1. IInv => ResumeLosesNothing
  <2>. SUFFICES ASSUME IInv, live, known, pc = "idle", ~hurt
                PROVE  /\ logged = {k \in Keys : filed[k] > 0}
                       /\ specs # <<>> =>
                            /\ phase = IF Newest.status = "approved"
                                       THEN "approved" ELSE "approve"
                            /\ spec_row = Len(specs)
                            /\ spec.what = Newest.spec.what \/ strayed
                       /\ specs = <<>> =>
                            /\ phase = "clarify"
                            /\ spec = NoSpec \/ strayed
                            /\ rounds = traced /\ traced > 0
                            /\ answers = said - 1
    BY DEF ResumeLosesNothing
  <2>1. Whole /\ Shape /\ traced \in Nat
    BY DEF IInv, TypeOK
  <2>. QED  BY <2>1 DEF Whole, Shape
<1>. QED  BY <1>1, Inductive, PTL

\* The approved row compile_and_build finds is the revision it is given, but for
\* a spec whose turn raised before storing it.
THEOREM Stored == Spec => []BuiltIsStored
<1>1. IInv => BuiltIsStored
  BY DEF IInv
<1>. QED  BY <1>1, Inductive, PTL

\* No change request is filed twice, and none the user was shown is missing.
THEOREM Filed == Spec => []FiledOnce
<1>1. IInv => FiledOnce
  BY DEF IInv, Filing
<1>. QED  BY <1>1, Inductive, PTL
=============================================================================
