---------------------------- MODULE DataLensProofs ----------------------------
(***************************************************************************)
(* For boards of any number of charts with distinct titles and any number  *)
(* of builds, failures and crashes: the properties of DataLensBuild.  Two  *)
(* charts of one title have one temporary name, and such a board is never  *)
(* delivered.                                                              *)
(***************************************************************************)
EXTENDS DataLensBuild, TLAPS

DistinctTitles == \A c, d \in 1 .. NCharts : Title[c] = Title[d] => c = d

Steps == {"idle", "connect", "clear", "create", "measure", "drop", "rename", "sweep",
          "raised", "returned", "cleaning", "cleaned", "uncleaned"}

Shape ==
    /\ entry = [s \in Slots |-> entry[s]]
    /\ made = [i \in Ops |-> made[i]]
    /\ \A l \in late : \E i \in Ops : l.slot = Wip(i)
Types == op \in Ops /\ upto \in 0 .. Last /\ pc \in Steps

\* Every name a build may have used is recorded before it is used.
Recorded ==
    /\ pc = "connect" => op = 1 /\ upto = 0
    /\ pc \in {"clear", "create", "measure"} => upto = op
    /\ pc \in {"drop", "rename", "returned"} => upto = Last
    /\ pc = "sweep" => op <= upto

\* The ops done: an op at "measure" is, and may be done again.
Done == CASE pc \in {"clear", "create"} -> 1 .. op - 1
          [] pc = "measure" -> 1 .. op
          [] pc \in {"drop", "rename"} -> Ops
          [] OTHER -> {}

\* What was made for an op is made of what was made for ops before it.
Bound ==
    \A j \in Done : made[j].op = j /\ made[j].uses \subseteq {made[i] : i \in 1 .. j - 1}

\* While no call has failed, the temporary names hold what the build made.
Undisturbed ==
    ~faulted =>
        /\ pc \in {"clear", "create", "measure"} => \A j \in Done : entry[Wip(j)] = made[j]
        /\ pc = "create" => entry[Wip(op)] = NoId
        /\ pc \in {"drop", "rename"} => \A j \in op .. Last : entry[Wip(j)] = made[j]
        /\ pc = "rename" => entry[Canonical(op)] = NoId
        /\ pc \notin {"sweep", "raised"}

\* The canonical names of the ops promoted hold what the build made.
Promoted ==
    /\ pc \in {"drop", "rename"} => \A j \in 1 .. op - 1 : entry[Canonical(j)] = made[j]
    /\ pc \in {"rename", "cleaning"} => good = {}

\* The temporary names that are free for good, unless a sweep has failed.
Vacated == CASE pc \in {"sweep", "drop", "rename"} -> 1 .. op - 1
             [] pc \in {"raised", "returned"} -> 1 .. upto
             [] OTHER -> {}
Swept == ~unswept => \A j \in Vacated : entry[Wip(j)] = NoId

\* What a reconcile has not found came in late.
Found ==
    pc \in {"cleaning", "cleaned"} =>
        \A s \in Slots : entry[s] # NoId =>
            \/ pc = "cleaning" /\ entry[s] \in found
            \/ s[3] = "wip" /\ entry[s] \in landed

IInv == Shape /\ Types /\ Recorded /\ Bound /\ Undisturbed /\ Promoted /\ DeliveredWhole /\ Swept /\ Found

-----------------------------------------------------------------------------
(* Names and numbers. *)

LEMMA Numbers ==
    /\ Last \in Nat /\ Last >= 3 /\ Ops = 1 .. Last
    /\ \A c \in 1 .. NCharts : 2 * c \in 1 .. Last - 1
    BY ChartAssumption DEF Last, Ops

LEMMA Kinds == \A i \in Ops :
    /\ Scope(i) \in {"dataset", "widget", "dash"}
    /\ Scope(i) = "dash" <=> i = Last
    /\ Scope(i) = "widget" => i - 1 \in Ops
    /\ Scope(i) # "dash" => Chart(i) \in 1 .. NCharts
    BY ChartAssumption DEF Scope, Ops, Last, Chart

\* Two ops share no name, and no temporary name is a canonical one.
LEMMA Names ==
    ASSUME DistinctTitles
    PROVE  \A i, j \in Ops :
            /\ Wip(i) \in Slots /\ Canonical(i) \in Slots /\ Wip(i) # Canonical(j)
            /\ Wip(i) = Wip(j) => i = j
            /\ Canonical(i) = Canonical(j) => i = j
<1> SUFFICES ASSUME NEW i \in Ops, NEW j \in Ops
             PROVE  /\ Wip(i) \in Slots /\ Canonical(i) \in Slots /\ Wip(i) # Canonical(j)
                    /\ Wip(i) = Wip(j) => i = j
                    /\ Canonical(i) = Canonical(j) => i = j
    OBVIOUS
<1>1. Wip(i) \in Slots /\ Canonical(i) \in Slots
    BY DEF Slots
<1>2. Wip(i) # Canonical(j)
    BY DEF Wip, Canonical
<1>3. ASSUME Scope(i) = Scope(j), Name(i) = Name(j)
      PROVE  i = j
    <2>1. CASE Scope(i) = "dash"
        BY <1>3, <2>1, Kinds
    <2>2. CASE Scope(i) = "dataset"
        <3>1. Chart(i) = Chart(j)
            BY <1>3, <2>2 DEF Name
        <3>2. i % 2 = 1 /\ j % 2 = 1
            BY <1>3, <2>2 DEF Scope
        <3> QED  BY <3>1, <3>2, Numbers DEF Chart, Ops
    <2>3. CASE Scope(i) = "widget"
        <3>1. Title[Chart(i)] = Title[Chart(j)]
            BY <1>3, <2>3 DEF Name
        <3>2. Chart(i) = Chart(j)
            BY <1>3, <2>3, <3>1, Kinds DEF DistinctTitles
        <3>3. i % 2 # 1 /\ j % 2 # 1
            BY <1>3, <2>3 DEF Scope
        <3> QED  BY <3>2, <3>3, Numbers DEF Chart, Ops
    <2> QED  BY <2>1, <2>2, <2>3, Kinds
<1>4. Wip(i) = Wip(j) => Scope(i) = Scope(j) /\ Name(i) = Name(j)
    BY DEF Wip
<1>5. Canonical(i) = Canonical(j) => Scope(i) = Scope(j) /\ Name(i) = Name(j)
    BY DEF Canonical
<1> QED  BY <1>1, <1>2, <1>3, <1>4, <1>5

LEMMA SlotKinds == \A s \in Slots : \E i \in Ops : s = Wip(i) \/ s = Canonical(i)
    BY DEF Slots

LEMMA WipNamed == \A i \in Ops : Wip(i)[3] = "wip"
    BY DEF Wip

-----------------------------------------------------------------------------
(* A step that leaves the canonical names alone keeps what is delivered. *)

LEMMA DeliveredKept ==
    ASSUME DeliveredWhole, good' \in {good, {}},
           \A i \in Ops : entry'[Canonical(i)] = entry[Canonical(i)]
    PROVE  DeliveredWhole'
BY DEF DeliveredWhole, Canonical, Name, Scope, Chart, Ops, Last

LEMMA InitInv == Init => IInv
<1> SUFFICES ASSUME Init PROVE IInv
    OBVIOUS
<1>1. Shape
    BY DEF Init, Shape
<1>4. Types
    BY Numbers DEF Init, Types, Steps
<1>2. Recorded /\ Bound /\ Undisturbed /\ Promoted /\ Swept /\ Found
    BY DEF Init, Recorded, Bound, Done, Undisturbed, Promoted, Vacated, Swept, Found
<1>3. DeliveredWhole
    BY DEF Init, DeliveredWhole
<1> QED  BY <1>1, <1>2, <1>3, <1>4 DEF IInv

-----------------------------------------------------------------------------
(* The build. *)

LEMMA BeginInv == ASSUME IInv, Begin PROVE IInv'
<1> USE DEF IInv, Begin, workbook, Resting
<1>0. Shape'
    BY DEF Shape
<1>1. Types'
    BY Numbers DEF Types, Steps
<1>2. Recorded' /\ Bound' /\ Undisturbed' /\ Promoted' /\ Swept' /\ Found'
    BY DEF Recorded, Bound, Done, Undisturbed, Promoted, Vacated, Swept, Found
<1>3. DeliveredWhole'
    BY DeliveredKept
<1> QED  BY <1>0, <1>1, <1>2, <1>3

LEMMA ensure_databaseInv == ASSUME IInv, ensure_database PROVE IInv'
<1> USE DEF IInv
<1>0. /\ pc = "connect" /\ op = 1 /\ upto = 0
      /\ UNCHANGED <<entry, late, landed, op, made, unswept, found, good>>
    BY DEF ensure_database, Recorded
<1>1. \/ pc' = "clear" /\ upto' = 1 /\ UNCHANGED faulted
      \/ pc' = "raised" /\ upto' = 0 /\ faulted'
    <2>1. CASE pc' = "clear" /\ upto' = 1 /\ UNCHANGED faulted
        BY <2>1
    <2>2. CASE pc' = "raised" /\ faulted' = TRUE /\ UNCHANGED upto
        BY <2>2, <1>0
    <2> QED  BY <2>1, <2>2 DEF ensure_database
<1>2. Shape' /\ Types'
    BY <1>0, <1>1, Numbers DEF Shape, Types, Steps
<1>3. Recorded' /\ Bound' /\ Promoted' /\ Found'
    BY <1>0, <1>1 DEF Recorded, Bound, Done, Promoted, Found
<1>4. Undisturbed' /\ Swept'
    BY <1>0, <1>1 DEF Undisturbed, Done, Swept, Vacated
<1>5. DeliveredWhole'
    BY <1>0, DeliveredKept
<1> QED  BY <1>2, <1>3, <1>4, <1>5
LEMMA ClearInv == ASSUME DistinctTitles, IInv, Clear PROVE IInv'
<1> USE DEF IInv
<1>0. /\ pc = "clear" /\ op \in Ops /\ upto = op
      /\ UNCHANGED <<late, landed, made, upto, unswept, found, good>>
    BY DEF Clear, Recorded, Types
<1>1. \/ /\ entry' = [entry EXCEPT ![Wip(op)] = NoId]
         /\ pc' = "create" /\ UNCHANGED <<op, faulted>>
      \/ /\ entry' \in {entry, [entry EXCEPT ![Wip(op)] = NoId]}
         /\ pc' = "sweep" /\ op' = 1 /\ faulted'
    <2>1. CASE /\ entry' \in {entry, [entry EXCEPT ![Wip(op)] = NoId]}
               /\ Fails /\ faulted' = TRUE
        BY <2>1 DEF Fails
    <2> QED  BY <2>1 DEF Clear
<1>2. entry' \in {entry, [entry EXCEPT ![Wip(op)] = NoId]}
    BY <1>1
<1>3. \A i \in Ops : /\ entry'[Canonical(i)] = entry[Canonical(i)]
                     /\ i # op => entry'[Wip(i)] = entry[Wip(i)]
                     /\ pc' = "create" => entry'[Wip(op)] = NoId
    BY <1>0, <1>1, <1>2, Names DEF Shape
<1>4. Shape' /\ Types'
    BY <1>0, <1>1, <1>2, Numbers DEF Shape, Types, Steps
<1>5. Recorded' /\ Bound' /\ Promoted' /\ Found'
    BY <1>0, <1>1, Numbers DEF Recorded, Bound, Done, Promoted, Found
<1>6. Undisturbed'
    BY <1>0, <1>1, <1>3, Numbers DEF Undisturbed, Done
<1>7. Swept'
    BY <1>0, <1>1, <1>3, Numbers DEF Swept, Vacated
<1>8. DeliveredWhole'
    BY <1>0, <1>3, DeliveredKept
<1> QED  BY <1>4, <1>5, <1>6, <1>7, <1>8

\* What an op is made of was made by the ops before it.
LEMMA NewBound ==
    ASSUME IInv, pc = "create", op \in Ops
    PROVE  New.op = op /\ New.uses \subseteq {made[i] : i \in 1 .. op - 1}
<1>1. New.op = op
    BY DEF New
<1>2. CASE Scope(op) = "dataset"
    BY <1>1, <1>2 DEF New
<1>3. CASE Scope(op) = "widget"
    <2>1. op - 1 \in 1 .. op - 1
        BY <1>3, Kinds, Numbers
    <2>2. New.uses = {made[op - 1]}
        BY <1>3 DEF New
    <2> QED  BY <1>1, <2>1, <2>2
<1>4. CASE Scope(op) = "dash"
    <2>1. op = Last
        BY <1>4, Kinds
    <2>2. New.uses = {made[2 * c] : c \in 1 .. NCharts}
        BY <1>4 DEF New
    <2> QED  BY <1>1, <2>1, <2>2, Numbers
<1> QED  BY <1>2, <1>3, <1>4, Kinds

LEMMA CreateInv == ASSUME DistinctTitles, IInv, Create PROVE IInv'
<1> USE DEF IInv
<1>0. /\ pc = "create" /\ op \in Ops /\ upto = op
      /\ entry[Wip(op)] = NoId /\ entry' = [entry EXCEPT ![Wip(op)] = New]
      /\ made' = [made EXCEPT ![op] = New]
      /\ UNCHANGED <<late, landed, faulted, unswept, found, good>>
    BY DEF Create, Recorded, Types
<1>1. \/ pc' = "measure" /\ UNCHANGED <<op, upto>>
      \/ op = Last /\ pc' = "drop" /\ op' = 1 /\ upto' = Last
      \/ op # Last /\ pc' = "clear" /\ op' = op + 1 /\ upto' = op + 1
    BY <1>0 DEF Create, Advance
<1>2. \A i \in Ops : /\ entry'[Canonical(i)] = entry[Canonical(i)]
                     /\ i # op => entry'[Wip(i)] = entry[Wip(i)] /\ made'[i] = made[i]
                     /\ entry'[Wip(op)] = New /\ made'[op] = New
    BY <1>0, Names DEF Shape
<1>3. Shape' /\ Types'
    <2>1. Shape'
        BY <1>0 DEF Shape
    <2>2. Types'
        BY <1>0, <1>1, Numbers DEF Types, Steps
    <2> QED  BY <2>1, <2>2
<1>4. \A j \in Done' : j = op \/ (j \in Done /\ j < op)
    BY <1>0, <1>1, Numbers DEF Done
<1>5. Bound'
    <2> SUFFICES ASSUME NEW j \in Done'
                 PROVE  made'[j].op = j /\ made'[j].uses \subseteq {made'[i] : i \in 1 .. j - 1}
        BY DEF Bound
    <2>1. j \in 1 .. op
        BY <1>0, <1>4, Numbers DEF Done
    <2>2. \A i \in 1 .. j - 1 : made'[i] = made[i]
        BY <1>0, <1>2, <2>1, Numbers
    <2>3. made'[j].op = j /\ made'[j].uses \subseteq {made[i] : i \in 1 .. j - 1}
        <3>1. CASE j = op
            BY <1>0, <1>2, <3>1, NewBound
        <3>2. CASE j # op
            BY <1>0, <1>2, <1>4, <2>1, <3>2, Numbers DEF Bound
        <3> QED  BY <3>1, <3>2
    <2> QED  BY <2>2, <2>3
<1>6. Undisturbed'
    BY <1>0, <1>1, <1>2, <1>4, Numbers DEF Undisturbed, Done
<1>7. Recorded' /\ Promoted' /\ Found'
    BY <1>0, <1>1, Numbers DEF Recorded, Promoted, Found
<1>8. Swept'
    BY <1>0, <1>1, Numbers DEF Swept, Vacated
<1>9. DeliveredWhole'
    BY <1>0, <1>2, DeliveredKept
<1> QED  BY <1>3, <1>5, <1>6, <1>7, <1>8, <1>9
\* The answer of the workbook is whatever it is: a failure only sweeps.
LEMMA FailureInv ==
    ASSUME DistinctTitles, IInv, pc \in {"clear", "create", "drop", "rename"},
           pc' = "sweep", op' = 1,
           entry' = [s \in Slots |-> entry'[s]],
           \A l \in late' : \E i \in Ops : l.slot = Wip(i),
           faulted',
           UNCHANGED <<landed, made, upto, unswept, found>>,
           DeliveredWhole'
    PROVE  IInv'
<1> USE DEF IInv
<1>1. Shape' /\ Types'
    BY Numbers DEF Shape, Types, Steps
<1>2. upto \in 1 .. Last
    BY Numbers DEF Recorded, Types
<1>3. Recorded' /\ Bound' /\ Promoted' /\ Found' /\ Undisturbed' /\ Swept'
    BY <1>2, Numbers DEF Recorded, Bound, Done, Promoted, Found, Undisturbed, Swept, Vacated
<1> QED  BY <1>1, <1>3
LEMMA CreateFailsInv == ASSUME DistinctTitles, IInv, CreateFails PROVE IInv'
<1> USE DEF IInv
<1>0. /\ pc = "create" /\ op \in Ops /\ pc' = "sweep" /\ op' = 1
      /\ UNCHANGED <<landed, made, upto, unswept, found, good>>
    BY DEF CreateFails, Fails, Types
<1>1. entry' \in {entry, [entry EXCEPT ![Wip(op)] = New]}
    BY DEF CreateFails
<1>2. late' \in {late, late \cup {[slot |-> Wip(op), id |-> New]}}
    BY DEF CreateFails
<1>3. faulted'
    <2>1. CASE faulted' = (faulted \/ entry[Wip(op)] = NoId)
        BY <1>0, <2>1 DEF Undisturbed
    <2>2. CASE faulted' = TRUE
        BY <2>2
    <2> QED  BY <2>1, <2>2 DEF CreateFails
<1>4. entry' = [s \in Slots |-> entry'[s]]
    BY <1>1 DEF Shape
<1>5. \A l \in late' : \E i \in Ops : l.slot = Wip(i)
    BY <1>0, <1>2 DEF Shape
<1>6. \A i \in Ops : entry'[Canonical(i)] = entry[Canonical(i)]
    BY <1>0, <1>1, Names DEF Shape
<1>7. DeliveredWhole'
    BY <1>0, <1>6, DeliveredKept
<1> QED  BY <1>0, <1>3, <1>4, <1>5, <1>7, FailureInv

LEMMA MeasureInv == ASSUME IInv, Measure PROVE IInv'
<1> USE DEF IInv
<1>0. /\ pc = "measure" /\ op \in Ops /\ upto = op
      /\ UNCHANGED <<entry, late, landed, made, faulted, unswept, found, good>>
    BY DEF Measure, workbook, Recorded, Types
<1>1. \/ pc' = "clear" /\ op' = op /\ upto' = op
      \/ op = Last /\ pc' = "drop" /\ op' = 1 /\ upto' = Last
      \/ op # Last /\ pc' = "clear" /\ op' = op + 1 /\ upto' = op + 1
    <2>1. CASE Advance
        BY <1>0, <2>1 DEF Advance
    <2>2. CASE pc' = "clear" /\ scaled' = TRUE /\ UNCHANGED <<op, upto>>
        BY <1>0, <2>2
    <2> QED  BY <2>1, <2>2 DEF Measure
<1>2. Shape' /\ Types'
    <2>1. Shape'
        BY <1>0 DEF Shape
    <2>2. Types'
        BY <1>0, <1>1, Numbers DEF Types, Steps
    <2> QED  BY <2>1, <2>2
<1>3. Done' \subseteq Done
    BY <1>0, <1>1, Numbers DEF Done
<1>4. Bound' /\ Undisturbed'
    BY <1>0, <1>1, <1>3, Numbers DEF Bound, Undisturbed, Done
<1>5. Recorded' /\ Promoted' /\ Found' /\ Swept'
    BY <1>0, <1>1, Numbers DEF Recorded, Promoted, Found, Swept, Vacated
<1>6. DeliveredWhole'
    BY <1>0, DeliveredKept
<1> QED  BY <1>2, <1>4, <1>5, <1>6

-----------------------------------------------------------------------------
(* The promotion and the sweep. *)

LEMMA DropInv == ASSUME DistinctTitles, IInv, Drop PROVE IInv'
<1> USE DEF IInv
<1>0. /\ pc = "drop" /\ op \in Ops /\ upto = Last /\ good' = {}
      /\ UNCHANGED <<late, landed, made, upto, unswept, found>>
    BY DEF Drop, Recorded, Types
<1>1. \/ /\ entry' = [entry EXCEPT ![Canonical(op)] = NoId]
         /\ pc' = "rename" /\ UNCHANGED <<op, faulted>>
      \/ /\ entry' \in {entry, [entry EXCEPT ![Canonical(op)] = NoId]}
         /\ pc' = "sweep" /\ op' = 1 /\ faulted'
    <2>1. CASE /\ entry' \in {entry, [entry EXCEPT ![Canonical(op)] = NoId]}
               /\ Fails /\ faulted' = TRUE
        BY <2>1 DEF Fails
    <2> QED  BY <2>1 DEF Drop
<1>2. DeliveredWhole'
    BY <1>0 DEF DeliveredWhole
<1>3. entry' = [s \in Slots |-> entry'[s]]
    BY <1>1 DEF Shape
<1>4. CASE pc' = "sweep"
    <2>1. op' = 1 /\ faulted'
        BY <1>1, <1>4
    <2>2. \A l \in late' : \E i \in Ops : l.slot = Wip(i)
        BY <1>0 DEF Shape
    <2> QED  BY <1>0, <1>2, <1>3, <1>4, <2>1, <2>2, FailureInv
<1>5. CASE pc' = "rename"
    <2>1. entry' = [entry EXCEPT ![Canonical(op)] = NoId] /\ UNCHANGED <<op, faulted>>
        BY <1>1, <1>5
    <2>2. \A i \in Ops : /\ entry'[Wip(i)] = entry[Wip(i)]
                         /\ i # op => entry'[Canonical(i)] = entry[Canonical(i)]
                         /\ entry'[Canonical(op)] = NoId
        BY <1>0, <2>1, Names DEF Shape
    <2>3. Shape' /\ Types' /\ Recorded' /\ Found'
        BY <1>0, <1>3, <1>5, <2>1, Numbers DEF Shape, Types, Steps, Recorded, Found
    <2>4. Bound' /\ Undisturbed' /\ Promoted' /\ Swept'
        BY <1>0, <1>5, <2>1, <2>2, Numbers DEF Bound, Undisturbed, Done, Promoted, Swept, Vacated
    <2> QED  BY <1>2, <2>3, <2>4
<1> QED  BY <1>1, <1>4, <1>5
LEMMA RenameInv == ASSUME DistinctTitles, IInv, Rename PROVE IInv'
<1> USE DEF IInv
<1>0. /\ pc = "rename" /\ op \in Ops /\ upto = Last /\ good = {}
      /\ UNCHANGED <<late, landed, made, upto, faulted, unswept, found>>
    BY DEF Rename, Recorded, Types, Promoted
<1>1. \/ op = Last /\ pc' = "returned" /\ op' = op /\ good' = {made[i] : i \in Ops}
      \/ op # Last /\ pc' = "drop" /\ op' = op + 1 /\ good' = {}
    BY <1>0 DEF Rename
<1>2. \A i \in Ops : /\ i # op => entry'[Canonical(i)] = entry[Canonical(i)]
                     /\ i # op => entry'[Wip(i)] = entry[Wip(i)]
                     /\ entry'[Canonical(op)] = made[op] /\ entry'[Wip(op)] = NoId
    BY <1>0, Names DEF Shape, Rename, Renamed
<1>3. Shape' /\ Types'
    <2>1. Shape'
        BY <1>0 DEF Shape, Rename, Renamed
    <2>2. Types'
        BY <1>0, <1>1, Numbers DEF Types, Steps
    <2> QED  BY <2>1, <2>2
<1>4. \A i \in 1 .. op : entry'[Canonical(i)] = made[i]
    BY <1>0, <1>2, Numbers DEF Promoted
<1>5. ~unswept => \A i \in 1 .. op : entry'[Wip(i)] = NoId
    BY <1>0, <1>2, Numbers DEF Swept, Vacated
<1>6. Recorded' /\ Promoted' /\ Found' /\ Swept'
    BY <1>0, <1>1, <1>4, <1>5, Numbers DEF Recorded, Promoted, Found, Swept, Vacated
<1>7. Bound' /\ Undisturbed'
    BY <1>0, <1>1, <1>2, Numbers DEF Bound, Undisturbed, Done
<1>8. DeliveredWhole'
    <2>1. CASE good' = {}
        BY <2>1 DEF DeliveredWhole
    <2>2. CASE op = Last /\ good' = {made[i] : i \in Ops}
        <3> SUFFICES ASSUME NEW i \in Ops
                     PROVE  /\ entry'[Canonical(i)] \in good'
                            /\ entry'[Canonical(i)].uses \subseteq good'
                            /\ entry'[Canonical(i)].op = i
            BY DEF DeliveredWhole, Canonical, Name, Scope, Chart, Ops, Last
        <3>1. entry'[Canonical(i)] = made[i]
            BY <1>4, <2>2, Numbers
        <3>2. made[i].op = i /\ made[i].uses \subseteq {made[k] : k \in 1 .. i - 1}
            BY <1>0 DEF Bound, Done
        <3>3. 1 .. i - 1 \subseteq Ops
            BY Numbers
        <3> QED  BY <2>2, <3>1, <3>2, <3>3
    <2> QED  BY <1>1, <2>1, <2>2
<1> QED  BY <1>3, <1>6, <1>7, <1>8

LEMMA RenameFailsInv == ASSUME DistinctTitles, IInv, RenameFails PROVE IInv'
<1> USE DEF IInv
<1>0. /\ pc = "rename" /\ op \in Ops /\ pc' = "sweep" /\ op' = 1 /\ good' = {}
      /\ UNCHANGED <<late, landed, made, upto, unswept, found>>
    BY DEF RenameFails, Fails, Types, Promoted
<1>1. faulted' /\ entry' \in {entry, Renamed}
    <2>1. CASE ~CanRename /\ UNCHANGED <<entry, faulted>>
        BY <1>0, <2>1, Numbers DEF CanRename, Undisturbed
    <2>2. CASE faulted' = TRUE /\ entry' \in {entry} \cup (IF CanRename THEN {Renamed} ELSE {})
        BY <2>2
    <2> QED  BY <2>1, <2>2 DEF RenameFails
<1>2. entry' = [s \in Slots |-> entry'[s]]
    BY <1>1 DEF Shape, Renamed
<1>3. DeliveredWhole'
    BY <1>0 DEF DeliveredWhole
<1>4. \A l \in late' : \E i \in Ops : l.slot = Wip(i)
    BY <1>0 DEF Shape
<1> QED  BY <1>0, <1>1, <1>2, <1>3, <1>4, FailureInv

LEMMA SweepInv == ASSUME DistinctTitles, IInv, Sweep PROVE IInv'
<1> USE DEF IInv
<1>0. /\ pc = "sweep" /\ op \in Ops /\ op <= upto /\ upto \in 0 .. Last
      /\ UNCHANGED <<late, landed, made, upto, faulted, found, good>>
    BY DEF Sweep, Recorded, Types
<1>1. \/ op = upto /\ pc' = "raised" /\ op' = op
      \/ op # upto /\ pc' = "sweep" /\ op' = op + 1
    BY <1>0 DEF Sweep
<1>2. \/ entry' = [entry EXCEPT ![Wip(op)] = NoId] /\ (unswept => unswept')
      \/ UNCHANGED entry /\ unswept'
    <2>1. CASE entry' = [entry EXCEPT ![Wip(op)] = NoId] /\ unswept' \in {unswept, TRUE}
        BY <2>1
    <2>2. CASE UNCHANGED entry /\ unswept' = TRUE
        BY <2>2
    <2> QED  BY <2>1, <2>2 DEF Sweep
<1>3. /\ \A i \in Ops : entry'[Canonical(i)] = entry[Canonical(i)]
      /\ ~unswept' => ~unswept /\ entry'[Wip(op)] = NoId
      /\ \A i \in Ops : i # op => entry'[Wip(i)] = entry[Wip(i)]
    BY <1>0, <1>2, Names DEF Shape
<1>4. Shape' /\ Types'
    <2>1. Shape'
        BY <1>0, <1>2 DEF Shape
    <2>2. Types'
        BY <1>0, <1>1, Numbers DEF Types, Steps
    <2> QED  BY <2>1, <2>2
<1>5. Recorded' /\ Bound' /\ Promoted' /\ Found' /\ Undisturbed'
    BY <1>0, <1>1, Numbers DEF Recorded, Bound, Done, Promoted, Found, Undisturbed
<1>6. ~unswept' => \A i \in 1 .. op : entry'[Wip(i)] = NoId
    BY <1>0, <1>3, Numbers DEF Swept, Vacated
<1>7. Swept'
    BY <1>0, <1>1, <1>6, Numbers DEF Swept, Vacated
<1>8. DeliveredWhole'
    BY <1>0, <1>3, DeliveredKept
<1> QED  BY <1>4, <1>5, <1>7, <1>8
-----------------------------------------------------------------------------
(* Crash, reconcile and the creates that come in late. *)

LEMMA CrashInv == ASSUME IInv, Crash PROVE IInv'
<1> USE DEF IInv, Crash, workbook
<1>1. Shape'
    BY DEF Shape
<1>2. Types'
    BY Numbers DEF Types, Steps
<1>3. Recorded' /\ Bound' /\ Undisturbed' /\ Promoted' /\ Swept' /\ Found'
    BY DEF Recorded, Bound, Done, Undisturbed, Promoted, Vacated, Swept, Found
<1>4. DeliveredWhole'
    BY DeliveredKept
<1> QED  BY <1>1, <1>2, <1>3, <1>4

LEMMA ReconcileInv == ASSUME IInv, Reconcile PROVE IInv'
<1> USE DEF IInv
<1>0. /\ pc' \in {"cleaned", "cleaning", "uncleaned"} /\ good' = {}
      /\ UNCHANGED <<entry, late, landed, op, made, upto, faulted, unswept>>
    BY DEF Reconcile, workbook
<1>1. pc' # "uncleaned" =>
          found' = {entry[s] : s \in Slots} \ {NoId} /\ (pc' = "cleaned" => found' = {})
    BY DEF Reconcile, Expected, Slots, _find_entry_id
<1>2. Shape' /\ Types'
    BY <1>0, Numbers DEF Shape, Types, Steps
<1>3. Recorded' /\ Bound' /\ Undisturbed' /\ Promoted' /\ Swept'
    BY <1>0 DEF Recorded, Bound, Done, Undisturbed, Promoted, Vacated, Swept
<1>4. Found'
    BY <1>0, <1>1 DEF Found
<1>5. DeliveredWhole'
    BY <1>0 DEF DeliveredWhole
<1> QED  BY <1>2, <1>3, <1>4, <1>5

LEMMA DeleteFoundInv == ASSUME IInv, DeleteFound PROVE IInv'
<1> USE DEF IInv
<1>0. /\ pc = "cleaning" /\ pc' \in {"cleaned", "cleaning", "uncleaned"} /\ good' = {}
      /\ UNCHANGED <<late, landed, op, made, upto, faulted, unswept>>
    BY DEF DeleteFound, Promoted
<1>1. PICK id \in found :
          \/ /\ entry' = delete_artifact(id) /\ found' = found \ {id}
             /\ pc' = IF found' = {} THEN "cleaned" ELSE "cleaning"
          \/ entry' \in {entry, delete_artifact(id)} /\ pc' = "uncleaned"
    BY DEF DeleteFound
<1>2. Shape' /\ Types'
    BY <1>0, <1>1, Numbers DEF Shape, Types, Steps, delete_artifact
<1>3. Recorded' /\ Bound' /\ Undisturbed' /\ Promoted' /\ Swept'
    BY <1>0 DEF Recorded, Bound, Done, Undisturbed, Promoted, Vacated, Swept
<1>4. Found'
    <2> SUFFICES ASSUME pc' # "uncleaned", NEW s \in Slots, entry'[s] # NoId
                 PROVE  \/ pc' = "cleaning" /\ entry'[s] \in found'
                        \/ s[3] = "wip" /\ entry'[s] \in landed'
        BY <1>0 DEF Found
    <2>1. entry'[s] = entry[s] /\ entry[s] # id
        BY <1>1 DEF delete_artifact
    <2>2. \/ entry[s] \in found
          \/ s[3] = "wip" /\ entry[s] \in landed
        BY <1>0, <2>1 DEF Found
    <2> QED  BY <1>0, <1>1, <2>1, <2>2
<1>5. DeliveredWhole'
    BY <1>0 DEF DeliveredWhole
<1> QED  BY <1>2, <1>3, <1>4, <1>5

LEMMA LandInv ==
    ASSUME DistinctTitles, IInv, NEW l \in late, Land(l)
    PROVE  IInv'
<1> USE DEF IInv
<1>0. /\ faulted' /\ unswept' /\ late' \subseteq late
      /\ UNCHANGED <<pc, op, made, upto, found, good>>
    BY DEF Land
<1>1. PICK i \in Ops : l.slot = Wip(i)
    BY DEF Shape
<1>2. \/ entry' = [entry EXCEPT ![Wip(i)] = l.id] /\ landed' = landed \cup {l.id}
      \/ UNCHANGED <<entry, landed>>
    BY <1>1 DEF Land
<1>3. \A j \in Ops : entry'[Canonical(j)] = entry[Canonical(j)]
    BY <1>2, Names DEF Shape
<1>4. Shape' /\ Types'
    BY <1>0, <1>2 DEF Shape, Types
<1>5. Recorded' /\ Bound' /\ Undisturbed' /\ Swept'
    BY <1>0 DEF Recorded, Bound, Done, Undisturbed, Swept
<1>6. Promoted'
    BY <1>0, <1>3, Numbers DEF Promoted, Types
<1>7. Found'
    BY <1>0, <1>2, WipNamed DEF Found, Shape
<1>8. DeliveredWhole'
    BY <1>0, <1>3, DeliveredKept
<1> QED  BY <1>4, <1>5, <1>6, <1>7, <1>8

LEMMA StutterInv == ASSUME IInv, UNCHANGED vars PROVE IInv'
<1>1. UNCHANGED <<entry, late, landed, pc, op, made, upto, faulted, unswept, found, good>>
    BY DEF vars, workbook, builder
<1>2. Shape' /\ Types' /\ Recorded'
    BY <1>1 DEF IInv, Shape, Types, Recorded
<1>5. Bound' /\ Promoted' /\ Found'
    BY <1>1 DEF IInv, Bound, Done, Promoted, Found
<1>3. Undisturbed' /\ Swept'
    BY <1>1 DEF IInv, Undisturbed, Done, Swept, Vacated
<1>4. DeliveredWhole'
    BY <1>1, DeliveredKept DEF IInv
<1> QED  BY <1>2, <1>3, <1>4, <1>5 DEF IInv

-----------------------------------------------------------------------------
\* The inductive invariant, for boards whose charts have distinct titles.
THEOREM Invariant == DistinctTitles => (Spec => []IInv)
<1> SUFFICES ASSUME DistinctTitles PROVE Spec => []IInv
    OBVIOUS
<1>1. IInv /\ [Next]_vars => IInv'
    <2> SUFFICES ASSUME IInv, [Next]_vars PROVE IInv'
        OBVIOUS
    <2>1. CASE Begin
        BY <2>1, BeginInv
    <2>2. CASE ensure_database
        BY <2>2, ensure_databaseInv
    <2>3. CASE Clear
        BY <2>3, ClearInv
    <2>4. CASE ensure_dataset \/ create_chart \/ assemble_dashboard
        BY <2>4, CreateInv DEF ensure_dataset, create_chart, assemble_dashboard
    <2>5. CASE CreateFails
        BY <2>5, CreateFailsInv
    <2>6. CASE Measure
        BY <2>6, MeasureInv
    <2>7. CASE Drop
        BY <2>7, DropInv
    <2>8. CASE Rename \/ RenameFails
        BY <2>8, RenameInv, RenameFailsInv
    <2>9. CASE Sweep
        BY <2>9, SweepInv
    <2>10. CASE Crash
        BY <2>10, CrashInv
    <2>11. CASE Reconcile \/ DeleteFound
        BY <2>11, ReconcileInv, DeleteFoundInv
    <2>12. ASSUME NEW l \in late, Land(l) PROVE IInv'
        BY <2>12, LandInv
    <2>13. CASE UNCHANGED vars
        BY <2>13, StutterInv
    <2> QED  BY <2>1, <2>2, <2>3, <2>4, <2>5, <2>6, <2>7, <2>8, <2>9, <2>10, <2>11,
                <2>12, <2>13 DEF Next
<1> QED  BY <1>1, InitInv, PTL DEF Spec

\* What a build delivered stays whole under its canonical names until another
\* build of these names starts promoting.
THEOREM StaysWhole == DistinctTitles => (Spec => []DeliveredWhole)
<1>1. IInv => DeliveredWhole
    BY DEF IInv
<1> QED  BY <1>1, Invariant, PTL

\* Neither a build nor a reconcile leaves a temporary entry behind.
THEOREM NothingTemporary == DistinctTitles => (Spec => []NoWipLeft)
<1>1. IInv => NoWipLeft
    <2> SUFFICES ASSUME IInv PROVE NoWipLeft
        OBVIOUS
    <2>1. pc \in {"raised", "returned"} /\ ~unswept => \A i \in 1 .. upto : entry[Wip(i)] = NoId
        BY DEF IInv, Swept, Vacated
    <2>2. pc = "cleaned" => \A s \in Slots : entry[s] # NoId => s[3] = "wip" /\ entry[s] \in landed
        BY DEF IInv, Found
    <2> QED  BY <2>1, <2>2 DEF NoWipLeft
<1> QED  BY <1>1, Invariant, PTL

\* Whatever an earlier build or crash has left, a build succeeds unless one of
\* its own calls fails.
THEOREM BuildsOverAnything == DistinctTitles => (Spec => []SelfHeals)
<1>1. IInv => SelfHeals
    BY DEF IInv, Undisturbed, SelfHeals
<1> QED  BY <1>1, Invariant, PTL
===============================================================================
