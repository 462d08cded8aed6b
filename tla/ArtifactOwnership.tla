-------------------------- MODULE ArtifactOwnership --------------------------
(***************************************************************************)
(* What the build protocol promises about the BI objects of a session,     *)
(* with no Store, thread or restart in sight: a revision's objects are     *)
(* written and erased only while the revision is claimed, one claim per    *)
(* session at a time; a claim ends with every object in place or with      *)
(* none; and a complete revision loses objects only while a newer revision *)
(* of its session is complete.                                             *)
(***************************************************************************)
EXTENDS Naturals

CONSTANTS Sessions, MaxRev, Objects

Revisions == Sessions \X (1..MaxRev)

VARIABLES
    claim,   \* free, claimed, held
    objs     \* the objects of a revision that exist

Claim(t) ==
    /\ claim[t] = "free"
    /\ objs[t] = {}
    /\ \A u \in Revisions : u[1] = t[1] => claim[u] # "claimed"
    /\ claim' = [claim EXCEPT ![t] = "claimed"]
    /\ UNCHANGED objs

Write(t, o) ==
    /\ claim[t] = "claimed"
    /\ objs' = [objs EXCEPT ![t] = @ \cup {o}]
    /\ UNCHANGED claim

Erase(t, o) ==
    /\ claim[t] = "claimed"
    /\ objs' = [objs EXCEPT ![t] = @ \ {o}]
    /\ UNCHANGED claim

Release(t) ==
    /\ claim[t] = "claimed"
    /\ objs[t] = {}
    /\ claim' = [claim EXCEPT ![t] = "free"]
    /\ UNCHANGED objs

Hold(t) ==
    /\ claim[t] = "claimed"
    /\ objs[t] = Objects
    /\ claim' = [claim EXCEPT ![t] = "held"]
    /\ UNCHANGED objs

Retire(t, o) ==
    /\ claim[t] = "held"
    /\ \E u \in Revisions : u[1] = t[1] /\ u[2] > t[2] /\ objs[u] = Objects
    /\ objs' = [objs EXCEPT ![t] = @ \ {o}]
    /\ UNCHANGED claim

Init ==
    /\ claim = [t \in Revisions |-> "free"]
    /\ objs = [t \in Revisions |-> {}]

Next ==
    \E t \in Revisions :
        \/ Claim(t) \/ Release(t) \/ Hold(t)
        \/ \E o \in Objects : Write(t, o) \/ Erase(t, o) \/ Retire(t, o)

Spec == Init /\ [][Next]_<<claim, objs>>
=============================================================================
