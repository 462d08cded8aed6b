--------------------------- MODULE BuildRefinement ---------------------------
(***************************************************************************)
(* The build pipeline implements ArtifactOwnership: a revision is claimed  *)
(* while its attempt is BUILDING or CLEANUP_REQUIRED, held once the        *)
(* delivery is recorded, free otherwise.                                   *)
(***************************************************************************)
EXTENDS BuildPipeline

ClaimFor(status) ==
    IF status \in {"building", "cleanup_required"} THEN "claimed"
    ELSE IF status \in Delivered THEN "held" ELSE "free"
ClaimOf(t) == ClaimFor(attempt[t])

ObjectsOf(t) == {k \in PrivateKinds : remote[t][k] > 0}

Ownership == INSTANCE ArtifactOwnership WITH
    Objects <- PrivateKinds,
    claim <- [t \in Token |-> ClaimOf(t)],
    objs <- [t \in Token |-> ObjectsOf(t)]

\* Every step of the pipeline, of a crash and of the startup is a step the
\* ownership protocol allows, or leaves ownership as it is.
ImplementsOwnership == Ownership!Spec
=============================================================================
