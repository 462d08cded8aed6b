--------------------------- MODULE MCSessionService ---------------------------
(* Instances of the session service for TLC. *)
EXTENDS SessionService, TLC

CONSTANTS s1, s2, t1, t2, t3

Racing      == {"approve", "delete"}
NoDelete    == {"approve", "reply", "events"}
OnlyApprove == {"approve"}

AnyOutcome == Outcomes
Plain      == {"built", "failed"}
Failing    == {"failed"}

Workers == Permutations(Threads)
Names == Workers \cup Permutations(Sessions)
=============================================================================
