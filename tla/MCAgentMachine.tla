---------------------------- MODULE MCAgentMachine ----------------------------
(* Instances of the dialogue for TLC. *)
EXTENDS AgentMachine

CONSTANTS a, b, x, k1, k2

\* One content breaks a rule, another breaks it and one more.  The review of the
\* third raises.
Findings == [c \in {a, b, x} |-> IF c = a THEN {k1}
                                 ELSE IF c = b THEN {k1, k2} ELSE {}]
=============================================================================
