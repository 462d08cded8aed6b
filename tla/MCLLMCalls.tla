------------------------------ MODULE MCLLMCalls ------------------------------
(* Two sessions of one owner. *)
EXTENDS LLMCalls
CONSTANTS s1, s2, o1, b1, b2, i1
Owner == [s \in Sessions |-> o1]
=============================================================================
