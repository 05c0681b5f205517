-------------------------- MODULE MCAgentWorkflow --------------------------
(***************************************************************************)
(* Model-checking instances of AgentWorkflow.                              *)
(***************************************************************************)
EXTENDS AgentWorkflow, TLC

Symmetry == Permutations(WaIds) \cup Permutations(ThreadIds)

\* Two questions, traces in which the nets of both behave alike or differ.
MCActivities == {<<"equal", "more">>, <<"longer", "equal">>, <<"fewer", "fewer">>}
MCActivities1 == {<<c>> : c \in {"more", "longer", "equal", "fewer"}}
=============================================================================
