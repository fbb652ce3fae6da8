--------------------------- MODULE MCHealthAgents ---------------------------
(* HealthAgents with one node whose links may fail, alone or all together.   *)
EXTENDS HealthAgents

CONSTANT faulty

\* No fault, every link of the faulty node, or one of them.
NodeFaults == {{}, LinksOf(faulty)} \cup {{l} : l \in LinksOf(faulty)}
=============================================================================
