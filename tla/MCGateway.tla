------------------------------ MODULE MCGateway ------------------------------
(* Two connections behind one address for Gateway.                           *)
EXTENDS Gateway

CONSTANT ip1

OneAddress == [c \in Conns |-> ip1]
===============================================================================
