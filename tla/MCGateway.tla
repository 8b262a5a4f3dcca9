------------------------------ MODULE MCGateway ------------------------------
(* Client addresses and servers as model values. *)
EXTENDS Gateway

CONSTANTS a1, s1, s2
=============================================================================
