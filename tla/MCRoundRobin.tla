---------------------------- MODULE MCRoundRobin ----------------------------
(***************************************************************************)
(* A small instance of RoundRobin whose number of backends does not divide *)
(* the counter's modulus, so that the counter wraps in mid rotation as 2^32*)
(* does with three backends.                                               *)
(***************************************************************************)
EXTENDS RoundRobin

CONSTANTS b1, b2, u1, u2

MCUrlOf == [b \in Backend |-> IF b = b1 THEN u1 ELSE u2]

OneBaseline == <<b1>>

=============================================================================
