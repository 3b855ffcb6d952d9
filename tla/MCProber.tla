------------------------------ MODULE MCProber -------------------------------
(***************************************************************************)
(* A small instance of Prober: a baseline backend that may leave, and one  *)
(* that may join and leave.                                                *)
(***************************************************************************)
EXTENDS Prober

CONSTANTS b1, b2, u1, u2

MCUrlOf == [b \in Backend |-> IF b = b1 THEN u1 ELSE u2]

OneBaseline == <<b1>>

=============================================================================
