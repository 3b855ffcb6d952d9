----------------------------- MODULE MCRegistry -----------------------------
(***************************************************************************)
(* A small instance of Registry: one baseline backend, and two objects that*)
(* compete for another URL, so that they can race each other and one can   *)
(* register it again after the other left.                                 *)
(***************************************************************************)
EXTENDS Registry

CONSTANTS b1, b2, b3, u1, u2

MCUrlOf == [b \in Backend |-> IF b = b1 THEN u1 ELSE u2]

MCBaseline == <<b1>>

=============================================================================
