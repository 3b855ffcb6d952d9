------------------------------- MODULE MCProxy -------------------------------
(***************************************************************************)
(* Small instances of Proxy: a GET and a POST that compete for two         *)
(* backends, which may join and leave.                                     *)
(***************************************************************************)
EXTENDS Proxy

CONSTANTS b1, b2, u1, u2, get, post

MCUrlOf == [b \in Backend |-> IF b = b1 THEN u1 ELSE u2]

OneBaseline == <<b1>>

TwoBaseline == <<b1, b2>>

MCWeight == [b \in Backend |-> IF b = b1 THEN 2 ELSE 1]

MCKeyHash == [r \in Request |-> IF r = get THEN 1 ELSE 2]

=============================================================================
