--------------------------- MODULE MCRegistryReads ---------------------------
(***************************************************************************)
(* A small instance of RegistryReads: two baseline backends, one more that *)
(* may join, one writer, one reader.                                       *)
(***************************************************************************)
EXTENDS RegistryReads

CONSTANTS b1, b2, b3, u1, u2, u3

MCUrlOf == [b \in Backend |-> CASE b = b1 -> u1 [] b = b2 -> u2 [] OTHER -> u3]

MCBaseline == <<b1, b2>>

=============================================================================
