------------------------- MODULE MCLeastConnections -------------------------
(***************************************************************************)
(* A small instance of LeastConnections: three backends of unequal weight  *)
(* and as many concurrent attempts.                                        *)
(***************************************************************************)
EXTENDS LeastConnections

CONSTANTS b1, b2, b3, c1, c2, c3

MCUrlOf == [b \in Backend |-> b]

MCBaseline == <<b1, b2, b3>>

MCWeight == [b \in Backend |-> CASE b = b1 -> 3 [] b = b2 -> 1 [] OTHER -> 2]

\* The callers that are not watched are interchangeable.
Others == Permutations(Caller \ {c1})

=============================================================================
