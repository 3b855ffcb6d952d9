----------------------------- MODULE MCLifecycle -----------------------------
(***************************************************************************)
(* A small instance of Lifecycle: the management API's server and the      *)
(* balancer's, and one backend.                                            *)
(***************************************************************************)
EXTENDS Lifecycle

CONSTANTS b1, u1, registry, balancer

MCUrlOf == [b \in Backend |-> u1]

OneBaseline == <<b1>>

MCStartOrder == <<registry, balancer>>

=============================================================================
