-------------------------- MODULE MCClientRegistry --------------------------
(***************************************************************************)
(* Small instances of ClientRegistry.                                      *)
(***************************************************************************)
EXTENDS ClientRegistry

CONSTANTS n1, n2, p1, p2

=============================================================================
