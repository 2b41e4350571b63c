--------------------------- MODULE MCTypeRegistry ---------------------------
(***************************************************************************)
(* Instances of TypeRegistry for TLC.                                      *)
(***************************************************************************)
EXTENDS TypeRegistry, TLC

CONSTANTS p1, p2

MCPairs == {p1, p2}

=============================================================================
