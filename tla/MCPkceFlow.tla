----------------------------- MODULE MCPkceFlow -----------------------------
(***************************************************************************)
(* TLC's values: three callbacks, so that two of a kind meet one of the    *)
(* other.                                                                  *)
(***************************************************************************)
EXTENDS PkceFlow

CONSTANTS b1, b2, b3, k1

MCCallbacks == {b1, b2, b3}
MCCodes == {k1}
=============================================================================
