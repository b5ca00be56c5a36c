------------------------- MODULE MCCancellationScope -------------------------
(* An instance of CancellationScope for TLC: the root and three more scopes,   *)
(* which make every tree of depth four and every pair of siblings.             *)
EXTENDS CancellationScope
=============================================================================
