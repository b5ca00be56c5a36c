-------------------------------- MODULE MCPatches --------------------------------
(* An instance of Patches for TLC.                                                 *)
EXTENDS Patches
=====================================================================================
