----------------------------- MODULE MCActivator -----------------------------
(* Instances of Activator for TLC. *)
EXTENDS Activator
=============================================================================
