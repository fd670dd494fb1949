----------------------------- MODULE MCSourcing -----------------------------
(* The instances of Sourcing that TLC checks. *)
EXTENDS Sourcing
=============================================================================
