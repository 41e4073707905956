------------------------------ MODULE MCAdoption ------------------------------
(* A small application directory for TLC. *)
EXTENDS Adoption, TLC

CONSTANTS t1
=============================================================================
