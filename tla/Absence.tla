------------------------------ MODULE Absence ------------------------------
(* Python's None, for the modules that are checked together.               *)
CONSTANT None
=============================================================================
