------------------------------ MODULE MCSignIn ------------------------------
(***************************************************************************)
(* A small instance of SignIn for TLC.  Sessions and fetch slots are       *)
(* interchangeable, which only the run without temporal properties uses.   *)
(***************************************************************************)
EXTENDS SignIn, TLC

Symmetry == Permutations(Sessions) \cup Permutations(Calls)
=============================================================================
