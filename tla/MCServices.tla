---------------------------- MODULE MCServices ------------------------------
(***************************************************************************)
(* Services for TLC: all five services of the house, as index.js lists     *)
(* them. The bounds are given in the configurations.                       *)
(***************************************************************************)
EXTENDS Services
=============================================================================
