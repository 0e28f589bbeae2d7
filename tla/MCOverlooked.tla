----------------------------- MODULE MCOverlooked -----------------------------
(***************************************************************************)
(* Overlooked on the trees of MCWorkPool, for TLC.                         *)
(***************************************************************************)
EXTENDS Overlooked, MCWorkPool
===============================================================================
