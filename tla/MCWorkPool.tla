------------------------------ MODULE MCWorkPool ------------------------------
(***************************************************************************)
(* Instances of WorkPool for TLC: a directory tree given by the order in   *)
(* which read_dir returns the subdirectories.                              *)
(***************************************************************************)
EXTENDS WorkPool, TLC

CONSTANTS r, a, b, c, d

Entries ==
  (r :> <<a, b>> @@ a :> <<c>> @@ b :> <<d>>
     @@ c :> <<>> @@ d :> <<>>)

MCDirs == {r, a, b, c, d}
MCParent == a :> r @@ b :> r @@ c :> a @@ d :> b

(* Every entry is read.                                                    *)
Complete == [x \in MCDirs |-> {Entries[x]}]

(* Any entry may fail to be read (walker.rs:80-87) or be skipped.          *)
Partial ==
  [x \in MCDirs |->
     {SelectSeq(Entries[x], LAMBDA y : y \in S) : S \in SUBSET Range(Entries[x])}]
===============================================================================
