------------------------------ MODULE Traversal ------------------------------
(***************************************************************************)
(* What a pfind run promises about directories, with no threads in it:     *)
(* every directory the walk discovers is read, none is read twice, and     *)
(* the walk halts only when nothing it discovered is left unread.  The     *)
(* work-stealing pool (WorkPool) is shown to implement this.               *)
(***************************************************************************)
EXTENDS Functions, Sequences

CONSTANTS
  Dirs,      (* the directories below and including the root               *)
  Root,      (* cli.root                                                   *)
  Readings   (* Readings[d]: the child_dirs lists one pass over d can give *)

VARIABLES
  found,     (* directories discovered so far; the root from the start     *)
  walked,    (* directories that have been read                            *)
  halted     (* the walk has been declared finished                        *)

tvars == <<found, walked, halted>>

Init ==
  /\ found = {Root}
  /\ walked = {}
  /\ halted = FALSE

(* Read a discovered, unread directory; a directory that cannot be read    *)
(* counts as read and yields nothing.                                      *)
Visit(d) ==
  /\ ~halted
  /\ d \in found \ walked
  /\ walked' = walked \union {d}
  /\ \/ \E s \in Readings[d] : found' = found \union Range(s)
     \/ UNCHANGED found
  /\ UNCHANGED halted

Halt ==
  /\ ~halted
  /\ found \subseteq walked
  /\ halted' = TRUE
  /\ UNCHANGED <<found, walked>>

Next == (\E d \in Dirs : Visit(d)) \/ Halt

(* The part of the promise that a single step can break.                   *)
Safe == Init /\ [][Next]_tvars

Spec == Safe /\ WF_tvars(Next)
==============================================================================
