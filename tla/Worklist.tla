------------------------------- MODULE Worklist -------------------------------
(***************************************************************************)
(* The contract between the pool and the walker: what src/walker.rs may    *)
(* take for granted about worker_loop, and what worker_loop may take for   *)
(* granted about walk_one.  WorkPool is shown to provide it, and Scan to   *)
(* need no more, so the two modules fit together although each leaves out  *)
(* the inside of the other.                                                *)
(***************************************************************************)
EXTENDS Naturals

CONSTANTS
  Workers,
  Dirs,
  Root,
  NoDir      (* a worker's hands are empty                                 *)

VARIABLES
  todo,      (* directories to be handed out                               *)
  hold,      (* the directory each worker walks                            *)
  known,     (* directories ever put on the list                           *)
  gone       (* workers that have left                                     *)

wvars == <<todo, hold, known, gone>>

Init ==
  /\ todo = {Root}
  /\ hold = [w \in Workers |-> NoDir]
  /\ known = {Root}
  /\ gone = {}

(* A directory is handed to one worker, once.                              *)
Take(w, d) ==
  /\ w \notin gone /\ hold[w] = NoDir
  /\ d \in todo
  /\ todo' = todo \ {d}
  /\ hold' = [hold EXCEPT ![w] = d]
  /\ UNCHANGED <<known, gone>>

(* A worker is done with its directory and adds subdirectories that nobody *)
(* has added before.                                                       *)
Finish(w, S) ==
  /\ hold[w] # NoDir
  /\ S \intersect known = {}
  /\ todo' = todo \union S
  /\ known' = known \union S
  /\ hold' = [hold EXCEPT ![w] = NoDir]
  /\ UNCHANGED gone

(* A worker leaves when nothing is on the list and nothing can come.       *)
Leave(w) ==
  /\ w \notin gone
  /\ todo = {}
  /\ \A v \in Workers : hold[v] = NoDir
  /\ gone' = gone \union {w}
  /\ UNCHANGED <<todo, hold, known>>

Step(w) ==
  (\E d \in Dirs : Take(w, d)) \/ (\E S \in SUBSET Dirs : Finish(w, S)) \/ Leave(w)

Next == \E w \in Workers : Step(w)

Safe == Init /\ [][Next]_wvars

(* Somebody goes on as long as there is something to do, and everybody     *)
(* leaves in the end.                                                      *)
Spec == Safe /\ WF_wvars(Next)
===============================================================================
