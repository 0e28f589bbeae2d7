------------------------------ MODULE Overlooked ------------------------------
(***************************************************************************)
(* WorkPool, and what each worker has failed to see before it sleeps.      *)
(*                                                                         *)
(* A worker that has announced itself sweeps over its peers once more      *)
(* before it parks (queue.rs:150-154), while a peer that pushes looks      *)
(* behind its pushes whether anyone has announced itself (queue.rs:87-95). *)
(* A push that is seen late can slip through between the two.  The history *)
(* variable overlooked tells which directories did.                        *)
(***************************************************************************)
EXTENDS WorkPool

VARIABLE overlooked

(* The directories on v's deque that no thief can see yet.                 *)
Unseen(v) == {deque[v][i] : i \in {j \in DOMAIN deque[v] : j > Visible(v)}}

(* v is still going to unpark w.                                           *)
WillWake(v, w) == pc[v] \in {"push", "peek"} \/ (pc[v] = "wake" /\ cursor[v] <= w)

(* The second sweep of w passes v, which is not about to wake it.          *)
Passes(w, v) ==
  /\ pc[w] = "resteal" /\ cursor[w] < N /\ cursor'[w] = cursor[w] + 1
  /\ v = Victim(w, cursor[w]) /\ ~WillWake(v, w)

(* w has overlooked what it could not see when it passed, until it         *)
(* withdraws its announcement.                                             *)
Overlook ==
  overlooked' = [w \in Workers |->
    IF pc'[w] \notin Announced THEN {}
    ELSE overlooked[w] \union UNION {Unseen(v) : v \in {u \in Workers : Passes(w, u)}}]

OverlookedInit == Init /\ overlooked = [w \in Workers |-> {}]

OverlookedNext == Next /\ Overlook

OverlookedSafe == OverlookedInit /\ [][OverlookedNext]_<<vars, overlooked>>

-------------------------------------------------------------------------------
(* With pushes that are seen late: if a worker asleep without a permit     *)
(* could steal a directory from a peer that is not on its way to unparking *)
(* it, then the push of that very directory was still in the peer's store  *)
(* buffer, and the peer beyond its look at parked_count, when the sleeper  *)
(* swept over it.  No other order of the steps loses a wake-up             *)
(* (queue.rs:87-95, 143-162).                                              *)
OnlyOverlooked ==
  \A w, v \in Workers :
    Asleep(w) /\ v # w /\ ~WillWake(v, w) => Range(deque[v]) \subseteq overlooked[w]
===============================================================================
