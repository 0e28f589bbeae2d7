------------------------------- MODULE WorkPool -------------------------------
(***************************************************************************)
(* The work-stealing pool of src/queue.rs, run by the threads that         *)
(* src/scheduler.rs spawns, over the directory-publishing skeleton of      *)
(* walk_one in src/walker.rs.                                              *)
(*                                                                         *)
(* One action is one access to shared memory (an atomic, a deque, a        *)
(* parker) together with the thread-local work up to the next one, so      *)
(* every interleaving of the workers at that grain is a behaviour.  What   *)
(* a directory contains is the constant Readings; what is done with the    *)
(* files in it is not part of this module.                                 *)
(*                                                                         *)
(* Worker::push does no read-modify-write: the store that publishes the    *)
(* new back of the deque can sit in the pushing core's store buffer while  *)
(* the core already executes later loads.  hidden[w] counts the newest     *)
(* entries of deque[w] in that position: the owner sees them, a thief does *)
(* not.  Every read-modify-write and every successful pop of the owner     *)
(* waits for the buffer to drain (Fenced).  DelayedStores = FALSE is a     *)
(* machine, or a push, without that delay.                                 *)
(***************************************************************************)
EXTENDS Integers, Sequences, FiniteSets, Functions

CONSTANTS
  N,             (* Config::effective_threads().max(1)                     *)
  Dirs,          (* the directories below and including the root           *)
  Root,          (* cli.root                                               *)
  NoDir,         (* "no directory in hand"                                 *)
  Parent,        (* the parent of each directory but the root              *)
  Readings,      (* Readings[d]: the child_dirs lists a pass over d yields *)
  UsizeMax,      (* largest value of the usize counters                    *)
  DelayedStores  (* may a push be seen late by the other cores             *)

ASSUME NAssumption == N \in Nat \ {0}

(* The directories form a tree: symbolic links are not followed            *)
(* (DirEntry::file_type does not), so a directory is an entry of one       *)
(* parent and the root an entry of none.                                   *)
ASSUME TreeAssumption ==
  /\ IsFiniteSet(Dirs)
  /\ Root \in Dirs
  /\ NoDir \notin Dirs
  /\ \A d \in Dirs : Readings[d] \subseteq Seq(Dirs \ {Root})
  /\ \A d \in Dirs : \A s \in Readings[d] :
        IsInjective(s) /\ \A i \in DOMAIN s : Parent[s[i]] = d

(* Every directory and every worker is an object in memory, so neither     *)
(* count exceeds a usize.                                                  *)
ASSUME WidthAssumption ==
  /\ UsizeMax \in Nat
  /\ Cardinality(Dirs) <= UsizeMax
  /\ N <= UsizeMax

ASSUME StoresAssumption == DelayedStores \in BOOLEAN

Workers == 0 .. N - 1

VARIABLES
  main,      (* the thread of Scheduler::run: where it is                  *)
  pc,        (* where each worker thread is                                *)
  deque,     (* each worker's deque, oldest entry first                    *)
  hidden,    (* how many newest entries of it thieves cannot see yet       *)
  pending,   (* Pool.dir_pending                                           *)
  parked,    (* Pool.parked_count                                          *)
  shutdown,  (* Pool.shutdown                                              *)
  permit,    (* the token of each worker's Parker                          *)
  cur,       (* the directory a worker has taken and not finished          *)
  kids,      (* WorkerState.child_dirs, what is left of it                 *)
  cursor,    (* index of a loop over the peers or over the unparkers       *)
  found,     (* history: directories discovered, the root included         *)
  walked     (* history: directories walk was called on                    *)

threads == <<main, pc>>
counters == <<pending, parked, shutdown>>
scratch == <<cur, kids, cursor>>
history == <<found, walked>>
vars == <<main, pc, deque, hidden, pending, parked, shutdown, permit,
          cur, kids, cursor, found, walked>>

MainStates == {"add", "push", "spawn", "join", "done"}

(* Inside walk_one, from the read of the directory to sub_dirs.            *)
Walk == {"read", "add", "push", "peek", "wake", "sub"}
(* Between parked_count.fetch_add and the fetch_sub that undoes it.        *)
Announced == {"resteal", "retract", "check", "quit", "park", "woken"}
(* From the observation of dir_pending = 0 to the return that follows it.  *)
Quitting == {"quit", "signal", "broadcast"}

WorkerStates ==
  {"unborn", "pop", "steal", "announce", "exam", "done"}
    \union Walk \union Announced \union Quitting

-------------------------------------------------------------------------------
(* usize arithmetic: fetch_add and fetch_sub wrap.                         *)
Add(x, n) == (x + n) % (UsizeMax + 1)
Sub(x, n) == (x - n) % (UsizeMax + 1)

Goto(w, from, to) ==
  /\ pc[w] = from
  /\ pc' = [pc EXCEPT ![w] = to]

(* The thread's store buffer is empty, as its next instruction requires.   *)
Fenced(w) == hidden[w] = 0

(* stealers[idx] of the k-th round of a sweep.                             *)
Victim(w, k) == (w + k) % N

Visible(v) == Len(deque[v]) - hidden[v]

-------------------------------------------------------------------------------
(* Pool::new.                                                              *)
Init ==
  /\ main = "add"
  /\ pc = [w \in Workers |-> "unborn"]
  /\ deque = [w \in Workers |-> <<>>]
  /\ hidden = [w \in Workers |-> 0]
  /\ pending = 0
  /\ parked = 0
  /\ shutdown = FALSE
  /\ permit = [w \in Workers |-> FALSE]
  /\ cur = [w \in Workers |-> NoDir]
  /\ kids = [w \in Workers |-> <<>>]
  /\ cursor = [w \in Workers |-> 1]
  /\ found = {Root}
  /\ walked = {}

-------------------------------------------------------------------------------
(* Scheduler::run: seed the root, spawn the workers in order, join them.   *)

SeedAdd ==
  /\ main = "add"
  /\ main' = "push"
  /\ pending' = Add(pending, 1)
  /\ UNCHANGED <<pc, deque, hidden, parked, shutdown, permit, scratch, history>>

(* Spawning a thread publishes everything done before it, so the root is   *)
(* never hidden.                                                           *)
SeedPush ==
  /\ main = "push"
  /\ main' = "spawn"
  /\ deque' = [deque EXCEPT ![0] = Append(@, Root)]
  /\ UNCHANGED <<pc, hidden, counters, permit, scratch, history>>

Spawn(w) ==
  /\ main = "spawn"
  /\ \A v \in Workers : v < w => pc[v] # "unborn"
  /\ Goto(w, "unborn", "pop")
  /\ main' = IF w = N - 1 THEN "join" ELSE "spawn"
  /\ UNCHANGED <<deque, hidden, counters, permit, scratch, history>>

(* thread::scope ends when every worker has returned.                      *)
Join ==
  /\ main = "join"
  /\ \A w \in Workers : pc[w] = "done"
  /\ main' = "done"
  /\ UNCHANGED <<pc, deque, hidden, counters, permit, scratch, history>>

-------------------------------------------------------------------------------
(* Finding work: worker_loop 1. and 2.                                     *)

(* Faulty: the owner takes the oldest entry (Worker::new_fifo).            *)
PopHitOldest(w) ==
  /\ deque[w] # <<>>
  /\ Fenced(w)
  /\ Goto(w, "pop", "read")
  /\ cur' = [cur EXCEPT ![w] = Head(deque[w])]
  /\ deque' = [deque EXCEPT ![w] = Tail(@)]
  /\ UNCHANGED <<main, hidden, counters, permit, kids, cursor, history>>

(* local.pop(): the newest entry.                                          *)
PopHit(w) ==
  /\ deque[w] # <<>>
  /\ Fenced(w)
  /\ Goto(w, "pop", "read")
  /\ cur' = [cur EXCEPT ![w] = deque[w][Len(deque[w])]]
  /\ deque' = [deque EXCEPT ![w] = SubSeq(@, 1, Len(@) - 1)]
  /\ UNCHANGED <<main, hidden, counters, permit, kids, cursor, history>>

(* Faulty: a worker may turn to its peers before its own deque is empty.   *)
PopMissEarly(w) ==
  /\ Goto(w, "pop", "steal")
  /\ UNCHANGED <<main, deque, hidden, counters, permit, scratch, history>>

PopMiss(w) ==
  /\ deque[w] = <<>>
  /\ Goto(w, "pop", "steal")
  /\ UNCHANGED <<main, deque, hidden, counters, permit, scratch, history>>

(* Faulty: the entry is read but not removed.                              *)
TakeCopy(w, v) ==
  /\ Visible(v) > 0
  /\ cur' = [cur EXCEPT ![w] = Head(deque[v])]
  /\ cursor' = [cursor EXCEPT ![w] = 1]
  /\ UNCHANGED <<main, deque, hidden, counters, permit, kids, history>>

(* Take the oldest entry of v's deque into w's hands.                      *)
Take(w, v) ==
  /\ Visible(v) > 0
  /\ cur' = [cur EXCEPT ![w] = Head(deque[v])]
  /\ deque' = [deque EXCEPT ![v] = Tail(@)]
  /\ cursor' = [cursor EXCEPT ![w] = 1]
  /\ UNCHANGED <<main, hidden, counters, permit, kids, history>>

(* Faulty: for k in 1..=n.                                                 *)
SweepInclusive(w, from, to) ==
  \/ /\ cursor[w] <= N
     /\ Visible(Victim(w, cursor[w])) <= 0
     /\ Goto(w, from, from)
     /\ cursor' = [cursor EXCEPT ![w] = @ + 1]
     /\ UNCHANGED <<main, deque, hidden, counters, permit, cur, kids, history>>
  \/ /\ cursor[w] > N
     /\ Goto(w, from, to)
     /\ cursor' = [cursor EXCEPT ![w] = 1]
     /\ UNCHANGED <<main, deque, hidden, counters, permit, cur, kids, history>>

(* Pool::try_steal meets an empty peer, or has met them all: the sweep     *)
(* that starts at state from goes on, or falls through to state to.        *)
Sweep(w, from, to) ==
  \/ /\ cursor[w] < N
     /\ Visible(Victim(w, cursor[w])) <= 0
     /\ Goto(w, from, from)
     /\ cursor' = [cursor EXCEPT ![w] = @ + 1]
     /\ UNCHANGED <<main, deque, hidden, counters, permit, cur, kids, history>>
  \/ /\ cursor[w] >= N
     /\ Goto(w, from, to)
     /\ cursor' = [cursor EXCEPT ![w] = 1]
     /\ UNCHANGED <<main, deque, hidden, counters, permit, cur, kids, history>>

(* Steal::Retry leaves everything as it was and is a stuttering step.      *)
StealHit(w) ==
  /\ cursor[w] < N
  /\ Goto(w, "steal", "read")
  /\ Take(w, Victim(w, cursor[w]))

StealMiss(w) == Sweep(w, "steal", "announce")

-------------------------------------------------------------------------------
(* Going to sleep: worker_loop 3. to 5.                                    *)

Announce(w) ==
  /\ Fenced(w)
  /\ Goto(w, "announce", "resteal")
  /\ parked' = Add(parked, 1)
  /\ UNCHANGED <<main, deque, hidden, pending, shutdown, permit, scratch, history>>

RestealHit(w) ==
  /\ cursor[w] < N
  /\ Goto(w, "resteal", "retract")
  /\ Take(w, Victim(w, cursor[w]))

RestealMiss(w) == Sweep(w, "resteal", "check")

(* A read-modify-write that undoes the announcement.                       *)
Unannounce(w, from, to) ==
  /\ Fenced(w)
  /\ Goto(w, from, to)
  /\ parked' = Sub(parked, 1)
  /\ UNCHANGED <<main, deque, hidden, pending, shutdown, permit, scratch, history>>

(* Faulty: a late steal leaves the announcement standing.                  *)
RetractForgets(w) ==
  /\ Goto(w, "retract", "read")
  /\ UNCHANGED <<main, deque, hidden, counters, permit, scratch, history>>

Retract(w) == Unannounce(w, "retract", "read")

(* Faulty: pending <= 1 counts as quiet.                                   *)
CheckPendingLax(w) ==
  /\ Goto(w, "check", IF pending <= 1 THEN "quit" ELSE "park")
  /\ UNCHANGED <<main, deque, hidden, counters, permit, scratch, history>>

CheckPending(w) ==
  /\ Goto(w, "check", IF pending = 0 THEN "quit" ELSE "park")
  /\ UNCHANGED <<main, deque, hidden, counters, permit, scratch, history>>

Quit(w) == Unannounce(w, "quit", "signal")

(* Faulty: the broadcast skips the first unparker.                         *)
SignalFromOne(w) ==
  /\ Goto(w, "signal", IF N > 1 THEN "broadcast" ELSE "done")
  /\ shutdown' = TRUE
  /\ cursor' = [cursor EXCEPT ![w] = 1]
  /\ UNCHANGED <<main, deque, hidden, pending, parked, permit, cur, kids, history>>

(* signal_shutdown: the flag, then every unparker in turn.                 *)
Signal(w) ==
  /\ Goto(w, "signal", "broadcast")
  /\ shutdown' = TRUE
  /\ cursor' = [cursor EXCEPT ![w] = 0]
  /\ UNCHANGED <<main, deque, hidden, pending, parked, permit, cur, kids, history>>

(* Faulty: a round-robin cursor that wraps instead of ending the loop.     *)
UnparkNextWraps(w, from, to) ==
  /\ Fenced(w)
  /\ Goto(w, from, from)
  /\ permit' = [permit EXCEPT ![cursor[w]] = TRUE]
  /\ cursor' = [cursor EXCEPT ![w] = (@ + 1) % N]
  /\ UNCHANGED <<main, deque, hidden, counters, cur, kids, history>>

(* One turn of a loop over the unparkers: from state from, to state to     *)
(* after the last one.                                                     *)
UnparkNext(w, from, to) ==
  LET last == cursor[w] = N - 1
  IN  /\ Fenced(w)
      /\ Goto(w, from, IF last THEN to ELSE from)
      /\ permit' = [permit EXCEPT ![cursor[w]] = TRUE]
      /\ cursor' = [cursor EXCEPT ![w] = IF last THEN 1 ELSE @ + 1]
      /\ UNCHANGED <<main, deque, hidden, counters, cur, kids, history>>

Broadcast(w) == UnparkNext(w, "broadcast", "done")

(* parker.park() blocks until the permit is there and consumes it.         *)
Park(w) ==
  /\ permit[w]
  /\ Goto(w, "park", "woken")
  /\ permit' = [permit EXCEPT ![w] = FALSE]
  /\ UNCHANGED <<main, deque, hidden, counters, scratch, history>>

Woken(w) == Unannounce(w, "woken", "exam")

CheckShutdown(w) ==
  /\ Goto(w, "exam", IF shutdown THEN "done" ELSE "pop")
  /\ UNCHANGED <<main, deque, hidden, counters, permit, scratch, history>>

-------------------------------------------------------------------------------
(* walk_one, as far as the pool can tell.                                  *)

(* Faulty: the children are published without add_dirs.                    *)
ReadDirUncounted(w) ==
  /\ pc[w] = "read"
  /\ \E s \in Readings[cur[w]] :
       /\ pc' = [pc EXCEPT ![w] = IF s = <<>> THEN "sub" ELSE "push"]
       /\ kids' = [kids EXCEPT ![w] = s]
       /\ found' = found \union Range(s)
  /\ walked' = walked \union {cur[w]}
  /\ UNCHANGED <<main, deque, hidden, counters, permit, cur, cursor>>

(* fs::read_dir and the loop over the entries: some child_dirs.            *)
ReadDir(w) ==
  /\ pc[w] = "read"
  /\ \E s \in Readings[cur[w]] :
       /\ pc' = [pc EXCEPT ![w] = IF s = <<>> THEN "sub" ELSE "add"]
       /\ kids' = [kids EXCEPT ![w] = s]
       /\ found' = found \union Range(s)
  /\ walked' = walked \union {cur[w]}
  /\ UNCHANGED <<main, deque, hidden, counters, permit, cur, cursor>>

(* Faulty: the early return forgets sub_dirs.                              *)
ReadDirFailsLeak(w) ==
  /\ Goto(w, "read", "pop")
  /\ walked' = walked \union {cur[w]}
  /\ cur' = [cur EXCEPT ![w] = NoDir]
  /\ UNCHANGED <<main, deque, hidden, counters, permit, kids, cursor, found>>

(* fs::read_dir fails: the directory is given up.                          *)
ReadDirFails(w) ==
  /\ Goto(w, "read", "sub")
  /\ walked' = walked \union {cur[w]}
  /\ UNCHANGED <<main, deque, hidden, counters, permit, scratch, found>>

AddDirs(w) ==
  /\ Fenced(w)
  /\ Goto(w, "add", "push")
  /\ pending' = Add(pending, Len(kids[w]))
  /\ UNCHANGED <<main, deque, hidden, parked, shutdown, permit, scratch, history>>

(* One turn of the drain of child_dirs into the local deque.               *)
Push(w) ==
  /\ Goto(w, "push", IF Tail(kids[w]) = <<>> THEN "peek" ELSE "push")
  /\ deque' = [deque EXCEPT ![w] = Append(@, Head(kids[w]))]
  /\ hidden' = [hidden EXCEPT ![w] = IF DelayedStores THEN @ + 1 ELSE 0]
  /\ kids' = [kids EXCEPT ![w] = Tail(@)]
  /\ UNCHANGED <<main, counters, permit, cur, cursor, history>>

(* Faulty: a single sleeper is overlooked.                                 *)
MaybeUnparkLax(w) ==
  /\ Goto(w, "peek", IF parked > 1 THEN "wake" ELSE "sub")
  /\ cursor' = [cursor EXCEPT ![w] = IF parked > 1 THEN 0 ELSE @]
  /\ UNCHANGED <<main, deque, hidden, counters, permit, cur, kids, history>>

(* maybe_unpark: look whether anyone has announced, then wake them all.    *)
MaybeUnpark(w) ==
  /\ Goto(w, "peek", IF parked > 0 THEN "wake" ELSE "sub")
  /\ cursor' = [cursor EXCEPT ![w] = IF parked > 0 THEN 0 ELSE @]
  /\ UNCHANGED <<main, deque, hidden, counters, permit, cur, kids, history>>

Wake(w) == UnparkNext(w, "wake", "sub")

SubDirs(w) ==
  /\ Fenced(w)
  /\ Goto(w, "sub", "pop")
  /\ pending' = Sub(pending, 1)
  /\ cur' = [cur EXCEPT ![w] = NoDir]
  /\ UNCHANGED <<main, deque, hidden, parked, shutdown, permit, kids, cursor, history>>

(* The oldest delayed push of w reaches the other cores.                   *)
Drain(w) ==
  /\ hidden[w] > 0
  /\ hidden' = [hidden EXCEPT ![w] = @ - 1]
  /\ UNCHANGED <<threads, deque, counters, permit, scratch, history>>

-------------------------------------------------------------------------------
Worker(w) ==
  \/ PopHit(w) \/ PopMiss(w) \/ StealHit(w) \/ StealMiss(w)
  \/ Announce(w) \/ RestealHit(w) \/ RestealMiss(w) \/ Retract(w)
  \/ CheckPending(w) \/ Quit(w) \/ Signal(w) \/ Broadcast(w)
  \/ Park(w) \/ Woken(w) \/ CheckShutdown(w)
  \/ ReadDir(w) \/ ReadDirFails(w) \/ AddDirs(w) \/ Push(w)
  \/ MaybeUnpark(w) \/ Wake(w) \/ SubDirs(w) \/ Drain(w)

Main == SeedAdd \/ SeedPush \/ (\E w \in Workers : Spawn(w)) \/ Join

(* The process has exited.                                                 *)
Terminated == main = "done" /\ UNCHANGED vars

Next == Main \/ (\E w \in Workers : Worker(w)) \/ Terminated

Safe == Init /\ [][Next]_vars

(* The operating system runs every thread that can run; a blocked park is  *)
(* not such a thread.  A store buffer drains.                              *)
Fairness == WF_vars(Main) /\ \A w \in Workers : WF_vars(Worker(w))

Spec == Safe /\ Fairness
-------------------------------------------------------------------------------
(* Where a directory can be.                                               *)
Queued == UNION {Range(deque[w]) : w \in Workers}
Held == {cur[w] : w \in Workers} \ {NoDir}
Publishing == UNION {Range(kids[w]) : w \in {v \in Workers : pc[v] = "push"}}
Seeding == IF main = "push" THEN {Root} ELSE {}
Counted == Queued \union Held \union Publishing \union Seeding

(* Blocked in park().                                                      *)
Asleep(w) == pc[w] = "park" /\ ~permit[w]

(* The values the variables take.                                          *)
TypeOK ==
  /\ main \in MainStates
  /\ pc \in [Workers -> WorkerStates]
  /\ deque \in [Workers -> Seq(Dirs)]
  /\ hidden \in [Workers -> Nat]
  /\ pending \in 0 .. UsizeMax
  /\ parked \in 0 .. UsizeMax
  /\ shutdown \in BOOLEAN
  /\ permit \in [Workers -> BOOLEAN]
  /\ cur \in [Workers -> Dirs \union {NoDir}]
  /\ kids \in [Workers -> Seq(Dirs)]
  /\ cursor \in [Workers -> 0 .. N]
  /\ found \subseteq Dirs
  /\ walked \subseteq Dirs

(* dir_pending counts the directories added and not yet finished, each     *)
(* once, wherever they are: on any deque, in the hands of a worker, or     *)
(* between add_dirs and their push.  So sub_dirs never wraps below zero    *)
(* (queue.rs:16-18), and zero means that nothing is left.                  *)
PendingExact == pending = Cardinality(Counted)

(* No directory is in two places at once, and none waits to be walked a    *)
(* second time: stealing, popping and publishing never duplicate work.     *)
NoDuplicate ==
  /\ \A v, w \in Workers : v # w =>
        /\ Range(deque[v]) \intersect Range(deque[w]) = {}
        /\ Range(kids[v]) \intersect Range(kids[w]) = {}
        /\ cur[v] = cur[w] => cur[v] = NoDir
  /\ \A w \in Workers : IsInjective(deque[w]) /\ IsInjective(kids[w])
  /\ Queued \intersect (Held \union walked) = {}
  /\ \A w \in Workers :
        Range(kids[w]) \intersect (Queued \union Held \union walked) = {}

(* From the moment a worker has seen dir_pending = 0 (queue.rs:156) every  *)
(* discovered directory has been walked and none is in anybody's hands,    *)
(* and so a worker never leaves while there is work.                       *)
SafeShutdown ==
  (shutdown \/ \E w \in Workers : pc[w] \in Quitting)
    => Counted = {} /\ found \subseteq walked

(* parked_count is the number of workers between the announcement and its  *)
(* withdrawal on any of the three ways out (queue.rs:150, 157, 164), so a  *)
(* producer that reads zero has nobody to wake.                            *)
ParkedExact == parked = Cardinality({w \in Workers : pc[w] \in Announced})

(* A worker with directories on its own deque is awake: it never announces,*)
(* parks or leaves before it has emptied it.  Its own pushes therefore get *)
(* walked even when every wake-up they caused was missed.                  *)
OwnerAwake ==
  \A w \in Workers :
    deque[w] # <<>> =>
      pc[w] \in Walk \union {"pop"} \union (IF w = 0 THEN {"unborn"} ELSE {})

(* S holds the parent of each of its members.                              *)
Upward(S) == \A d \in S \ {Root} : Parent[d] \in S

(* The directories on the way from d up to the root: what every set with   *)
(* d in it and closed upwards holds.                                       *)
AncestorsOrSelf ==
  [d \in Dirs |-> {x \in Dirs : \A S \in SUBSET Dirs : d \in S /\ Upward(S) => x \in S}]

(* Each deque is the stack of a depth-first walk: of two directories on it *)
(* the older one's parent is an ancestor-or-equal of the newer one's, so   *)
(* for each level of the tree a deque holds children of one directory      *)
(* only, its length is at most depth times fan-out, and a thief always     *)
(* takes a directory of the victim's shallowest level.                     *)
DepthFirst ==
  \A w \in Workers : \A i, j \in DOMAIN deque[w] :
    i < j /\ deque[w][i] # Root
      => Parent[deque[w][i]] \in AncestorsOrSelf[Parent[deque[w][j]]]

(* A worker asleep without a permit has not been forgotten: whoever holds  *)
(* directories it could steal is still on its way to unparking it          *)
(* (queue.rs:143-146, 162).                                                *)
NoMissedWake ==
  \A w, v \in Workers :
    Asleep(w) /\ v # w /\ deque[v] # <<>> =>
      \/ pc[v] \in {"push", "peek"}
      \/ pc[v] = "wake" /\ cursor[v] <= w

(* Nobody sleeps for ever.  While shutdown is not set somebody is awake (or*)
(* not yet spawned), so the last worker to run out of work finds           *)
(* dir_pending = 0; once it is set, a sleeper without a permit is still    *)
(* ahead of some broadcast (queue.rs:113-118): a permit granted before the *)
(* flag was set cannot have swallowed the one that announces it.           *)
NoneStranded ==
  \A w \in Workers : Asleep(w) =>
    \/ ~shutdown /\ \E v \in Workers : ~Asleep(v) /\ pc[v] # "done"
    \/ \E v \in Workers : pc[v] = "broadcast" /\ cursor[v] <= w

(* Quiescence is stable: once dir_pending has come down to zero it stays   *)
(* there, so a worker may act on a zero it read some time ago              *)
(* (queue.rs:156-158).                                                     *)
QuiescenceStable ==
  [][pending = 0 /\ main # "add" => pending' = 0]_vars

(* queue.rs:8-10 says that shutdown is set when all workers are parked and *)
(* by the last to observe quiescence: when a worker sets it, every other   *)
(* one is parked.                                                          *)
ShutdownByLast ==
  [][~shutdown /\ shutdown' =>
       \A w \in Workers : pc[w] = "signal" \/ pc[w] = "park"]_vars

(* Every run ends: all workers return and the scheduler joins them.        *)
Termination == <>(main = "done")

(* The pool implements the sequential promise.                             *)
Abstract == INSTANCE Traversal WITH halted <- shutdown
AbstractSafe == Abstract!Safe
AbstractSpec == Abstract!Spec

(* The pool keeps the contract that the walker relies on.  A directory is  *)
(* with a worker from the moment it is taken until its children have been  *)
(* counted (or it is clear that there are none); from then on the children *)
(* are on the list, pushed or not.  A worker has left once it has seen     *)
(* zero, or the flag (queue.rs:121-170).                                   *)
InHand(w) == pc[w] \in {"retract", "read", "add"}
Listed == Queued \union Publishing \union (IF main \in {"add", "push"} THEN {Root} ELSE {})
Holding == [w \in Workers |-> IF InHand(w) THEN cur[w] ELSE NoDir]
Uncounted == UNION {Range(kids[w]) : w \in {v \in Workers : pc[v] = "add"}}
Leaving == {w \in Workers : pc[w] \in Quitting \union {"done"}}

Contract == INSTANCE Worklist WITH
  todo <- Listed, hold <- Holding, known <- found \ Uncounted, gone <- Leaving
ContractSafe == Contract!Safe
ContractSpec == Contract!Spec
===============================================================================
