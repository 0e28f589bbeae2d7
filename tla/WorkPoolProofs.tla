---------------------------- MODULE WorkPoolProofs ----------------------------
(***************************************************************************)
(* Proofs about WorkPool for every number of workers, every directory tree *)
(* and every width of usize that satisfies the assumptions of WorkPool: no *)
(* directory is lost or walked twice, the counter is exact, the pool stops *)
(* when everything is walked, and it implements the sequential traversal.  *)
(***************************************************************************)
EXTENDS WorkPool, BasicLemmas

-------------------------------------------------------------------------------
(* What everything below rests on: how the program counters, the seeding   *)
(* of the root and the thread-local data go together.                      *)
Shape ==
  /\ \A w \in Workers : cur[w] # NoDir <=> pc[w] \in Walk \union {"retract"}
  /\ \A w \in Workers : kids[w] # <<>> <=> pc[w] \in {"add", "push"}
  /\ \A w \in Workers : hidden[w] <= Len(deque[w])
  /\ \A w \in Workers : pc[w] \in {"wake", "broadcast"} => cursor[w] < N
  /\ main \in {"add", "push"} =>
       /\ \A w \in Workers : pc[w] = "unborn" /\ deque[w] = <<>>
       /\ found = {Root} /\ walked = {} /\ ~shutdown

-------------------------------------------------------------------------------
(* What the deque operations do to the set of queued directories.          *)

(* x leaves v's deque.                                                     *)
Removes(v, x) ==
  /\ x \in Dirs
  /\ x \in Range(deque[v])
  /\ \E s \in Seq(Dirs) :
       /\ deque' = [deque EXCEPT ![v] = s]
       /\ Len(s) = Len(deque[v]) - 1
       /\ IsInjective(deque[v]) =>
            Range(s) = Range(deque[v]) \ {x} /\ IsInjective(s)

(* x comes onto v's deque.                                                 *)
Inserts(v, x) ==
  \E s \in Seq(Dirs) :
    /\ deque' = [deque EXCEPT ![v] = s]
    /\ Len(s) = Len(deque[v]) + 1
    /\ Range(s) = Range(deque[v]) \union {x}
    /\ IsInjective(deque[v]) /\ x \notin Range(deque[v]) => IsInjective(s)

(* Worker w gets x from v's deque: PopHit, StealHit and RestealHit.        *)
Obtains(w, v, x) ==
  /\ Removes(v, x)
  /\ cur' = [cur EXCEPT ![w] = x]
  /\ pc[w] \in {"pop", "steal", "resteal"}
  /\ \E p \in {"read", "retract"} : pc' = [pc EXCEPT ![w] = p]
  /\ pc[w] = "pop" => pc' = [pc EXCEPT ![w] = "read"]
  /\ hidden[v] < Len(deque[v])
  /\ cursor' \in [Workers -> 0 .. N]
  /\ \A u \in Workers : u # w => cursor'[u] = cursor[u]
  /\ UNCHANGED <<main, hidden, counters, permit, kids, history>>

(* local.pop() obtains the newest entry of the worker's own deque.         *)
LEMMA PopObtains ==
  ASSUME TypeOK, NEW w \in Workers, PopHit(w)
  PROVE  \E x \in Dirs : Obtains(w, w, x)
<1> DEFINE x == deque[w][Len(deque[w])]
           s == SubSeq(deque[w], 1, Len(deque[w]) - 1)
<1>1. /\ deque[w] \in Seq(Dirs) /\ deque[w] # <<>>
      /\ hidden[w] = 0
    BY DEF TypeOK, PopHit, Fenced
<1>2. /\ x \in Dirs /\ s \in Seq(Dirs) /\ x \in Range(deque[w])
      /\ Len(s) = Len(deque[w]) - 1
      /\ IsInjective(deque[w]) =>
           Range(s) = Range(deque[w]) \ {x} /\ IsInjective(s)
    BY <1>1, FrontRange
<1>3. /\ cur' = [cur EXCEPT ![w] = x]
      /\ deque' = [deque EXCEPT ![w] = s]
    BY DEF PopHit, TypeOK
<1>4. Len(deque[w]) \in Nat /\ Len(deque[w]) # 0
    BY <1>1, LenProperties, EmptySeq
<1> HIDE DEF x, s
<1>5. Removes(w, x)
    BY <1>2, <1>3 DEF Removes
<1>6. /\ pc[w] = "pop" /\ pc' = [pc EXCEPT ![w] = "read"]
      /\ UNCHANGED <<main, hidden, counters, permit, kids, cursor, history>>
    BY DEF PopHit, Goto
<1>7. Obtains(w, w, x)
    BY <1>1, <1>3, <1>4, <1>5, <1>6 DEF Obtains, TypeOK
<1> QED BY <1>2, <1>7

(* A steal obtains the oldest entry that is visible on the victim's deque. *)
LEMMA TakeObtains ==
  ASSUME TypeOK, NEW w \in Workers, NEW v \in Workers,
         NEW from \in {"steal", "resteal"}, NEW to \in {"read", "retract"},
         Goto(w, from, to), Take(w, v)
  PROVE  \E x \in Dirs : Obtains(w, v, x)
<1> DEFINE x == Head(deque[v])
           s == Tail(deque[v])
<1>1. deque[v] \in Seq(Dirs) /\ hidden[v] \in Nat /\ Len(deque[v]) \in Nat
    BY LenProperties DEF TypeOK
<1>2. hidden[v] < Len(deque[v]) /\ deque[v] # <<>>
    BY <1>1, EmptySeq DEF Take, Visible
<1>3. /\ x \in Dirs /\ s \in Seq(Dirs) /\ x \in Range(deque[v])
      /\ Len(s) = Len(deque[v]) - 1
      /\ IsInjective(deque[v]) =>
           Range(s) = Range(deque[v]) \ {x} /\ IsInjective(s)
    BY <1>1, <1>2, TailRange
<1>4. /\ cur' = [cur EXCEPT ![w] = x]
      /\ deque' = [deque EXCEPT ![v] = s]
      /\ cursor' = [cursor EXCEPT ![w] = 1]
      /\ UNCHANGED <<main, hidden, counters, permit, kids, history>>
    BY DEF Take, TypeOK
<1> HIDE DEF x, s
<1>5. Removes(v, x)
    BY <1>3, <1>4 DEF Removes
<1>6. /\ pc[w] \in {"steal", "resteal"}
      /\ \E p \in {"read", "retract"} : pc' = [pc EXCEPT ![w] = p]
    BY DEF Goto
<1>7. /\ cursor' \in [Workers -> 0 .. N]
      /\ \A u \in Workers : u # w => cursor'[u] = cursor[u]
    BY <1>4, NAssumption DEF TypeOK
<1>8. Obtains(w, v, x)
    BY <1>2, <1>4, <1>5, <1>6, <1>7 DEF Obtains
<1> QED BY <1>3, <1>8

(* The index arithmetic of try_steal never leaves the stealers.            *)
LEMMA VictimIsWorker ==
  ASSUME NEW w \in Workers, NEW k \in 0 .. N
  PROVE  Victim(w, k) \in Workers
BY NAssumption DEF Victim, Workers

(* Both sweeps of worker_loop obtain a directory in the same way.          *)
LEMMA StealObtains ==
  ASSUME TypeOK, NEW w \in Workers, StealHit(w) \/ RestealHit(w)
  PROVE  \E v \in Workers, x \in Dirs : Obtains(w, v, x)
<1>1. Victim(w, cursor[w]) \in Workers
    BY VictimIsWorker DEF TypeOK
<1>2. CASE StealHit(w)
    BY <1>1, <1>2, TakeObtains DEF StealHit
<1>3. CASE RestealHit(w)
    BY <1>1, <1>3, TakeObtains DEF RestealHit
<1> QED BY <1>2, <1>3

(* A push moves the first of child_dirs to the deque.                      *)
LEMMA PushInserts ==
  ASSUME TypeOK, Shape, NEW w \in Workers, Push(w)
  PROVE  /\ Head(kids[w]) \in Dirs
         /\ Head(kids[w]) \in Range(kids[w])
         /\ Inserts(w, Head(kids[w]))
         /\ Tail(kids[w]) \in Seq(Dirs)
         /\ IsInjective(kids[w]) =>
              /\ Range(Tail(kids[w])) = Range(kids[w]) \ {Head(kids[w])}
              /\ IsInjective(Tail(kids[w]))
         /\ kids' = [kids EXCEPT ![w] = Tail(kids[w])]
<1>1. kids[w] \in Seq(Dirs) /\ kids[w] # <<>> /\ deque[w] \in Seq(Dirs)
    BY DEF TypeOK, Shape, Push, Goto
<1>2. /\ Head(kids[w]) \in Dirs /\ Head(kids[w]) \in Range(kids[w])
      /\ Tail(kids[w]) \in Seq(Dirs)
      /\ IsInjective(kids[w]) =>
           /\ Range(Tail(kids[w])) = Range(kids[w]) \ {Head(kids[w])}
           /\ IsInjective(Tail(kids[w]))
    BY <1>1, TailRange
<1> DEFINE s == Append(deque[w], Head(kids[w]))
<1>3. /\ s \in Seq(Dirs)
      /\ Len(s) = Len(deque[w]) + 1
      /\ Range(s) = Range(deque[w]) \union {Head(kids[w])}
      /\ IsInjective(deque[w]) /\ Head(kids[w]) \notin Range(deque[w]) => IsInjective(s)
    BY <1>1, <1>2, AppendRange, AppendProperties
<1>4. /\ deque' = [deque EXCEPT ![w] = s]
      /\ kids' = [kids EXCEPT ![w] = Tail(kids[w])]
    BY DEF Push, TypeOK
<1> HIDE DEF s
<1>5. Inserts(w, Head(kids[w]))
    BY <1>3, <1>4 DEF Inserts
<1> QED BY <1>2, <1>4, <1>5

(* Scheduler::run seeds the root on the deque of worker 0.                 *)
LEMMA SeedInserts ==
  ASSUME TypeOK, SeedPush
  PROVE  0 \in Workers /\ Inserts(0, Root)
<1>1. 0 \in Workers /\ Root \in Dirs
    BY NAssumption, TreeAssumption DEF Workers
<1>2. deque[0] \in Seq(Dirs)
    BY <1>1 DEF TypeOK
<1> DEFINE s == Append(deque[0], Root)
<1>3. /\ s \in Seq(Dirs)
      /\ Len(s) = Len(deque[0]) + 1
      /\ Range(s) = Range(deque[0]) \union {Root}
      /\ IsInjective(deque[0]) /\ Root \notin Range(deque[0]) => IsInjective(s)
    BY <1>1, <1>2, AppendRange, AppendProperties
<1>4. deque' = [deque EXCEPT ![0] = s]
    BY DEF SeedPush, TypeOK
<1> HIDE DEF s
<1> QED BY <1>1, <1>3, <1>4 DEF Inserts

-------------------------------------------------------------------------------
(* Type correctness, together with the shape of a state.                   *)

(* A thread that moves from one state to another leaves pc well-typed.     *)
LEMMA PcMove ==
  ASSUME TypeOK, NEW w \in Workers, NEW from, NEW to \in WorkerStates,
         Goto(w, from, to)
  PROVE  /\ pc' \in [Workers -> WorkerStates]
         /\ pc[w] = from /\ pc'[w] = to
         /\ \A v \in Workers : v # w => pc'[v] = pc[v]
BY DEF Goto, TypeOK

(* Wrapping arithmetic stays within a usize.                               *)
LEMMA CounterType ==
  ASSUME NEW x \in Int, NEW n \in Int
  PROVE  Add(x, n) \in 0 .. UsizeMax /\ Sub(x, n) \in 0 .. UsizeMax
BY WidthAssumption DEF Add, Sub

(* Obtaining a directory keeps the types.                                  *)
LEMMA ObtainsType ==
  ASSUME TypeOK, NEW w \in Workers, NEW v \in Workers, NEW x \in Dirs,
         Obtains(w, v, x)
  PROVE  TypeOK'
<1>1. pc' \in [Workers -> WorkerStates]
    BY DEF Obtains, TypeOK, WorkerStates, Walk, Announced
<1>2. deque' \in [Workers -> Seq(Dirs)]
    BY DEF Obtains, Removes, TypeOK
<1>3. cur' \in [Workers -> Dirs \union {NoDir}]
    BY DEF Obtains, TypeOK
<1>4. /\ UNCHANGED <<main, hidden, counters, permit, kids, history>>
      /\ cursor' \in [Workers -> 0 .. N]
    BY DEF Obtains
<1> QED BY <1>1, <1>2, <1>3, <1>4 DEF TypeOK, counters, history

(* A sweep that finds nothing keeps the types; its index never passes N.   *)
LEMMA SweepType ==
  ASSUME TypeOK, NEW w \in Workers, NEW from \in WorkerStates,
         NEW to \in WorkerStates, Sweep(w, from, to)
  PROVE  TypeOK'
<1>1. pc' \in [Workers -> WorkerStates]
    BY PcMove DEF Sweep
<1>2. cursor' \in [Workers -> 0 .. N]
  <2>1. \E k \in 0 .. N : cursor' = [cursor EXCEPT ![w] = k]
    <3>1. cursor[w] \in 0 .. N /\ N \in Nat \ {0}
        BY NAssumption DEF TypeOK
    <3>2. CASE cursor' = [cursor EXCEPT ![w] = cursor[w] + 1] /\ cursor[w] < N
      <4>1. cursor[w] + 1 \in 0 .. N
          BY <3>1, <3>2
      <4> QED BY <4>1, <3>2
    <3>3. CASE cursor' = [cursor EXCEPT ![w] = 1]
      <4>1. 1 \in 0 .. N
          BY <3>1
      <4> QED BY <4>1, <3>3
    <3> QED BY <3>2, <3>3 DEF Sweep, TypeOK
  <2> QED BY <2>1 DEF TypeOK
<1>3. UNCHANGED <<main, deque, hidden, counters, permit, cur, kids, history>>
    BY DEF Sweep
<1> QED BY <1>1, <1>2, <1>3 DEF TypeOK, counters, history

(* Withdrawing an announcement keeps the types.                            *)
LEMMA UnannounceType ==
  ASSUME TypeOK, NEW w \in Workers, NEW from, NEW to \in WorkerStates,
         Unannounce(w, from, to)
  PROVE  TypeOK'
<1>1. pc' \in [Workers -> WorkerStates]
    BY PcMove DEF Unannounce
<1>2. parked' \in 0 .. UsizeMax
    BY CounterType DEF Unannounce, TypeOK
<1>3. UNCHANGED <<main, deque, hidden, pending, shutdown, permit, scratch, history>>
    BY DEF Unannounce
<1> QED BY <1>1, <1>2, <1>3 DEF TypeOK, scratch, history

(* A turn of an unpark loop keeps the types; its index never passes N.     *)
LEMMA UnparkType ==
  ASSUME TypeOK, NEW w \in Workers, NEW from \in WorkerStates,
         NEW to \in WorkerStates, UnparkNext(w, from, to), cursor[w] < N
  PROVE  TypeOK'
<1>1. pc' \in [Workers -> WorkerStates]
    BY DEF UnparkNext, Goto, TypeOK
<1>2. permit' \in [Workers -> BOOLEAN]
    BY DEF UnparkNext, TypeOK
<1>3. cursor' \in [Workers -> 0 .. N]
  <2>1. cursor' = [cursor EXCEPT ![w] = IF cursor[w] = N - 1 THEN 1 ELSE cursor[w] + 1]
      BY DEF UnparkNext, TypeOK
  <2>2. (IF cursor[w] = N - 1 THEN 1 ELSE cursor[w] + 1) \in 0 .. N
      BY NAssumption DEF TypeOK
  <2> QED BY <2>1, <2>2 DEF TypeOK
<1>4. UNCHANGED <<main, deque, hidden, counters, cur, kids, history>>
    BY DEF UnparkNext
<1> QED BY <1>1, <1>2, <1>3, <1>4 DEF TypeOK, counters, history

(* Every step keeps the types.                                             *)
LEMMA TypeStep ==
  ASSUME TypeOK, Shape, [Next]_vars
  PROVE  TypeOK'
<1> USE DEF Goto, history, scratch, counters, threads
<1>0. WorkerStates =
        {"unborn", "pop", "steal", "announce", "exam", "done", "read", "add",
         "push", "peek", "wake", "sub", "resteal", "retract", "check", "quit",
         "park", "woken", "signal", "broadcast"}
    BY DEF WorkerStates, Walk, Announced, Quitting
<1>1. CASE SeedAdd
  <2>1. pending' \in 0 .. UsizeMax
      BY <1>1, CounterType DEF SeedAdd, TypeOK
  <2> QED BY <2>1, <1>1 DEF SeedAdd, TypeOK, MainStates
<1>2. CASE SeedPush
  <2>1. deque' \in [Workers -> Seq(Dirs)]
      BY <1>2, SeedInserts DEF Inserts, TypeOK
  <2> QED BY <2>1, <1>2 DEF SeedPush, TypeOK, MainStates
<1>3. ASSUME NEW w \in Workers, Spawn(w) PROVE TypeOK'
    BY <1>0, <1>3 DEF Spawn, TypeOK, MainStates
<1>4. CASE Join
    BY <1>4 DEF Join, TypeOK, MainStates
<1>5. ASSUME NEW w \in Workers, Worker(w) PROVE TypeOK'
  <2>1. CASE PopHit(w)
      BY <2>1, PopObtains, ObtainsType
  <2>2. CASE PopMiss(w)
      BY <2>2, <1>0 DEF PopMiss, TypeOK
  <2>3. CASE StealHit(w) \/ RestealHit(w)
      BY <2>3, StealObtains, ObtainsType
  <2>4. CASE StealMiss(w) \/ RestealMiss(w)
    <3>1. {"steal", "announce", "resteal", "check"} \subseteq WorkerStates
        BY <1>0
    <3> QED BY <2>4, <3>1, SweepType DEF StealMiss, RestealMiss
  <2>5. CASE Announce(w)
    <3>1. pc' \in [Workers -> WorkerStates] /\ parked' \in 0 .. UsizeMax
        BY <2>5, <1>0, CounterType DEF Announce, TypeOK
    <3> QED BY <3>1, <2>5 DEF Announce, TypeOK
  <2>6. CASE Retract(w) \/ Quit(w) \/ Woken(w)
      BY <2>6, <1>0, UnannounceType DEF Retract, Quit, Woken
  <2>7. CASE CheckPending(w) \/ CheckShutdown(w)
      BY <2>7, <1>0 DEF CheckPending, CheckShutdown, TypeOK
  <2>8. CASE Signal(w)
    <3>1. pc' \in [Workers -> WorkerStates]
        BY <2>8, <1>0 DEF Signal, TypeOK
    <3>2. cursor' \in [Workers -> 0 .. N]
        BY <2>8, NAssumption DEF Signal, TypeOK
    <3> QED BY <3>1, <3>2, <2>8 DEF Signal, TypeOK
  <2>9. CASE Broadcast(w) \/ Wake(w)
    <3>1. cursor[w] < N
        BY <2>9 DEF Shape, Broadcast, Wake, UnparkNext
    <3> QED BY <2>9, <3>1, <1>0, UnparkType DEF Broadcast, Wake
  <2>10. CASE Park(w)
      BY <2>10, <1>0 DEF Park, TypeOK
  <2>11. CASE ReadDir(w)
    <3>1. cur[w] \in Dirs
        BY <2>11 DEF ReadDir, Shape, TypeOK, Walk
    <3>2. PICK s \in Readings[cur[w]] :
            /\ pc' = [pc EXCEPT ![w] = IF s = <<>> THEN "sub" ELSE "add"]
            /\ kids' = [kids EXCEPT ![w] = s]
            /\ found' = found \union Range(s)
        BY <2>11 DEF ReadDir
    <3>3. s \in Seq(Dirs) /\ Range(s) \subseteq Dirs
        BY <3>1, TreeAssumption, SeqMonotonic, RangeOfSeq
    <3>4. pc' \in [Workers -> WorkerStates]
        BY <3>2, <1>0 DEF TypeOK
    <3>5. kids' \in [Workers -> Seq(Dirs)] /\ found' \subseteq Dirs
        BY <3>2, <3>3 DEF TypeOK
    <3>6. walked' \subseteq Dirs
        BY <3>1, <2>11 DEF ReadDir, TypeOK
    <3>7. UNCHANGED <<main, deque, hidden, counters, permit, cur, cursor>>
        BY <2>11 DEF ReadDir
    <3> QED BY <3>4, <3>5, <3>6, <3>7 DEF TypeOK
  <2>12. CASE ReadDirFails(w)
    <3>1. walked' \subseteq Dirs
        BY <2>12 DEF ReadDirFails, Shape, TypeOK, Walk
    <3>2. pc' \in [Workers -> WorkerStates]
        BY <2>12, <1>0 DEF ReadDirFails, TypeOK
    <3> QED BY <3>1, <3>2, <2>12 DEF ReadDirFails, TypeOK
  <2>13. CASE AddDirs(w)
    <3>1. Len(kids[w]) \in Int
        BY LenProperties DEF TypeOK
    <3>2. pending' \in 0 .. UsizeMax
        BY <2>13, <3>1, CounterType DEF AddDirs, TypeOK
    <3>3. pc' \in [Workers -> WorkerStates]
        BY <2>13, <1>0 DEF AddDirs, TypeOK
    <3> QED BY <3>2, <3>3, <2>13 DEF AddDirs, TypeOK
  <2>14. CASE Push(w)
    <3>1. deque' \in [Workers -> Seq(Dirs)] /\ kids' \in [Workers -> Seq(Dirs)]
        BY <2>14, PushInserts DEF Inserts, TypeOK
    <3>2. pc' \in [Workers -> WorkerStates]
        BY <2>14, <1>0 DEF Push, TypeOK
    <3>3. hidden' \in [Workers -> Nat]
        BY <2>14 DEF Push, TypeOK
    <3>4. UNCHANGED <<main, counters, permit, cur, cursor, history>>
        BY <2>14 DEF Push
    <3> QED BY <3>1, <3>2, <3>3, <3>4 DEF TypeOK
  <2>15. CASE MaybeUnpark(w)
    <3>1. pc' \in [Workers -> WorkerStates]
        BY <2>15, <1>0 DEF MaybeUnpark, TypeOK
    <3>2. cursor' \in [Workers -> 0 .. N]
        BY <2>15, NAssumption DEF MaybeUnpark, TypeOK
    <3> QED BY <3>1, <3>2, <2>15 DEF MaybeUnpark, TypeOK
  <2>16. CASE SubDirs(w)
    <3>1. pending' \in 0 .. UsizeMax
        BY <2>16, CounterType DEF SubDirs, TypeOK
    <3> QED BY <3>1, <2>16, <1>0 DEF SubDirs, TypeOK
  <2>17. CASE Drain(w)
      BY <2>17 DEF Drain, TypeOK
  <2> QED BY <1>5, <2>1, <2>2, <2>3, <2>4, <2>5, <2>6, <2>7, <2>8, <2>9,
             <2>10, <2>11, <2>12, <2>13, <2>14, <2>15, <2>16, <2>17 DEF Worker
<1>6. CASE UNCHANGED vars
    BY <1>6 DEF vars, TypeOK
<1> QED BY <1>1, <1>2, <1>3, <1>4, <1>5, <1>6 DEF Next, Main, Terminated

(* Obtaining a directory keeps Shape: who starts to walk has a directory   *)
(* in hand.                                                                *)
LEMMA ObtainsShape ==
  ASSUME TypeOK, Shape, NEW w \in Workers, NEW v \in Workers, NEW x \in Dirs,
         Obtains(w, v, x)
  PROVE  Shape'
<1> USE DEF Walk
<1>1. PICK p \in {"read", "retract"} : pc' = [pc EXCEPT ![w] = p]
    BY DEF Obtains
<1>2. /\ cur' = [cur EXCEPT ![w] = x]
      /\ pc[w] \in {"pop", "steal", "resteal"}
      /\ UNCHANGED <<main, hidden, kids, found, walked>>
    BY DEF Obtains, history
<1>3. /\ \A u \in Workers : u # w => cursor'[u] = cursor[u]
      /\ hidden[v] < Len(deque[v])
    BY DEF Obtains
<1>4. PICK s \in Seq(Dirs) :
         deque' = [deque EXCEPT ![v] = s] /\ Len(s) = Len(deque[v]) - 1
    BY DEF Obtains, Removes
<1>5. x # NoDir
    BY TreeAssumption
<1>6. \A u \in Workers : cur'[u] # NoDir <=> pc'[u] \in Walk \union {"retract"}
    BY <1>1, <1>2, <1>5 DEF TypeOK, Shape
<1>7. \A u \in Workers : kids'[u] # <<>> <=> pc'[u] \in {"add", "push"}
    BY <1>1, <1>2 DEF TypeOK, Shape
<1>8. \A u \in Workers : hidden'[u] <= Len(deque'[u])
  <2>1. hidden[v] \in Nat /\ Len(deque[v]) \in Nat
      BY LenProperties DEF TypeOK
  <2> HIDE DEF Walk
  <2>2. hidden[v] <= Len(s)
      BY <2>1, <1>3, <1>4
  <2> QED BY <2>2, <1>2, <1>4 DEF TypeOK, Shape
<1>9. \A u \in Workers : pc'[u] \in {"wake", "broadcast"} => cursor'[u] < N
    BY <1>1, <1>2, <1>3 DEF TypeOK, Shape
<1>10. main' \notin {"add", "push"}
    BY <1>2 DEF TypeOK, Shape
<1> QED BY <1>6, <1>7, <1>8, <1>9, <1>10 DEF Shape

(* A turn of an unpark loop keeps Shape: the index stays below N inside    *)
(* the loop.                                                               *)
LEMMA UnparkShape ==
  ASSUME TypeOK, Shape, NEW w \in Workers, NEW from \in {"wake", "broadcast"},
         NEW to \in {"sub", "done"}, UnparkNext(w, from, to),
         from = "wake" <=> to = "sub"
  PROVE  Shape'
<1>1. /\ pc[w] = from /\ cursor[w] \in 0 .. N /\ cursor[w] < N /\ N \in Nat \ {0}
    BY NAssumption DEF UnparkNext, Goto, Shape, TypeOK
<1>2. \/ /\ pc' = [pc EXCEPT ![w] = to] /\ cursor[w] = N - 1
      \/ /\ pc' = pc
         /\ cursor' = [cursor EXCEPT ![w] = cursor[w] + 1]
         /\ cursor[w] + 1 < N
  <2>1. CASE cursor[w] = N - 1
      BY <2>1 DEF UnparkNext, Goto
  <2>2. CASE cursor[w] # N - 1
    <3>1. cursor[w] + 1 < N
        BY <2>2, <1>1
    <3>2. pc' = pc /\ cursor' = [cursor EXCEPT ![w] = cursor[w] + 1]
        BY <2>2 DEF UnparkNext, Goto, TypeOK
    <3> QED BY <3>1, <3>2
  <2> QED BY <2>1, <2>2
<1>3. \A u \in Workers : u # w => cursor'[u] = cursor[u]
    BY DEF UnparkNext, TypeOK
<1>4. UNCHANGED <<main, deque, hidden, cur, kids, found, walked>>
    BY DEF UnparkNext, history
<1>5. \A u \in Workers : pc'[u] \in {"wake", "broadcast"} => cursor'[u] < N
    BY <1>1, <1>2, <1>3 DEF Shape, TypeOK
<1>6. \A u \in Workers : cur'[u] # NoDir <=> pc'[u] \in Walk \union {"retract"}
    BY <1>1, <1>2, <1>4 DEF Shape, TypeOK, Walk
<1>7. \A u \in Workers : kids'[u] # <<>> <=> pc'[u] \in {"add", "push"}
    BY <1>1, <1>2, <1>4 DEF Shape, TypeOK
<1>8. main' \notin {"add", "push"}
    BY <1>1, <1>4 DEF Shape, TypeOK
<1> QED BY <1>4, <1>5, <1>6, <1>7, <1>8 DEF Shape

(* A push keeps Shape: the drain of child_dirs ends when it is empty.      *)
LEMMA PushShape ==
  ASSUME TypeOK, Shape, NEW w \in Workers, Push(w)
  PROVE  Shape'
<1>1. PICK s \in Seq(Dirs) :
         deque' = [deque EXCEPT ![w] = s] /\ Len(s) = Len(deque[w]) + 1
    BY PushInserts DEF Inserts
<1>2. \A u \in Workers : hidden'[u] <= Len(deque'[u])
  <2>1. hidden[w] \in Nat /\ Len(deque[w]) \in Nat /\ hidden[w] <= Len(deque[w])
      BY LenProperties DEF TypeOK, Shape
  <2>2. PICK h \in {hidden[w] + 1, 0} : hidden' = [hidden EXCEPT ![w] = h]
      BY DEF Push, TypeOK
  <2>3. h <= Len(s)
      BY <2>1, <2>2, <1>1
  <2> QED BY <2>2, <2>3, <1>1 DEF TypeOK, Shape
<1>3. /\ pc' = [pc EXCEPT ![w] = IF Tail(kids[w]) = <<>> THEN "peek" ELSE "push"]
      /\ pc[w] = "push" /\ kids' = [kids EXCEPT ![w] = Tail(kids[w])]
      /\ UNCHANGED <<main, cur, cursor>>
    BY DEF Push, Goto, TypeOK
<1> DEFINE t == Tail(kids[w])
<1>4. t \in Seq(Dirs)
    BY PushInserts
<1> HIDE DEF t
<1>5. /\ pc' = [pc EXCEPT ![w] = IF t = <<>> THEN "peek" ELSE "push"]
      /\ kids' = [kids EXCEPT ![w] = t]
    BY <1>3 DEF t
<1>6. \A u \in Workers : cur'[u] # NoDir <=> pc'[u] \in Walk \union {"retract"}
    BY <1>3, <1>5 DEF TypeOK, Shape, Walk
<1>7. \A u \in Workers : kids'[u] # <<>> <=> pc'[u] \in {"add", "push"}
    BY <1>3, <1>5 DEF TypeOK, Shape
<1>8. \A u \in Workers : pc'[u] \in {"wake", "broadcast"} => cursor'[u] < N
    BY <1>3, <1>5 DEF TypeOK, Shape
<1>9. main' \notin {"add", "push"}
    BY <1>3 DEF TypeOK, Shape
<1> QED BY <1>2, <1>6, <1>7, <1>8, <1>9 DEF Shape

(* Every step keeps Shape.                                                 *)
LEMMA ShapeStep ==
  ASSUME TypeOK, Shape, [Next]_vars
  PROVE  Shape'
<1> USE DEF Goto, history, scratch, counters, threads
<1>1. CASE SeedAdd
    BY <1>1 DEF SeedAdd, Shape
<1>2. CASE SeedPush
  <2>1. PICK s \in Seq(Dirs) :
           deque' = [deque EXCEPT ![0] = s] /\ Len(s) = Len(deque[0]) + 1
      BY <1>2, SeedInserts DEF Inserts
  <2>2. 0 \in Workers /\ Len(deque[0]) \in Nat
      BY SeedInserts, <1>2, LenProperties DEF TypeOK
  <2>3. \A u \in Workers : hidden[u] <= Len(deque'[u])
    <3>1. hidden[0] \in Nat /\ hidden[0] <= Len(s)
        BY <2>1, <2>2 DEF TypeOK, Shape
    <3> QED BY <2>1, <3>1 DEF TypeOK, Shape
  <2>4. main' \notin {"add", "push"} /\ UNCHANGED <<pc, hidden, cur, kids, cursor>>
      BY <1>2 DEF SeedPush
  <2> QED BY <2>3, <2>4 DEF Shape
<1>3. ASSUME NEW w \in Workers, Spawn(w) PROVE Shape'
    BY <1>3 DEF Spawn, Shape, TypeOK, Walk
<1>4. CASE Join
    BY <1>4 DEF Join, Shape
<1>5. ASSUME NEW w \in Workers, Worker(w) PROVE Shape'
  <2>1. CASE PopHit(w)
      BY <2>1, PopObtains, ObtainsShape
  <2>2. CASE PopMiss(w)
      BY <2>2 DEF PopMiss, Shape, TypeOK, Walk
  <2>3. CASE StealHit(w) \/ RestealHit(w)
      BY <2>3, StealObtains, ObtainsShape
  <2>4. CASE StealMiss(w)
      BY <2>4 DEF StealMiss, Sweep, Shape, TypeOK, Walk
  <2>5. CASE RestealMiss(w)
      BY <2>5 DEF RestealMiss, Sweep, Shape, TypeOK, Walk
  <2>6. CASE Announce(w)
      BY <2>6 DEF Announce, Shape, TypeOK, Walk
  <2>7. CASE Retract(w) \/ Quit(w) \/ Woken(w)
      BY <2>7 DEF Retract, Quit, Woken, Unannounce, Shape, TypeOK, Walk
  <2>8. CASE CheckPending(w) \/ CheckShutdown(w)
      BY <2>8 DEF CheckPending, CheckShutdown, Shape, TypeOK, Walk
  <2>9. CASE Signal(w)
    <3>1. 0 < N
        BY NAssumption
    <3>2. cursor' = [cursor EXCEPT ![w] = 0] /\ pc' = [pc EXCEPT ![w] = "broadcast"]
          /\ pc[w] = "signal"
        BY <2>9 DEF Signal, TypeOK
    <3>3. \A u \in Workers : pc'[u] \in {"wake", "broadcast"} => cursor'[u] < N
        BY <3>1, <3>2 DEF TypeOK, Shape
    <3> QED BY <3>2, <3>3, <2>9 DEF Signal, Shape, TypeOK, Walk
  <2>10. CASE Broadcast(w) \/ Wake(w)
      BY <2>10, UnparkShape DEF Broadcast, Wake
  <2>11. CASE Park(w)
      BY <2>11 DEF Park, Shape, TypeOK, Walk
  <2>12. CASE ReadDir(w)
      BY <2>12 DEF ReadDir, Shape, TypeOK, Walk
  <2>13. CASE ReadDirFails(w)
      BY <2>13 DEF ReadDirFails, Shape, TypeOK, Walk
  <2>14. CASE AddDirs(w)
      BY <2>14 DEF AddDirs, Shape, TypeOK, Walk
  <2>15. CASE Push(w)
      BY <2>15, PushShape
  <2>16. CASE MaybeUnpark(w)
    <3>1. PICK p \in {"wake", "sub"}, k \in {0, cursor[w]} :
             /\ pc' = [pc EXCEPT ![w] = p] /\ cursor' = [cursor EXCEPT ![w] = k]
             /\ p = "wake" => k = 0
        BY <2>16 DEF MaybeUnpark, TypeOK
    <3>2. pc[w] = "peek" /\ 0 < N
        BY <2>16, NAssumption DEF MaybeUnpark
    <3>3. \A u \in Workers : pc'[u] \in {"wake", "broadcast"} => cursor'[u] < N
        BY <3>1, <3>2 DEF TypeOK, Shape
    <3> QED BY <3>1, <3>2, <3>3, <2>16 DEF MaybeUnpark, Shape, TypeOK, Walk
  <2>17. CASE SubDirs(w)
      BY <2>17 DEF SubDirs, Shape, TypeOK, Walk
  <2>18. CASE Drain(w)
      BY <2>18 DEF Drain, Shape, TypeOK
  <2> QED BY <1>5, <2>1, <2>2, <2>3, <2>4, <2>5, <2>6, <2>7, <2>8, <2>9,
             <2>10, <2>11, <2>12, <2>13, <2>14, <2>15, <2>16, <2>17, <2>18 DEF Worker
<1>6. CASE UNCHANGED vars
    BY <1>6 DEF vars, Shape
<1> QED BY <1>1, <1>2, <1>3, <1>4, <1>5, <1>6 DEF Next, Main, Terminated

-------------------------------------------------------------------------------
(* No directory is duplicated or forgotten.  The deques and the lists of   *)
(* children matter only through the sets of their entries.                 *)

queuedAt == [w \in Workers |-> Range(deque[w])]
owedBy == [w \in Workers |-> Range(kids[w])]

(* NoDuplicate, directory by directory.                                    *)
Distinct ==
  /\ \A w \in Workers : IsInjective(deque[w]) /\ IsInjective(kids[w])
  /\ \A d \in Dirs : \A v, w \in Workers :
       /\ d \in queuedAt[v] /\ d \in queuedAt[w] => v = w
       /\ d \in owedBy[v] /\ d \in owedBy[w] => v = w
       /\ cur[v] = d /\ cur[w] = d => v = w
       /\ d \in queuedAt[v] => cur[w] # d /\ d \notin walked
       /\ d \in owedBy[v] => d \notin queuedAt[w] /\ cur[w] # d /\ d \notin walked

(* Progress, in the same terms.                                            *)
Known ==
  /\ walked \subseteq found
  /\ \A w \in Workers :
       /\ queuedAt[w] \subseteq found /\ owedBy[w] \subseteq found
       /\ cur[w] # NoDir => cur[w] \in found
       /\ pc[w] \in {"read", "retract"} => cur[w] \notin walked
       /\ pc[w] \in Walk \ {"read"} => cur[w] \in walked
  /\ \A d \in found \ {Root} : Parent[d] \in walked
  /\ main \notin {"add", "push"} =>
       \A d \in found \ walked : \E w \in Workers :
         d \in queuedAt[w] \/ d \in owedBy[w] \/ cur[w] = d

(* No step but the named ones of StepKinds touches the directories.        *)
Quiet ==
  /\ UNCHANGED <<deque, kids, cur, found, walked>>
  /\ main \in {"add", "push"} <=> main' \in {"add", "push"}
  /\ \A w \in Workers :
       /\ pc'[w] \in {"read", "retract"} <=> pc[w] \in {"read", "retract"}
       /\ pc'[w] \in Walk \ {"read"} <=> pc[w] \in Walk \ {"read"}

(* ... and none of those changes what dir_pending counts.                  *)
Idle ==
  /\ Quiet
  /\ pending' = pending
  /\ main = "push" <=> main' = "push"
  /\ \A w \in Workers : pc'[w] = "push" <=> pc[w] = "push"

(* The sets of queued and of owed directories are sets of directories.     *)
LEMMA QueuedType ==
  ASSUME TypeOK
  PROVE  queuedAt \in [Workers -> SUBSET Dirs] /\ owedBy \in [Workers -> SUBSET Dirs]
BY RangeOfSeq DEF TypeOK, queuedAt, owedBy

(* A move between two states of the same kind is idle.                     *)
Unwalking == WorkerStates \ (Walk \union {"retract"})

(* A step that moves one thread between states of the same kind and leaves *)
(* the directories alone is idle.                                          *)
LEMMA IdleMove ==
  ASSUME TypeOK, NEW w \in Workers, NEW from, NEW to, Goto(w, from, to),
         \/ from \in Unwalking /\ to \in Unwalking
         \/ from \in {"peek", "wake", "sub"} /\ to \in {"peek", "wake", "sub"}
         \/ from = "retract" /\ to = "read",
         UNCHANGED <<deque, kids, cur, found, walked, pending, main>>
  PROVE  Idle
<1>1. /\ pc[w] = from /\ pc'[w] = to
      /\ \A v \in Workers : v # w => pc'[v] = pc[v]
    BY DEF Goto, TypeOK
<1>2. /\ to \in {"read", "retract"} <=> from \in {"read", "retract"}
      /\ to \in Walk \ {"read"} <=> from \in Walk \ {"read"}
      /\ to = "push" <=> from = "push"
    BY DEF Unwalking, Walk
<1> QED BY <1>1, <1>2 DEF Idle, Quiet

(* The steps, sorted by what they do to the directories.                   *)
LEMMA StepKinds ==
  ASSUME TypeOK, Shape, [Next]_vars
  PROVE  \/ Idle \/ SeedAdd \/ SeedPush
         \/ \E w, v \in Workers, x \in Dirs : Obtains(w, v, x)
         \/ \E w \in Workers :
              ReadDir(w) \/ ReadDirFails(w) \/ AddDirs(w) \/ Push(w) \/ SubDirs(w)
<1> USE DEF history, scratch, counters, threads
<1>1. {"unborn", "pop", "steal", "announce", "resteal", "check", "quit",
       "signal", "broadcast", "park", "woken", "exam", "done"} \subseteq Unwalking
    BY DEF Unwalking, WorkerStates, Walk, Announced, Quitting
<1>3. ASSUME NEW w \in Workers, Spawn(w) PROVE Idle
    BY <1>3 DEF Spawn, Goto, Idle, Quiet, TypeOK, Walk
<1>4. CASE Join
    BY <1>4 DEF Join, Idle, Quiet
<1>5. ASSUME NEW w \in Workers, Worker(w),
             ~(ReadDir(w) \/ ReadDirFails(w) \/ AddDirs(w) \/ Push(w) \/ SubDirs(w)),
             ~(\E v \in Workers, x \in Dirs : Obtains(w, v, x))
      PROVE  Idle
  <2>1. ~PopHit(w) /\ ~StealHit(w) /\ ~RestealHit(w)
      BY <1>5, PopObtains, StealObtains
  <2>2. CASE PopMiss(w)
      BY <2>2, <1>1, IdleMove DEF PopMiss
  <2>3. CASE StealMiss(w)
      BY <2>3, <1>1, IdleMove DEF StealMiss, Sweep
  <2>4. CASE RestealMiss(w)
      BY <2>4, <1>1, IdleMove DEF RestealMiss, Sweep
  <2>5. CASE Announce(w)
      BY <2>5, <1>1, IdleMove DEF Announce
  <2>6. CASE Retract(w)
      BY <2>6, <1>1, IdleMove DEF Retract, Unannounce
  <2>7. CASE Quit(w)
      BY <2>7, <1>1, IdleMove DEF Quit, Unannounce
  <2>8. CASE Woken(w)
      BY <2>8, <1>1, IdleMove DEF Woken, Unannounce
  <2>9. CASE CheckPending(w)
      BY <2>9, <1>1, IdleMove DEF CheckPending
  <2>10. CASE CheckShutdown(w)
      BY <2>10, <1>1, IdleMove DEF CheckShutdown
  <2>11. CASE Signal(w)
      BY <2>11, <1>1, IdleMove DEF Signal
  <2>12. CASE Broadcast(w)
      BY <2>12, <1>1, IdleMove DEF Broadcast, UnparkNext
  <2>13. CASE Wake(w)
      BY <2>13, <1>1, IdleMove DEF Wake, UnparkNext
  <2>14. CASE Park(w)
      BY <2>14, <1>1, IdleMove DEF Park
  <2>15. CASE MaybeUnpark(w)
      BY <2>15, <1>1, IdleMove DEF MaybeUnpark
  <2>16. CASE Drain(w)
      BY <2>16 DEF Drain, Idle, Quiet
  <2> QED BY <1>5, <2>1, <2>2, <2>3, <2>4, <2>5, <2>6, <2>7,
             <2>8, <2>9, <2>10, <2>11, <2>12, <2>13, <2>14, <2>15, <2>16 DEF Worker
<1>6. CASE UNCHANGED vars
    BY <1>6 DEF vars, Idle, Quiet
<1> QED BY <1>3, <1>4, <1>5, <1>6 DEF Next, Main, Terminated

(* A deque or a list of children that loses or gains an entry.             *)
LEMMA QueuedChange ==
  ASSUME TypeOK, NEW v \in Workers, NEW s \in Seq(Dirs),
         deque' = [deque EXCEPT ![v] = s]
  PROVE  /\ queuedAt'[v] = Range(s)
         /\ \A u \in Workers : u # v => queuedAt'[u] = queuedAt[u]
         /\ \A u \in Workers : u # v => deque'[u] = deque[u]
         /\ deque'[v] = s
BY DEF TypeOK, queuedAt

(* The same for a list of children.                                        *)
LEMMA OwedChange ==
  ASSUME TypeOK, NEW v \in Workers, NEW s \in Seq(Dirs),
         kids' = [kids EXCEPT ![v] = s]
  PROVE  /\ owedBy'[v] = Range(s)
         /\ \A u \in Workers : u # v => owedBy'[u] = owedBy[u]
         /\ \A u \in Workers : u # v => kids'[u] = kids[u]
         /\ kids'[v] = s
BY DEF TypeOK, owedBy

(* A directory that is obtained leaves the only place it was in.           *)
LEMMA ObtainsDistinct ==
  ASSUME TypeOK, Shape, Distinct, Known, NEW w \in Workers, NEW v \in Workers,
         NEW x \in Dirs, Obtains(w, v, x)
  PROVE  Distinct' /\ Known'
<1>1. /\ x \in queuedAt[v] /\ IsInjective(deque[v])
    BY DEF Obtains, Removes, queuedAt, Distinct
<1>2. PICK s \in Seq(Dirs) :
         /\ deque' = [deque EXCEPT ![v] = s]
         /\ Range(s) = queuedAt[v] \ {x} /\ IsInjective(s)
    BY <1>1 DEF Obtains, Removes, queuedAt
<1>3. /\ queuedAt'[v] = queuedAt[v] \ {x}
      /\ \A u \in Workers : u # v => queuedAt'[u] = queuedAt[u] /\ deque'[u] = deque[u]
      /\ IsInjective(deque'[v])
    BY <1>2, QueuedChange
<1>4. owedBy' = owedBy /\ UNCHANGED <<main, kids, found, walked>>
    BY DEF Obtains, owedBy, history
<1>5. /\ cur'[w] = x /\ \A u \in Workers : u # w => cur'[u] = cur[u]
      /\ cur[w] = NoDir /\ NoDir \notin Dirs
    BY TreeAssumption DEF Obtains, TypeOK, Shape, Walk
<1>6. /\ pc'[w] \in {"read", "retract"} /\ \A u \in Workers : u # w => pc'[u] = pc[u]
      /\ pc[w] \notin Walk \union {"retract"}
    BY DEF Obtains, TypeOK, Walk
<1>7. Distinct'
  <2>1. \A u \in Workers : IsInjective(deque'[u]) /\ IsInjective(kids'[u])
      BY <1>3, <1>4 DEF Distinct
  <2>2. ASSUME NEW d \in Dirs, NEW t \in Workers, NEW u \in Workers
        PROVE  /\ d \in queuedAt'[t] /\ d \in queuedAt'[u] => t = u
               /\ d \in owedBy'[t] /\ d \in owedBy'[u] => t = u
               /\ cur'[t] = d /\ cur'[u] = d => t = u
               /\ d \in queuedAt'[t] => cur'[u] # d /\ d \notin walked'
               /\ d \in owedBy'[t] => d \notin queuedAt'[u] /\ cur'[u] # d /\ d \notin walked'
      BY <1>1, <1>3, <1>4, <1>5 DEF Distinct
  <2> QED BY <2>1, <2>2 DEF Distinct
<1>8. Known'
  <2>1. x \in found /\ x \notin walked
      BY <1>1 DEF Known, Distinct
  <2>2. ASSUME NEW u \in Workers
        PROVE  /\ queuedAt'[u] \subseteq found' /\ owedBy'[u] \subseteq found'
               /\ cur'[u] # NoDir => cur'[u] \in found'
               /\ pc'[u] \in {"read", "retract"} => cur'[u] \notin walked'
               /\ pc'[u] \in Walk \ {"read"} => cur'[u] \in walked'
      BY <2>1, <1>3, <1>4, <1>5, <1>6 DEF Known, Walk
  <2>3. ASSUME main' \notin {"add", "push"}, NEW d \in found' \ walked'
        PROVE  \E u \in Workers : d \in queuedAt'[u] \/ d \in owedBy'[u] \/ cur'[u] = d
    <3>1. PICK u \in Workers : d \in queuedAt[u] \/ d \in owedBy[u] \/ cur[u] = d
        BY <2>3, <1>4 DEF Known
    <3>2. CASE d = x
        BY <3>2, <1>5
    <3>3. CASE d # x
      <4>1. d \in Dirs
          BY <1>4 DEF TypeOK
      <4>2. d \in queuedAt'[u] \/ d \in owedBy'[u] \/ cur'[u] = d
          BY <3>1, <3>3, <4>1, <1>3, <1>4, <1>5
      <4> QED BY <4>2
    <3> QED BY <3>2, <3>3
  <2> QED BY <2>2, <2>3, <1>4 DEF Known
<1> QED BY <1>7, <1>8

(* A directory that is pushed was owed by its pusher and is on no deque.   *)
LEMMA PushDistinct ==
  ASSUME TypeOK, Shape, Distinct, Known, NEW w \in Workers, Push(w)
  PROVE  Distinct' /\ Known'
<1> DEFINE x == Head(kids[w])
<1>1. x \in owedBy[w] /\ x \in Dirs /\ x \notin queuedAt[w]
      /\ IsInjective(deque[w]) /\ IsInjective(kids[w])
    BY PushInserts DEF owedBy, Distinct
<1>2. PICK s \in Seq(Dirs) :
         /\ deque' = [deque EXCEPT ![w] = s]
         /\ Range(s) = queuedAt[w] \union {x} /\ IsInjective(s)
    BY <1>1, PushInserts DEF Inserts, queuedAt
<1>3. PICK k \in Seq(Dirs) :
         /\ kids' = [kids EXCEPT ![w] = k]
         /\ Range(k) = owedBy[w] \ {x} /\ IsInjective(k)
    BY <1>1, PushInserts DEF owedBy
<1> HIDE DEF x
<1>4. /\ queuedAt'[w] = queuedAt[w] \union {x}
      /\ \A u \in Workers : u # w => queuedAt'[u] = queuedAt[u] /\ deque'[u] = deque[u]
      /\ IsInjective(deque'[w])
    BY <1>2, QueuedChange
<1>5. /\ owedBy'[w] = owedBy[w] \ {x}
      /\ \A u \in Workers : u # w => owedBy'[u] = owedBy[u] /\ kids'[u] = kids[u]
      /\ IsInjective(kids'[w])
    BY <1>3, OwedChange
<1>6. /\ UNCHANGED <<main, cur, found, walked>>
      /\ pc[w] = "push" /\ pc'[w] \in {"push", "peek"}
      /\ \A u \in Workers : u # w => pc'[u] = pc[u]
    BY DEF Push, history, Goto, TypeOK
<1>7. Distinct'
  <2>1. \A u \in Workers : IsInjective(deque'[u]) /\ IsInjective(kids'[u])
      BY <1>4, <1>5 DEF Distinct
  <2>2. ASSUME NEW d \in Dirs, NEW t \in Workers, NEW u \in Workers
        PROVE  /\ d \in queuedAt'[t] /\ d \in queuedAt'[u] => t = u
               /\ d \in owedBy'[t] /\ d \in owedBy'[u] => t = u
               /\ cur'[t] = d /\ cur'[u] = d => t = u
               /\ d \in queuedAt'[t] => cur'[u] # d /\ d \notin walked'
               /\ d \in owedBy'[t] => d \notin queuedAt'[u] /\ cur'[u] # d /\ d \notin walked'
      BY <1>1, <1>4, <1>5, <1>6 DEF Distinct
  <2> QED BY <2>1, <2>2 DEF Distinct
<1>8. Known'
  <2>2. ASSUME NEW u \in Workers
        PROVE  /\ queuedAt'[u] \subseteq found' /\ owedBy'[u] \subseteq found'
               /\ cur'[u] # NoDir => cur'[u] \in found'
               /\ pc'[u] \in {"read", "retract"} => cur'[u] \notin walked'
               /\ pc'[u] \in Walk \ {"read"} => cur'[u] \in walked'
      BY <1>1, <1>4, <1>5, <1>6 DEF Known, Walk
  <2>3. ASSUME main' \notin {"add", "push"}, NEW d \in found' \ walked'
        PROVE  \E u \in Workers : d \in queuedAt'[u] \/ d \in owedBy'[u] \/ cur'[u] = d
    <3>1. PICK u \in Workers : d \in queuedAt[u] \/ d \in owedBy[u] \/ cur[u] = d
        BY <2>3, <1>6 DEF Known
    <3>2. d \in queuedAt'[w] \/ d \in queuedAt'[u] \/ d \in owedBy'[u] \/ cur'[u] = d
        BY <3>1, <1>4, <1>5, <1>6
    <3> QED BY <3>2
  <2> QED BY <2>2, <2>3, <1>6 DEF Known
<1> QED BY <1>7, <1>8

(* A read discovers directories that nobody has met: their parent is read  *)
(* for the first time.                                                     *)
LEMMA ReadDistinct ==
  ASSUME TypeOK, Shape, Distinct, Known, NEW w \in Workers,
         NEW s \in Seq(Dirs), IsInjective(s),
         pc[w] = "read", cur[w] \in Dirs,
         \A d \in Range(s) : d # Root /\ Parent[d] = cur[w],
         \E p \in Walk \ {"read"} : pc' = [pc EXCEPT ![w] = p],
         kids' = [kids EXCEPT ![w] = s],
         found' = found \union Range(s),
         walked' = walked \union {cur[w]},
         UNCHANGED <<main, deque, cur>>
  PROVE  Distinct' /\ Known'
<1> DEFINE R == Range(s)
<1>1. R \subseteq Dirs
    BY RangeOfSeq
<1>2. /\ owedBy'[w] = R
      /\ \A u \in Workers : u # w => owedBy'[u] = owedBy[u] /\ kids'[u] = kids[u]
      /\ IsInjective(kids'[w])
    BY OwedChange
<1>3. owedBy[w] = {}
  <2>1. kids[w] = <<>>
      BY DEF Shape
  <2> QED BY <2>1 DEF owedBy, Range
<1>4. cur[w] \notin walked /\ cur[w] \in found
    BY TreeAssumption DEF Known
<1>5. R \intersect found = {}
    BY <1>4 DEF Known
<1> HIDE DEF R
<1>6. found' = found \union R /\ walked' = walked \union {cur[w]}
    BY DEF R
<1>7. queuedAt' = queuedAt /\ UNCHANGED <<main, deque, cur>>
    BY DEF queuedAt
<1>8. /\ pc'[w] \in Walk \ {"read"} /\ \A u \in Workers : u # w => pc'[u] = pc[u]
    BY DEF TypeOK
<1>9. Distinct'
  <2>1. \A u \in Workers : IsInjective(deque'[u]) /\ IsInjective(kids'[u])
      BY <1>2, <1>7 DEF Distinct
  <2>2. ASSUME NEW d \in Dirs, NEW t \in Workers, NEW u \in Workers
        PROVE  /\ d \in queuedAt'[t] /\ d \in queuedAt'[u] => t = u
               /\ cur'[t] = d /\ cur'[u] = d => t = u
               /\ d \in queuedAt'[t] => cur'[u] # d /\ d \notin walked'
      BY <1>6, <1>7 DEF Distinct
  <2>3. ASSUME NEW d \in Dirs, NEW t \in Workers, NEW u \in Workers, d \in owedBy'[t]
        PROVE  d \notin queuedAt'[u] /\ cur'[u] # d /\ d \notin walked' /\ (d \in owedBy'[u] => t = u)
    <3>1. CASE t = w
      <4>1. d \in R /\ d \notin found
          BY <2>3, <3>1, <1>2, <1>5
      <4> QED BY <3>1, <4>1, <1>2, <1>4, <1>6, <1>7, TreeAssumption DEF Known
    <3>2. CASE t # w
      <4>1. d \in owedBy[t] /\ d \in found
          BY <2>3, <3>2, <1>2 DEF Known
      <4> QED BY <3>2, <4>1, <1>2, <1>5, <1>6, <1>7 DEF Distinct
    <3> QED BY <3>1, <3>2
  <2> QED BY <2>1, <2>2, <2>3 DEF Distinct
<1>10. Known'
  <2>1. ASSUME NEW u \in Workers
        PROVE  /\ queuedAt'[u] \subseteq found' /\ owedBy'[u] \subseteq found'
               /\ cur'[u] # NoDir => cur'[u] \in found'
               /\ pc'[u] \in {"read", "retract"} => cur'[u] \notin walked'
               /\ pc'[u] \in Walk \ {"read"} => cur'[u] \in walked'
    <3>1. queuedAt'[u] \subseteq found' /\ owedBy'[u] \subseteq found'
        BY <1>2, <1>6, <1>7 DEF Known
    <3>2. cur'[u] # NoDir => cur'[u] \in found'
        BY <1>6, <1>7 DEF Known
    <3>3. CASE u = w
        BY <3>3, <3>1, <3>2, <1>6, <1>7, <1>8 DEF Walk
    <3>4. CASE u # w
      <4>1. cur[u] # cur[w]
          BY <3>4 DEF Distinct
      <4> QED BY <3>1, <3>2, <3>4, <4>1, <1>6, <1>7, <1>8 DEF Known
    <3> QED BY <3>3, <3>4
  <2>2. \A d \in found' \ {Root} : Parent[d] \in walked'
      BY <1>6 DEF Known, R
  <2>3. walked' \subseteq found'
      BY <1>4, <1>6 DEF Known
  <2>4. ASSUME main' \notin {"add", "push"}, NEW d \in found' \ walked'
        PROVE  \E u \in Workers : d \in queuedAt'[u] \/ d \in owedBy'[u] \/ cur'[u] = d
    <3>1. CASE d \in R
        BY <3>1, <1>2
    <3>2. CASE d \notin R
      <4>1. PICK u \in Workers : d \in queuedAt[u] \/ d \in owedBy[u] \/ cur[u] = d
          BY <2>4, <3>2, <1>6, <1>7 DEF Known
      <4>2. u # w \/ d \notin owedBy[u]
          BY <1>3
      <4> QED BY <4>1, <4>2, <1>2, <1>7
    <3> QED BY <3>1, <3>2
  <2> QED BY <2>1, <2>2, <2>3, <2>4 DEF Known
<1> QED BY <1>9, <1>10

(* A step that leaves the directories alone keeps them distinct.           *)
LEMMA QuietDistinct ==
  ASSUME Distinct, Known, Quiet
  PROVE  Distinct' /\ Known'
<1>1. queuedAt' = queuedAt /\ owedBy' = owedBy
    BY DEF Quiet, queuedAt, owedBy
<1> QED BY <1>1 DEF Distinct, Known, Quiet

(* sub_dirs lets go of a directory that has been walked.                   *)
LEMMA SubDistinct ==
  ASSUME TypeOK, Shape, Distinct, Known, NEW w \in Workers, SubDirs(w)
  PROVE  Distinct' /\ Known'
<1>1. /\ cur' = [cur EXCEPT ![w] = NoDir]
      /\ pc[w] = "sub" /\ pc'[w] = "pop"
      /\ \A u \in Workers : u # w => pc'[u] = pc[u] /\ cur'[u] = cur[u]
      /\ cur'[w] = NoDir
      /\ UNCHANGED <<main, deque, kids, found, walked>>
    BY DEF SubDirs, Goto, history, TypeOK
<1>2. queuedAt' = queuedAt /\ owedBy' = owedBy
    BY <1>1 DEF queuedAt, owedBy
<1>3. cur[w] \in walked /\ NoDir \notin Dirs
    BY <1>1, TreeAssumption DEF Known, Walk
<1>4. Distinct'
    BY <1>1, <1>2, <1>3 DEF Distinct
<1>5. Known'
  <2>1. ASSUME main' \notin {"add", "push"}, NEW d \in found' \ walked'
        PROVE  \E u \in Workers : d \in queuedAt'[u] \/ d \in owedBy'[u] \/ cur'[u] = d
    <3>1. PICK u \in Workers : d \in queuedAt[u] \/ d \in owedBy[u] \/ cur[u] = d
        BY <2>1, <1>1 DEF Known
    <3>2. d # cur[w]
        BY <2>1, <1>1, <1>3
    <3> QED BY <3>1, <3>2, <1>1, <1>2
  <2>2. ASSUME NEW u \in Workers
        PROVE  /\ queuedAt'[u] \subseteq found' /\ owedBy'[u] \subseteq found'
               /\ cur'[u] # NoDir => cur'[u] \in found'
               /\ pc'[u] \in {"read", "retract"} => cur'[u] \notin walked'
               /\ pc'[u] \in Walk \ {"read"} => cur'[u] \in walked'
      BY <1>1, <1>2 DEF Known, Walk
  <2> QED BY <2>1, <2>2, <1>1 DEF Known
<1> QED BY <1>4, <1>5

(* The root is pushed when no other directory is known.                    *)
LEMMA SeedDistinct ==
  ASSUME TypeOK, Shape, Distinct, Known, SeedPush
  PROVE  Distinct' /\ Known'
<1>1. /\ main = "push" /\ main' = "spawn"
      /\ UNCHANGED <<pc, cur, kids, found, walked>>
    BY DEF SeedPush, scratch, history
<1>2. /\ \A u \in Workers : pc[u] = "unborn" /\ deque[u] = <<>>
      /\ found = {Root} /\ walked = {}
    BY <1>1 DEF Shape
<1>3. \A u \in Workers : queuedAt[u] = {} /\ owedBy[u] = {} /\ cur[u] = NoDir
  <2> TAKE u \in Workers
  <2>1. kids[u] = <<>> /\ cur[u] = NoDir
      BY <1>2 DEF Shape, Walk
  <2> QED BY <2>1, <1>2 DEF queuedAt, owedBy, Range
<1>4. 0 \in Workers /\ Root \in Dirs /\ NoDir \notin Dirs
    BY SeedInserts, TreeAssumption
<1>5. PICK s \in Seq(Dirs) :
         /\ deque' = [deque EXCEPT ![0] = s]
         /\ Range(s) = queuedAt[0] \union {Root} /\ IsInjective(s)
    BY <1>3, <1>4, SeedInserts DEF Inserts, queuedAt, Distinct
<1>6. /\ queuedAt'[0] = {Root}
      /\ \A u \in Workers : u # 0 => queuedAt'[u] = {} /\ deque'[u] = deque[u]
      /\ IsInjective(deque'[0])
  <2>1. /\ queuedAt'[0] = Range(s) /\ deque'[0] = s
        /\ \A u \in Workers : u # 0 => queuedAt'[u] = queuedAt[u] /\ deque'[u] = deque[u]
      BY <1>4, <1>5, QueuedChange
  <2> QED BY <2>1, <1>3, <1>4, <1>5
<1>7. owedBy' = owedBy
    BY <1>1 DEF owedBy
<1>8. Distinct'
  <2>1. \A u \in Workers : IsInjective(deque'[u]) /\ IsInjective(kids'[u])
      BY <1>1, <1>6 DEF Distinct
  <2>2. \A u \in Workers : queuedAt'[u] = IF u = 0 THEN {Root} ELSE {}
      BY <1>6
  <2> QED BY <2>1, <2>2, <1>1, <1>2, <1>3, <1>4, <1>7 DEF Distinct
<1>9. Known'
  <2>1. \A u \in Workers : queuedAt'[u] \subseteq found'
      BY <1>1, <1>2, <1>6
  <2>2. Root \in queuedAt'[0]
      BY <1>6
  <2> QED BY <2>1, <2>2, <1>1, <1>2, <1>3, <1>4, <1>7 DEF Known, Walk
<1> QED BY <1>8, <1>9

(* Every step keeps the directories distinct and known.                    *)
LEMMA DistinctStep ==
  ASSUME TypeOK, Shape, Distinct, Known, [Next]_vars
  PROVE  Distinct' /\ Known'
<1>1. CASE Idle
    BY <1>1, QuietDistinct DEF Idle
<1>2. CASE SeedAdd
    BY <1>2, QuietDistinct DEF SeedAdd, Quiet, scratch, history
<1>3. CASE SeedPush
    BY <1>3, SeedDistinct
<1>4. CASE \E w, v \in Workers, x \in Dirs : Obtains(w, v, x)
    BY <1>4, ObtainsDistinct
<1>5. ASSUME NEW w \in Workers, ReadDir(w) PROVE Distinct' /\ Known'
  <2>1. cur[w] \in Dirs /\ pc[w] = "read"
      BY <1>5 DEF ReadDir, Shape, TypeOK, Walk
  <2>2. PICK s \in Readings[cur[w]] :
          /\ pc' = [pc EXCEPT ![w] = IF s = <<>> THEN "sub" ELSE "add"]
          /\ kids' = [kids EXCEPT ![w] = s]
          /\ found' = found \union Range(s)
      BY <1>5 DEF ReadDir
  <2>3. s \in Seq(Dirs \ {Root}) /\ IsInjective(s) /\ \A i \in DOMAIN s : Parent[s[i]] = cur[w]
      BY <2>1, TreeAssumption
  <2>4. s \in Seq(Dirs) /\ Range(s) \subseteq Dirs \ {Root}
      BY <2>3, SeqMonotonic, RangeOfSeq
  <2>5. \A d \in Range(s) : d # Root /\ Parent[d] = cur[w]
      BY <2>3, <2>4 DEF Range
  <2>6. \E p \in Walk \ {"read"} : pc' = [pc EXCEPT ![w] = p]
    <3>1. {"sub", "add"} \subseteq Walk \ {"read"}
        BY DEF Walk
    <3>2. CASE s = <<>>
        BY <2>2, <3>1, <3>2
    <3>3. CASE s # <<>>
        BY <2>2, <3>1, <3>3
    <3> QED BY <3>2, <3>3
  <2>7. walked' = walked \union {cur[w]} /\ UNCHANGED <<main, deque, cur>>
      BY <1>5 DEF ReadDir
  <2> QED BY <2>1, <2>2, <2>3, <2>4, <2>5, <2>6, <2>7, ReadDistinct
<1>6. ASSUME NEW w \in Workers, ReadDirFails(w) PROVE Distinct' /\ Known'
  <2>1. cur[w] \in Dirs /\ pc[w] = "read" /\ kids[w] = <<>>
      BY <1>6 DEF ReadDirFails, Goto, Shape, TypeOK, Walk
  <2>2. <<>> \in Seq(Dirs) /\ IsInjective(<<>>) /\ Range(<<>>) = {}
      BY DEF IsInjective, Range
  <2>3. kids' = [kids EXCEPT ![w] = <<>>]
      BY <1>6, <2>1 DEF ReadDirFails, scratch, TypeOK
  <2>4. /\ \E p \in Walk \ {"read"} : pc' = [pc EXCEPT ![w] = p]
        /\ walked' = walked \union {cur[w]} /\ UNCHANGED <<main, deque, cur>>
        /\ found' = found
      BY <1>6 DEF ReadDirFails, Goto, Walk, scratch
  <2>5. found' = found \union Range(<<>>) /\ \A d \in Range(<<>>) : d # Root /\ Parent[d] = cur[w]
      BY <2>2, <2>4
  <2> QED BY <2>1, <2>2, <2>3, <2>4, <2>5, ReadDistinct
<1>7. ASSUME NEW w \in Workers, AddDirs(w) PROVE Distinct' /\ Known'
    BY <1>7, QuietDistinct DEF AddDirs, Goto, Quiet, Walk, scratch, history, TypeOK
<1>8. ASSUME NEW w \in Workers, Push(w) PROVE Distinct' /\ Known'
    BY <1>8, PushDistinct
<1>9. ASSUME NEW w \in Workers, SubDirs(w) PROVE Distinct' /\ Known'
    BY <1>9, SubDistinct
<1> QED BY <1>1, <1>2, <1>3, <1>4, <1>5, <1>6, <1>7, <1>8, <1>9, StepKinds

(* They are distinct and known at the start.                               *)
LEMMA DistinctInit ==
  ASSUME Init
  PROVE  Distinct /\ Known
<1>1. IsInjective(<<>>) /\ Range(<<>>) = {}
    BY DEF IsInjective, Range
<1>2. \A w \in Workers : queuedAt[w] = {} /\ owedBy[w] = {}
    BY <1>1 DEF Init, queuedAt, owedBy
<1> QED BY <1>1, <1>2, TreeAssumption DEF Init, Distinct, Known, Walk

-------------------------------------------------------------------------------
(* dir_pending is the number of directories in hand.                       *)

(* d is counted in the state, resp. in the next one.                       *)
LEMMA CountedMember ==
  ASSUME NEW d
  PROVE  /\ d \in Counted <=>
              \/ \E u \in Workers : d \in queuedAt[u]
              \/ d # NoDir /\ \E u \in Workers : cur[u] = d
              \/ \E u \in Workers : pc[u] = "push" /\ d \in owedBy[u]
              \/ main = "push" /\ d = Root
         /\ d \in Counted' <=>
              \/ \E u \in Workers : d \in queuedAt'[u]
              \/ d # NoDir /\ \E u \in Workers : cur'[u] = d
              \/ \E u \in Workers : pc'[u] = "push" /\ d \in owedBy'[u]
              \/ main' = "push" /\ d = Root
BY DEF Counted, Queued, Held, Publishing, Seeding, queuedAt, owedBy

(* What dir_pending counts is a finite set of directories.                 *)
LEMMA CountedType ==
  ASSUME TypeOK
  PROVE  Counted \subseteq Dirs
<1> SUFFICES ASSUME NEW d \in Counted PROVE d \in Dirs
    OBVIOUS
<1>1. /\ queuedAt \in [Workers -> SUBSET Dirs] /\ owedBy \in [Workers -> SUBSET Dirs]
      /\ cur \in [Workers -> Dirs \union {NoDir}] /\ Root \in Dirs
    BY QueuedType, TreeAssumption DEF TypeOK
<1> QED BY <1>1, CountedMember

(* No set of directories is larger than a usize can count.                 *)
LEMMA DirsCardinality ==
  ASSUME NEW S, S \subseteq Dirs
  PROVE  IsFiniteSet(S) /\ Cardinality(S) \in 0 .. UsizeMax
<1>1. IsFiniteSet(S) /\ Cardinality(S) <= Cardinality(Dirs)
    BY TreeAssumption, FS_Subset
<1>2. Cardinality(S) \in Nat /\ Cardinality(Dirs) \in Nat
    BY <1>1, TreeAssumption, FS_CardinalityType
<1> QED BY <1>1, <1>2, WidthAssumption

(* The counters do not wrap as long as the results fit.                    *)
LEMMA NoWrap ==
  ASSUME NEW x \in Nat, NEW n \in Nat
  PROVE  /\ x + n \in 0 .. UsizeMax => Add(x, n) = x + n
         /\ x - n \in 0 .. UsizeMax => Sub(x, n) = x - n
BY WidthAssumption DEF Add, Sub

(* Every step keeps dir_pending exact.                                     *)
LEMMA PendingStep ==
  ASSUME TypeOK, Shape, Distinct, Known, PendingExact, [Next]_vars
  PROVE  PendingExact'
<1> USE DEF history, scratch, counters, threads
<1>a. NoDir \notin Dirs /\ Root \in Dirs
    BY TreeAssumption
<1>1. CASE Idle
  <2>1. queuedAt' = queuedAt /\ owedBy' = owedBy
      BY <1>1 DEF Idle, Quiet, queuedAt, owedBy
  <2>2. ASSUME NEW d PROVE d \in Counted' <=> d \in Counted
      BY <2>1, <1>1, CountedMember DEF Idle, Quiet
  <2>3. Counted' = Counted /\ pending' = pending
      BY <2>2, <1>1 DEF Idle
  <2> QED BY <2>3 DEF PendingExact
<1>2. CASE SeedAdd
  <2>1. \A u \in Workers : queuedAt[u] = {} /\ owedBy[u] = {} /\ cur[u] = NoDir
    <3> TAKE u \in Workers
    <3>1. kids[u] = <<>> /\ cur[u] = NoDir /\ deque[u] = <<>>
        BY <1>2 DEF SeedAdd, Shape, Walk
    <3> QED BY <3>1 DEF queuedAt, owedBy, Range
  <2>2. /\ main = "add" /\ main' = "push" /\ UNCHANGED <<deque, kids, cur, pc>>
        /\ pending' = Add(pending, 1)
      BY <1>2 DEF SeedAdd
  <2>3. queuedAt' = queuedAt /\ owedBy' = owedBy
      BY <2>2 DEF queuedAt, owedBy
  <2>4. Counted = {}
      BY <2>1, <2>2, CountedMember
  <2>5. ASSUME NEW d PROVE d \in Counted' <=> d = Root
      BY <2>1, <2>2, <2>3, CountedMember
  <2>6. Counted' = {Root}
      BY <2>5
  <2>7. pending = 0 /\ Cardinality({Root}) = 1
      BY <2>4, FS_EmptySet, FS_Singleton DEF PendingExact
  <2>8. 0 + 1 \in 0 .. UsizeMax
      BY <2>7, <1>a, DirsCardinality
  <2>9. Add(0, 1) = 1
      BY <2>8, NoWrap
  <2> QED BY <2>2, <2>6, <2>7, <2>9 DEF PendingExact
<1>3. CASE SeedPush
  <2>1. 0 \in Workers
      BY <1>3, SeedInserts
  <2>2. /\ main = "push" /\ main' = "spawn" /\ UNCHANGED <<pc, cur, kids, pending>>
        /\ \A u \in Workers : pc[u] = "unborn"
      BY <1>3 DEF SeedPush, Shape
  <2>3. PICK s \in Seq(Dirs) :
           /\ deque' = [deque EXCEPT ![0] = s]
           /\ Range(s) = queuedAt[0] \union {Root}
      BY <2>1, <1>3, SeedInserts DEF Inserts, queuedAt
  <2>4. queuedAt'[0] = Range(s) /\ \A u \in Workers : u # 0 => queuedAt'[u] = queuedAt[u]
      BY <2>1, <2>3, QueuedChange
  <2>5. \A d : (\E u \in Workers : d \in queuedAt'[u])
                 <=> (\E u \in Workers : d \in queuedAt[u]) \/ d = Root
      BY <2>1, <2>3, <2>4
  <2>6. ASSUME NEW d PROVE d \in Counted' <=> d \in Counted
      BY <2>2, <2>5, CountedMember
  <2>7. Counted' = Counted
      BY <2>6
  <2> QED BY <2>2, <2>7 DEF PendingExact
<1>4. ASSUME NEW w \in Workers, NEW v \in Workers, NEW x \in Dirs, Obtains(w, v, x)
      PROVE  PendingExact'
  <2>1. x \in queuedAt[v] /\ IsInjective(deque[v])
      BY <1>4 DEF Obtains, Removes, queuedAt, Distinct
  <2>2. PICK s \in Seq(Dirs) :
           deque' = [deque EXCEPT ![v] = s] /\ Range(s) = queuedAt[v] \ {x}
      BY <2>1, <1>4 DEF Obtains, Removes, queuedAt
  <2>3. queuedAt'[v] = queuedAt[v] \ {x}
        /\ \A u \in Workers : u # v => queuedAt'[u] = queuedAt[u]
      BY <2>2, QueuedChange
  <2>4. owedBy' = owedBy /\ UNCHANGED <<main, pending>>
      BY <1>4 DEF Obtains, owedBy
  <2>5. /\ cur'[w] = x /\ \A u \in Workers : u # w => cur'[u] = cur[u]
        /\ cur[w] = NoDir
        /\ \A u \in Workers : pc'[u] = "push" <=> pc[u] = "push"
      BY <1>4 DEF Obtains, TypeOK, Shape, Walk
  <2>6. ASSUME NEW d PROVE d \in Counted' <=> d \in Counted
    <3>1. CASE d = x
        BY <3>1, <2>1, <2>5, <1>a, CountedMember
    <3>2. CASE d # x
      <4>1. (\E u \in Workers : d \in queuedAt'[u]) <=> (\E u \in Workers : d \in queuedAt[u])
          BY <3>2, <2>3
      <4>2. (d # NoDir /\ \E u \in Workers : cur'[u] = d)
              <=> (d # NoDir /\ \E u \in Workers : cur[u] = d)
          BY <3>2, <2>5
      <4> QED BY <4>1, <4>2, <2>4, <2>5, CountedMember
    <3> QED BY <3>1, <3>2
  <2>7. Counted' = Counted
      BY <2>6
  <2> QED BY <2>4, <2>7 DEF PendingExact
<1>5. ASSUME NEW w \in Workers, ReadDir(w) \/ ReadDirFails(w) PROVE PendingExact'
  <2>1. /\ UNCHANGED <<main, deque, cur, pending>>
        /\ pc[w] = "read" /\ pc'[w] # "push"
        /\ \A u \in Workers : u # w => pc'[u] = pc[u] /\ kids'[u] = kids[u]
      BY <1>5 DEF ReadDir, ReadDirFails, Goto, TypeOK
  <2>2. queuedAt' = queuedAt /\ \A u \in Workers : u # w => owedBy'[u] = owedBy[u]
      BY <2>1 DEF queuedAt, owedBy
  <2>3. ASSUME NEW d PROVE d \in Counted' <=> d \in Counted
      BY <2>1, <2>2, CountedMember
  <2>4. Counted' = Counted
      BY <2>3
  <2> QED BY <2>1, <2>4 DEF PendingExact
<1>6. ASSUME NEW w \in Workers, AddDirs(w) PROVE PendingExact'
  <2>1. /\ UNCHANGED <<main, deque, cur, kids>>
        /\ pc[w] = "add" /\ pc'[w] = "push"
        /\ \A u \in Workers : u # w => pc'[u] = pc[u]
        /\ pending' = Add(pending, Len(kids[w]))
      BY <1>6 DEF AddDirs, Goto, TypeOK
  <2>2. queuedAt' = queuedAt /\ owedBy' = owedBy
      BY <2>1 DEF queuedAt, owedBy
  <2>3. \A d : d \in Counted' <=> d \in Counted \/ d \in owedBy[w]
    <3> TAKE d
    <3> QED BY <2>1, <2>2, CountedMember
  <2>4. Counted' = Counted \union owedBy[w]
      BY <2>3
  <2>5. owedBy[w] \subseteq Dirs /\ Counted \subseteq Dirs
      BY QueuedType, CountedType
  <2>6. Counted \intersect owedBy[w] = {}
    <3> SUFFICES ASSUME NEW d \in Dirs, d \in owedBy[w] PROVE d \notin Counted
        BY <2>5
    <3>1. main # "push"
        BY <2>1 DEF Shape
    <3> QED BY <3>1, <2>1, CountedMember DEF Distinct
  <2>7. IsFiniteSet(owedBy[w]) /\ Cardinality(owedBy[w]) = Len(kids[w])
      BY InjectiveCardinality DEF owedBy, TypeOK, Distinct
  <2>8. /\ IsFiniteSet(Counted) /\ Cardinality(Counted) \in Nat
        /\ Cardinality(owedBy[w]) \in Nat
        /\ Cardinality(Counted') \in 0 .. UsizeMax
      BY <2>4, <2>5, <2>7, DirsCardinality, FS_CardinalityType
  <2>9. Cardinality(Counted \intersect owedBy[w]) = 0
      BY <2>6, FS_EmptySet
  <2>10. Cardinality(Counted') = Cardinality(Counted) + Cardinality(owedBy[w])
    <3>1. Cardinality(Counted \union owedBy[w])
            = Cardinality(Counted) + Cardinality(owedBy[w])
                - Cardinality(Counted \intersect owedBy[w])
        BY <2>7, <2>8, FS_Union
    <3> QED BY <3>1, <2>4, <2>8, <2>9
  <2>11. Add(Cardinality(Counted), Cardinality(owedBy[w]))
           = Cardinality(Counted) + Cardinality(owedBy[w])
      BY <2>8, <2>10, NoWrap
  <2> QED BY <2>1, <2>7, <2>10, <2>11 DEF PendingExact
<1>7. ASSUME NEW w \in Workers, Push(w) PROVE PendingExact'
  <2> DEFINE x == Head(kids[w])
  <2>1. x \in owedBy[w] /\ x \in Dirs
      BY <1>7, PushInserts DEF owedBy
  <2>2. PICK s \in Seq(Dirs) :
           deque' = [deque EXCEPT ![w] = s] /\ Range(s) = queuedAt[w] \union {x}
      BY <1>7, PushInserts DEF Inserts, queuedAt
  <2>3. PICK k \in Seq(Dirs) :
           /\ kids' = [kids EXCEPT ![w] = k] /\ Range(k) = owedBy[w] \ {x}
           /\ k = Tail(kids[w])
      BY <1>7, PushInserts DEF Distinct, owedBy
  <2> HIDE DEF x
  <2>4. /\ queuedAt'[w] = queuedAt[w] \union {x}
        /\ \A u \in Workers : u # w => queuedAt'[u] = queuedAt[u]
      BY <2>2, QueuedChange
  <2>5. /\ owedBy'[w] = owedBy[w] \ {x}
        /\ \A u \in Workers : u # w => owedBy'[u] = owedBy[u]
      BY <2>3, OwedChange
  <2>6. /\ UNCHANGED <<main, cur, pending>>
        /\ pc[w] = "push" /\ \A u \in Workers : u # w => pc'[u] = pc[u]
        /\ pc'[w] = IF k = <<>> THEN "peek" ELSE "push"
      BY <1>7, <2>3 DEF Push, Goto, TypeOK
  <2>7. pc'[w] # "push" => owedBy'[w] = {}
    <3>1. k = <<>> => Range(k) = {}
        BY DEF Range
    <3> QED BY <3>1, <2>3, <2>5, <2>6
  <2>8. ASSUME NEW d PROVE d \in Counted' <=> d \in Counted
    <3>1. CASE d = x
        BY <3>1, <2>1, <2>4, <2>6, CountedMember
    <3>2. CASE d # x
      <4>1. (\E u \in Workers : d \in queuedAt'[u]) <=> (\E u \in Workers : d \in queuedAt[u])
          BY <3>2, <2>4
      <4>2. (\E u \in Workers : pc'[u] = "push" /\ d \in owedBy'[u])
              <=> (\E u \in Workers : pc[u] = "push" /\ d \in owedBy[u])
          BY <3>2, <2>5, <2>6, <2>7
      <4> QED BY <4>1, <4>2, <2>6, CountedMember
    <3> QED BY <3>1, <3>2
  <2>9. Counted' = Counted
      BY <2>8
  <2> QED BY <2>6, <2>9 DEF PendingExact
<1>8. ASSUME NEW w \in Workers, SubDirs(w) PROVE PendingExact'
  <2>1. /\ UNCHANGED <<main, deque, kids>>
        /\ pc[w] = "sub" /\ pc'[w] = "pop"
        /\ \A u \in Workers : u # w => pc'[u] = pc[u] /\ cur'[u] = cur[u]
        /\ cur'[w] = NoDir
        /\ pending' = Sub(pending, 1)
      BY <1>8 DEF SubDirs, Goto, TypeOK
  <2> DEFINE x == cur[w]
  <2>2. queuedAt' = queuedAt /\ owedBy' = owedBy
      BY <2>1 DEF queuedAt, owedBy
  <2>3. x \in Dirs /\ main # "push"
      BY <2>1 DEF Shape, TypeOK, Walk
  <2>4. \A d : d \in Counted' <=> d \in Counted /\ d # x
    <3> TAKE d
    <3>1. CASE d = x
      <4>1. ~(\E u \in Workers : d \in queuedAt[u]) /\ ~(\E u \in Workers : d \in owedBy[u])
            /\ ~(\E u \in Workers : cur'[u] = d)
          BY <3>1, <2>1, <2>3, <1>a DEF Distinct
      <4> QED BY <3>1, <4>1, <2>1, <2>2, <2>3, CountedMember
    <3>2. CASE d # x
        BY <3>2, <2>1, <2>2, CountedMember
    <3> QED BY <3>1, <3>2
  <2>5. x \in Counted /\ Counted' = Counted \ {x}
      BY <2>3, <2>4, <1>a, CountedMember
  <2> HIDE DEF x
  <2>6. IsFiniteSet(Counted) /\ Cardinality(Counted) \in 0 .. UsizeMax
      BY CountedType, DirsCardinality
  <2>7. Cardinality(Counted') = Cardinality(Counted) - 1
      BY <2>5, <2>6, FS_RemoveElement
  <2>8. Cardinality(Counted') \in 0 .. UsizeMax
    <3>1. Counted' \subseteq Dirs
        BY <2>5, CountedType
    <3> QED BY <3>1, DirsCardinality
  <2>9. Sub(Cardinality(Counted), 1) = Cardinality(Counted) - 1
      BY <2>6, <2>7, <2>8, NoWrap
  <2> QED BY <2>1, <2>7, <2>9 DEF PendingExact
<1> QED BY <1>1, <1>2, <1>3, <1>4, <1>5, <1>6, <1>7, <1>8, StepKinds

-------------------------------------------------------------------------------
(* The inductive invariant of the pool and what follows from it.           *)

PoolInv ==
  /\ TypeOK
  /\ Shape
  /\ Distinct
  /\ Known
  /\ PendingExact

(* The inductive invariant holds of Pool::new.                             *)
LEMMA PoolInvInit ==
  ASSUME Init
  PROVE  PoolInv
<1>1. TypeOK /\ Shape
  <2>1. /\ <<>> \in Seq(Dirs) /\ Len(<<>>) = 0 /\ 1 \in 0 .. N /\ Root \in Dirs
        /\ 0 \in 0 .. UsizeMax
      BY NAssumption, TreeAssumption, WidthAssumption, EmptySeq
  <2>2. TypeOK
      BY <2>1 DEF Init, TypeOK, MainStates, WorkerStates
  <2>3. Shape
      BY <2>1 DEF Init, Shape, Walk
  <2> QED BY <2>2, <2>3
<1>2. Distinct /\ Known
    BY DistinctInit
<1>3. PendingExact
  <2>1. \A u \in Workers : queuedAt[u] = {}
      BY DEF Init, queuedAt, Range
  <2>2. ASSUME NEW d PROVE d \notin Counted
      BY <2>1, CountedMember DEF Init
  <2>3. Counted = {}
      BY <2>2
  <2> QED BY <2>3, FS_EmptySet DEF PendingExact, Init
<1> QED BY <1>1, <1>2, <1>3 DEF PoolInv

(* Every step keeps the inductive invariant.                               *)
LEMMA PoolInvStep ==
  ASSUME PoolInv, [Next]_vars
  PROVE  PoolInv'
BY TypeStep, ShapeStep, DistinctStep, PendingStep DEF PoolInv

(* Types, shape, distinctness and the exactness of dir_pending hold        *)
(* together in every state of the pool.                                    *)
THEOREM PoolInvariant == Safe => []PoolInv
<1>1. Init => PoolInv
    BY PoolInvInit
<1>2. PoolInv /\ [Next]_vars => PoolInv'
    BY PoolInvStep
<1> QED BY <1>1, <1>2, PTL DEF Safe

(* Every variable stays in its type: no worker indexes a peer or an        *)
(* unparker out of range or takes from an empty deque (queue.rs:98-117),   *)
(* whatever the number of workers and the tree.                            *)
THEOREM TypeCorrect == Safe => []TypeOK
<1>1. PoolInv => TypeOK
    BY DEF PoolInv
<1> QED BY <1>1, PoolInvariant, PTL

(* dir_pending is exactly the number of directories that are queued, being *)
(* walked or about to be pushed: sub_dirs never underflows                 *)
(* (queue.rs:12-19, walker.rs:178-189).                                    *)
THEOREM PendingCorrect == Safe => []PendingExact
<1>1. PoolInv => PendingExact
    BY DEF PoolInv
<1> QED BY <1>1, PoolInvariant, PTL

(* Pops, steals and pushes never duplicate a directory, and none waits to  *)
(* be walked a second time (queue.rs:98-111, 128-141).                     *)
THEOREM NoDuplicateCorrect == Safe => []NoDuplicate
<1>1. PoolInv => NoDuplicate
  <2> SUFFICES ASSUME PoolInv PROVE NoDuplicate
      OBVIOUS
  <2>1. Distinct /\ queuedAt \in [Workers -> SUBSET Dirs]
        /\ owedBy \in [Workers -> SUBSET Dirs]
        /\ cur \in [Workers -> Dirs \union {NoDir}]
      BY QueuedType DEF PoolInv, TypeOK
  <2>2. \A u \in Workers : queuedAt[u] = Range(deque[u]) /\ owedBy[u] = Range(kids[u])
      BY DEF queuedAt, owedBy
  <2>3. ASSUME NEW v \in Workers, NEW w \in Workers, v # w
        PROVE  /\ Range(deque[v]) \intersect Range(deque[w]) = {}
               /\ Range(kids[v]) \intersect Range(kids[w]) = {}
               /\ cur[v] = cur[w] => cur[v] = NoDir
    <3>1. queuedAt[v] \intersect queuedAt[w] = {}
        BY <2>1, <2>3 DEF Distinct
    <3>2. owedBy[v] \intersect owedBy[w] = {}
        BY <2>1, <2>3 DEF Distinct
    <3>3. cur[v] = cur[w] => cur[v] = NoDir
        BY <2>1, <2>3 DEF Distinct
    <3> QED BY <3>1, <3>2, <3>3, <2>2
  <2>4. \A d : d \in Queued <=> \E u \in Workers : d \in queuedAt[u]
      BY <2>2 DEF Queued
  <2>5. \A d : d \in Held <=> d # NoDir /\ \E u \in Workers : cur[u] = d
      BY DEF Held
  <2>6. Queued \intersect (Held \union walked) = {}
      BY <2>1, <2>4, <2>5 DEF Distinct
  <2>7. ASSUME NEW w \in Workers
        PROVE  Range(kids[w]) \intersect (Queued \union Held \union walked) = {}
    <3>1. owedBy[w] \intersect (Queued \union Held \union walked) = {}
        BY <2>1, <2>4, <2>5 DEF Distinct
    <3> QED BY <3>1, <2>2
  <2>8. \A w \in Workers : IsInjective(deque[w]) /\ IsInjective(kids[w])
      BY <2>1 DEF Distinct
  <2> QED BY <2>3, <2>6, <2>7, <2>8 DEF NoDuplicate
<1> QED BY <1>1, PoolInvariant, PTL

-------------------------------------------------------------------------------
(* Quiescence.                                                             *)

Over == shutdown \/ \E w \in Workers : pc[w] \in Quitting

(* Zero in dir_pending means that everything discovered has been walked.   *)
LEMMA ZeroMeansDone ==
  ASSUME PoolInv, pending = 0, main \notin {"add", "push"}
  PROVE  Counted = {} /\ found \subseteq walked
<1>1. Counted = {}
  <2>1. IsFiniteSet(Counted)
      BY CountedType, DirsCardinality DEF PoolInv
  <2> QED BY <2>1, FS_EmptySet DEF PoolInv, PendingExact
<1>2. ASSUME NEW d \in found \ walked PROVE FALSE
  <2>1. PICK u \in Workers : d \in queuedAt[u] \/ d \in owedBy[u] \/ cur[u] = d
      BY <1>2 DEF PoolInv, Known
  <2>2. d \in Dirs /\ d # NoDir
      BY TreeAssumption DEF PoolInv, TypeOK
  <2>3. d \in owedBy[u] /\ pc[u] # "push"
      BY <2>1, <2>2, <1>1, CountedMember
  <2>4. kids[u] # <<>>
      BY <2>3 DEF owedBy, Range
  <2>5. pc[u] = "add"
      BY <2>3, <2>4 DEF PoolInv, Shape
  <2>6. cur[u] \in Dirs /\ cur[u] # NoDir
      BY <2>5, TreeAssumption DEF PoolInv, Shape, TypeOK, Walk
  <2>7. cur[u] \in Counted
      BY <2>6, CountedMember
  <2> QED BY <2>7, <1>1
<1> QED BY <1>1, <1>2

(* A worker that leaves has seen zero, or comes after one that had.        *)
LEMMA OverStep ==
  ASSUME TypeOK, [Next]_vars, Over'
  PROVE  Over \/ \E w \in Workers : CheckPending(w) /\ pending = 0
<1> USE DEF history, scratch, counters, threads
<1>1. SUFFICES ASSUME ~Over PROVE \E w \in Workers : CheckPending(w) /\ pending = 0
    OBVIOUS
<1>2. ~shutdown /\ \A u \in Workers : pc[u] \notin Quitting
    BY <1>1 DEF Over
<1>3. ASSUME UNCHANGED shutdown, NEW w \in Workers, NEW from, NEW to,
             Goto(w, from, to), to \notin Quitting
      PROVE  FALSE
    BY <1>2, <1>3 DEF Goto, Over, TypeOK
<1>4. ASSUME UNCHANGED <<shutdown, pc>> PROVE FALSE
    BY <1>2, <1>4 DEF Over
<1>5. \A to \in {"pop", "steal", "announce", "resteal", "check", "park", "woken", "exam",
                 "done", "read", "retract", "add", "push", "peek", "wake", "sub"} :
        to \notin Quitting
    BY DEF Quitting
<1>6. CASE SeedAdd \/ SeedPush \/ Join
    BY <1>6, <1>4 DEF SeedAdd, SeedPush, Join
<1>7. ASSUME NEW w \in Workers, Spawn(w) PROVE FALSE
    BY <1>7, <1>3, <1>5 DEF Spawn
<1>8. ASSUME NEW w \in Workers, Worker(w) PROVE CheckPending(w) /\ pending = 0
  <2>1. CASE PopHit(w) \/ PopMiss(w)
      BY <2>1, <1>3, <1>5 DEF PopHit, PopMiss
  <2>2. CASE StealHit(w) \/ RestealHit(w)
      BY <2>2, <1>3, <1>5 DEF StealHit, RestealHit, Take
  <2>3. CASE StealMiss(w)
      BY <2>3, <1>3, <1>5 DEF StealMiss, Sweep
  <2>4. CASE RestealMiss(w)
      BY <2>4, <1>3, <1>5 DEF RestealMiss, Sweep
  <2>5. CASE Announce(w)
      BY <2>5, <1>3, <1>5 DEF Announce
  <2>6. CASE Retract(w)
      BY <2>6, <1>3, <1>5 DEF Retract, Unannounce
  <2>7. CASE Woken(w)
      BY <2>7, <1>3, <1>5 DEF Woken, Unannounce
  <2>8. CASE Quit(w) \/ Signal(w) \/ Broadcast(w)
    <3>1. pc[w] \in Quitting
        BY <2>8 DEF Quit, Unannounce, Signal, Broadcast, UnparkNext, Goto, Quitting
    <3> QED BY <3>1, <1>2
  <2>9. CASE CheckPending(w)
    <3>1. CASE pending = 0
        BY <2>9, <3>1
    <3>2. CASE pending # 0
        BY <2>9, <3>2, <1>3, <1>5 DEF CheckPending
    <3> QED BY <3>1, <3>2
  <2>10. CASE CheckShutdown(w)
      BY <2>10, <1>3, <1>5 DEF CheckShutdown
  <2>11. CASE Park(w)
      BY <2>11, <1>3, <1>5 DEF Park
  <2>12. CASE ReadDir(w)
    <3>1. \E to \in {"sub", "add"} : pc' = [pc EXCEPT ![w] = to]
        BY <2>12 DEF ReadDir
    <3>2. \A u \in Workers : pc'[u] \notin Quitting
        BY <3>1, <1>2, <1>5 DEF TypeOK
    <3> QED BY <3>2, <2>12, <1>2 DEF ReadDir, Over
  <2>13. CASE ReadDirFails(w)
      BY <2>13, <1>3, <1>5 DEF ReadDirFails
  <2>14. CASE AddDirs(w)
      BY <2>14, <1>3, <1>5 DEF AddDirs
  <2>15. CASE Push(w)
      BY <2>15, <1>3, <1>5 DEF Push
  <2>16. CASE MaybeUnpark(w)
      BY <2>16, <1>3, <1>5 DEF MaybeUnpark
  <2>17. CASE Wake(w)
      BY <2>17, <1>3, <1>5 DEF Wake, UnparkNext
  <2>18. CASE SubDirs(w)
      BY <2>18, <1>3, <1>5 DEF SubDirs
  <2>19. CASE Drain(w)
      BY <2>19, <1>4 DEF Drain
  <2> QED BY <1>8, <2>1, <2>2, <2>3, <2>4, <2>5, <2>6, <2>7, <2>8, <2>9, <2>10, <2>11,
             <2>12, <2>13, <2>14, <2>15, <2>16, <2>17, <2>18, <2>19 DEF Worker
<1>9. CASE UNCHANGED vars
    BY <1>9, <1>4 DEF vars
<1> QED BY <1>6, <1>7, <1>8, <1>9 DEF Next, Main, Terminated

(* When nothing is left, nothing happens to the directories any more.      *)
LEMMA NothingLeft ==
  ASSUME PoolInv, [Next]_vars, Counted = {}, main \notin {"add", "push"}
  PROVE  Counted' = {} /\ UNCHANGED <<found, walked>>
<1>1. \A u \in Workers : queuedAt[u] = {}
  <2> SUFFICES ASSUME NEW u \in Workers, NEW d \in queuedAt[u] PROVE FALSE
      BY QueuedType DEF PoolInv
  <2> QED BY CountedMember
<1>2. \A u \in Workers : cur[u] = NoDir
  <2> SUFFICES ASSUME NEW u \in Workers, cur[u] # NoDir PROVE FALSE
      OBVIOUS
  <2>1. cur[u] \in Counted
      BY CountedMember
  <2> QED BY <2>1
<1>3. \A u \in Workers : pc[u] \notin Walk
    BY <1>2 DEF PoolInv, Shape
<1>4. CASE Idle
  <2>1. queuedAt' = queuedAt /\ owedBy' = owedBy
      BY <1>4 DEF Idle, Quiet, queuedAt, owedBy
  <2>2. ASSUME NEW d PROVE d \in Counted' <=> d \in Counted
      BY <2>1, <1>4, CountedMember DEF Idle, Quiet
  <2> QED BY <2>2, <1>4 DEF Idle, Quiet
<1>5. ~SeedAdd /\ ~SeedPush
    BY DEF SeedAdd, SeedPush
<1>6. ASSUME NEW w \in Workers, NEW v \in Workers, NEW x \in Dirs, Obtains(w, v, x)
      PROVE  FALSE
    BY <1>6, <1>1 DEF Obtains, Removes, queuedAt
<1>7. ASSUME NEW w \in Workers,
             ReadDir(w) \/ ReadDirFails(w) \/ AddDirs(w) \/ Push(w) \/ SubDirs(w)
      PROVE  FALSE
    BY <1>7, <1>3 DEF ReadDir, ReadDirFails, AddDirs, Push, SubDirs, Goto, Walk
<1> QED BY <1>4, <1>5, <1>6, <1>7, StepKinds DEF PoolInv

QuietInv == PoolInv /\ SafeShutdown /\ (Over => main \notin {"add", "push"})

(* Every step keeps the invariant strengthened by quiescence.              *)
LEMMA QuietInvStep ==
  ASSUME QuietInv, [Next]_vars
  PROVE  QuietInv'
<1>1. PoolInv /\ PoolInv' /\ TypeOK
    BY PoolInvStep DEF QuietInv, PoolInv
<1>2. SUFFICES ASSUME Over' PROVE SafeShutdown' /\ main' \notin {"add", "push"}
    BY <1>1 DEF QuietInv, SafeShutdown, Over
<1>3. Counted = {} /\ found \subseteq walked /\ main \notin {"add", "push"}
  <2>1. CASE Over
      BY <2>1 DEF QuietInv, SafeShutdown, Over
  <2>2. ASSUME NEW w \in Workers, CheckPending(w), pending = 0
        PROVE  Counted = {} /\ found \subseteq walked /\ main \notin {"add", "push"}
    <3>1. main \notin {"add", "push"}
        BY <1>1, <2>2 DEF CheckPending, Goto, PoolInv, Shape
    <3> QED BY <1>1, <2>2, <3>1, ZeroMeansDone
  <2> QED BY <2>1, <2>2, <1>1, <1>2, OverStep
<1>4. Counted' = {} /\ UNCHANGED <<found, walked>>
    BY <1>1, <1>3, NothingLeft
<1>5. main' \notin {"add", "push"}
  <2>1. main' = main \/ main' \in {"spawn", "join", "done"}
      BY <1>3 DEF Next, Main, Worker, Terminated, vars, SeedAdd, SeedPush, Spawn, Join,
           threads, PopHit, PopMiss, StealHit, StealMiss, RestealHit, RestealMiss, Take,
           Sweep, Announce, Retract, Quit, Woken, Unannounce, CheckPending, CheckShutdown,
           Signal, Broadcast, Wake, UnparkNext, Park, ReadDir, ReadDirFails, AddDirs,
           Push, MaybeUnpark, SubDirs, Drain
  <2> QED BY <2>1, <1>3
<1> QED BY <1>3, <1>4, <1>5 DEF SafeShutdown

(* In every state, a worker on its way out, and the flag it sets, mean     *)
(* that nothing is left.                                                   *)
THEOREM QuietInvariant == Safe => []QuietInv
<1>1. Init => QuietInv
  <2> SUFFICES ASSUME Init PROVE QuietInv
      OBVIOUS
  <2>1. ~Over
      BY DEF Init, Over, Quitting
  <2> QED BY <2>1, PoolInvInit DEF QuietInv, SafeShutdown, Over
<1>2. QuietInv /\ [Next]_vars => QuietInv'
    BY QuietInvStep
<1> QED BY <1>1, <1>2, PTL DEF Safe

(* No worker leaves while a discovered directory is unread or in           *)
(* somebody's hands (queue.rs:155-160).                                    *)
THEOREM ShutdownCorrect == Safe => []SafeShutdown
<1>1. QuietInv => SafeShutdown
    BY DEF QuietInv
<1> QED BY <1>1, QuietInvariant, PTL

-------------------------------------------------------------------------------
(* The pool implements the sequential traversal.                           *)

(* The flag is raised only when everything discovered has been walked, and *)
(* never lowered.                                                          *)
LEMMA ShutdownStep ==
  ASSUME [Next]_vars
  PROVE  \/ \E w \in Workers : Signal(w)
         \/ shutdown' = shutdown
BY DEF Next, Main, Worker, Terminated, vars, SeedAdd, SeedPush, Spawn, Join,
     counters, PopHit, PopMiss, StealHit, StealMiss, RestealHit, RestealMiss, Take,
     Sweep, Announce, Retract, Quit, Woken, Unannounce, CheckPending, CheckShutdown,
     Broadcast, Wake, UnparkNext, Park, ReadDir, ReadDirFails, AddDirs,
     Push, MaybeUnpark, SubDirs, Drain

(* A read, successful or not, is a visit of the sequential traversal.      *)
LEMMA WalkVisits ==
  ASSUME QuietInv, NEW w \in Workers, ReadDir(w) \/ ReadDirFails(w)
  PROVE  Abstract!Visit(cur[w]) /\ cur[w] \in Dirs
<1>1. pc[w] = "read" /\ cur[w] \in Dirs /\ cur[w] # NoDir
    BY TreeAssumption DEF ReadDir, ReadDirFails, Goto, QuietInv, PoolInv, Shape, TypeOK, Walk
<1>2. cur[w] \in found \ walked
    BY <1>1 DEF QuietInv, PoolInv, Known
<1>3. ~shutdown
  <2>1. cur[w] \in Counted
      BY <1>1, CountedMember
  <2> QED BY <2>1 DEF QuietInv, SafeShutdown
<1>4. walked' = walked \union {cur[w]} /\ shutdown' = shutdown
    BY DEF ReadDir, ReadDirFails, counters
<1>5. (\E s \in Readings[cur[w]] : found' = found \union Range(s)) \/ UNCHANGED found
  <2>1. CASE ReadDir(w)
    <3>1. PICK s \in Readings[cur[w]] : found' = found \union Range(s)
        BY <2>1 DEF ReadDir
    <3> QED BY <3>1
  <2>2. CASE ReadDirFails(w)
      BY <2>2 DEF ReadDirFails
  <2> QED BY <2>1, <2>2
<1>6. \A f : Abstract!Range(f) = Range(f)
    BY DEF Abstract!Range, Range
<1> QED BY <1>1, <1>2, <1>3, <1>4, <1>5, <1>6 DEF Abstract!Visit

(* Every step of the pool is a step of the sequential traversal, or none.  *)
LEMMA AbstractStep ==
  ASSUME QuietInv, [Next]_vars
  PROVE  [Abstract!Next]_<<found, walked, shutdown>>
<1>1. PoolInv /\ TypeOK /\ Shape
    BY DEF QuietInv, PoolInv
<1>2. ASSUME NEW w \in Workers, ReadDir(w) \/ ReadDirFails(w)
      PROVE  Abstract!Next
    BY <1>2, WalkVisits DEF Abstract!Next
<1>3. ASSUME NEW w \in Workers, Signal(w)
      PROVE  Abstract!Next \/ UNCHANGED <<found, walked, shutdown>>
  <2>1. found \subseteq walked
      BY <1>3 DEF QuietInv, SafeShutdown, Signal, Goto, Quitting
  <2>2. shutdown' = TRUE /\ UNCHANGED <<found, walked>>
      BY <1>3 DEF Signal, history
  <2> QED BY <2>1, <2>2, <1>1 DEF Abstract!Next, Abstract!Halt, TypeOK
<1>4. ASSUME ~\E w \in Workers : Signal(w),
             ~\E w \in Workers : ReadDir(w) \/ ReadDirFails(w)
      PROVE  UNCHANGED <<found, walked, shutdown>>
  <2>1. shutdown' = shutdown
      BY <1>4, ShutdownStep
  <2>2. UNCHANGED <<found, walked>>
      BY <1>1, <1>4, StepKinds DEF Idle, Quiet, SeedAdd, SeedPush, Obtains, AddDirs,
           Push, SubDirs, history
  <2> QED BY <2>1, <2>2
<1> QED BY <1>2, <1>3, <1>4

(* Whatever the interleaving, the workers read each discovered directory   *)
(* once and declare the walk finished only when all of them are read.      *)
THEOREM PoolImplementsTraversal == Safe => AbstractSafe
<1>1. Init => Abstract!Init
    BY DEF Init, Abstract!Init
<1>2. QuietInv /\ [Next]_vars => [Abstract!Next]_(Abstract!tvars)
    BY AbstractStep DEF Abstract!tvars
<1> QED BY <1>1, <1>2, QuietInvariant, PTL DEF Safe, AbstractSafe, Abstract!Safe

(* Zero in dir_pending is final: no step leaves it once the root has been  *)
(* counted, so a worker may act on a zero that it read some time ago       *)
(* (queue.rs:156-158).                                                     *)
THEOREM QuiescenceCorrect == Safe => QuiescenceStable
<1>1. ASSUME PoolInv, [Next]_vars, pending = 0, main # "add"
      PROVE  pending' = 0
  <2>1. Counted = {}
    <3>1. IsFiniteSet(Counted)
        BY <1>1, CountedType, DirsCardinality DEF PoolInv
    <3> QED BY <1>1, <3>1, FS_EmptySet DEF PoolInv, PendingExact
  <2>2. main # "push"
      BY <2>1, CountedMember
  <2>3. Counted' = {}
      BY <1>1, <2>1, <2>2, NothingLeft
  <2>4. PendingExact'
      BY <1>1, PoolInvStep DEF PoolInv
  <2> QED BY <2>3, <2>4, FS_EmptySet DEF PendingExact
<1>2. PoolInv /\ [Next]_vars => [pending = 0 /\ main # "add" => pending' = 0]_vars
    BY <1>1
<1> QED BY <1>2, PoolInvariant, PTL DEF Safe, QuiescenceStable

-------------------------------------------------------------------------------
(* The pool keeps the contract that the walker relies on.                  *)

(* What the four parts of the contract's state hold, in this state and in  *)
(* the next.                                                               *)
LEMMA ListedMember ==
  ASSUME NEW d
  PROVE  /\ d \in Listed <=>
              \/ \E u \in Workers : d \in queuedAt[u]
              \/ \E u \in Workers : pc[u] = "push" /\ d \in owedBy[u]
              \/ main \in {"add", "push"} /\ d = Root
         /\ d \in Listed' <=>
              \/ \E u \in Workers : d \in queuedAt'[u]
              \/ \E u \in Workers : pc'[u] = "push" /\ d \in owedBy'[u]
              \/ main' \in {"add", "push"} /\ d = Root
BY DEF Listed, Queued, Publishing, queuedAt, owedBy

(* A directory whose parent has been read but not counted for.             *)
LEMMA UncountedMember ==
  ASSUME NEW d
  PROVE  /\ d \in Uncounted <=> \E u \in Workers : pc[u] = "add" /\ d \in owedBy[u]
         /\ d \in Uncounted' <=> \E u \in Workers : pc'[u] = "add" /\ d \in owedBy'[u]
BY DEF Uncounted, owedBy

(* Nobody leaves, and nobody comes to or goes from the call of add_dirs.   *)
Steady ==
  /\ Leaving' = Leaving
  /\ \A u \in Workers : pc'[u] = "add" <=> pc[u] = "add"

(* A move of one thread between states of the same kind.                   *)
LEMMA SteadyMove ==
  ASSUME TypeOK, NEW w \in Workers, NEW from, NEW to, Goto(w, from, to),
         from = "add" <=> to = "add",
         from \in Quitting \union {"done"} <=> to \in Quitting \union {"done"}
  PROVE  Steady
<1>1. /\ pc[w] = from /\ pc'[w] = to
      /\ \A v \in Workers : v # w => pc'[v] = pc[v]
    BY DEF Goto, TypeOK
<1> QED BY <1>1 DEF Steady, Leaving

(* Only a worker that has seen zero or the flag leaves.                    *)
LEMMA SteadyStep ==
  ASSUME TypeOK, [Next]_vars
  PROVE  \/ Steady
         \/ \E w \in Workers : CheckPending(w) /\ pending = 0
         \/ \E w \in Workers : CheckShutdown(w) /\ shutdown
         \/ \E w \in Workers : ReadDir(w) \/ AddDirs(w)
<1> USE DEF threads
<1>1. \A p \in {"unborn", "pop", "steal", "announce", "resteal", "retract", "check", "park",
                "woken", "exam", "read", "push", "peek", "wake", "sub"} :
        p # "add" /\ p \notin Quitting \union {"done"}
    BY DEF Quitting
<1>2. \A p \in {"quit", "signal", "broadcast", "done"} :
        p # "add" /\ p \in Quitting \union {"done"}
    BY DEF Quitting
<1>3. CASE SeedAdd \/ SeedPush \/ Join \/ UNCHANGED vars
    BY <1>3 DEF SeedAdd, SeedPush, Join, vars, Steady, Leaving
<1>4. ASSUME NEW w \in Workers, Spawn(w) PROVE Steady
    BY <1>4, <1>1, SteadyMove DEF Spawn
<1>5. ASSUME NEW w \in Workers, Worker(w), ~(CheckPending(w) /\ pending = 0),
             ~(CheckShutdown(w) /\ shutdown), ~(ReadDir(w) \/ AddDirs(w))
      PROVE  Steady
  <2>1. CASE PopHit(w)
      BY <2>1, <1>1, SteadyMove DEF PopHit
  <2>2. CASE PopMiss(w)
      BY <2>2, <1>1, SteadyMove DEF PopMiss
  <2>3. CASE StealHit(w)
      BY <2>3, <1>1, SteadyMove DEF StealHit
  <2>4. CASE RestealHit(w)
      BY <2>4, <1>1, SteadyMove DEF RestealHit
  <2>5. CASE StealMiss(w)
      BY <2>5, <1>1, SteadyMove DEF StealMiss, Sweep
  <2>6. CASE RestealMiss(w)
      BY <2>6, <1>1, SteadyMove DEF RestealMiss, Sweep
  <2>7. CASE Announce(w)
      BY <2>7, <1>1, SteadyMove DEF Announce
  <2>8. CASE Retract(w)
      BY <2>8, <1>1, SteadyMove DEF Retract, Unannounce
  <2>9. CASE Woken(w)
      BY <2>9, <1>1, SteadyMove DEF Woken, Unannounce
  <2>10. CASE Quit(w)
      BY <2>10, <1>2, SteadyMove DEF Quit, Unannounce
  <2>11. CASE Signal(w)
      BY <2>11, <1>2, SteadyMove DEF Signal
  <2>12. CASE Broadcast(w)
      BY <2>12, <1>2, SteadyMove DEF Broadcast, UnparkNext
  <2>13. CASE CheckPending(w)
      BY <2>13, <1>5, <1>1, SteadyMove DEF CheckPending
  <2>14. CASE CheckShutdown(w)
      BY <2>14, <1>5, <1>1, SteadyMove DEF CheckShutdown
  <2>15. CASE Park(w)
      BY <2>15, <1>1, SteadyMove DEF Park
  <2>16. CASE ReadDirFails(w)
      BY <2>16, <1>1, SteadyMove DEF ReadDirFails
  <2>17. CASE Push(w)
      BY <2>17, <1>1, SteadyMove DEF Push
  <2>18. CASE MaybeUnpark(w)
      BY <2>18, <1>1, SteadyMove DEF MaybeUnpark
  <2>19. CASE Wake(w)
      BY <2>19, <1>1, SteadyMove DEF Wake, UnparkNext
  <2>20. CASE SubDirs(w)
      BY <2>20, <1>1, SteadyMove DEF SubDirs
  <2>21. CASE Drain(w)
      BY <2>21 DEF Drain, Steady, Leaving
  <2> QED BY <1>5, <2>1, <2>2, <2>3, <2>4, <2>5, <2>6, <2>7, <2>8, <2>9, <2>10, <2>11,
             <2>12, <2>13, <2>14, <2>15, <2>16, <2>17, <2>18, <2>19, <2>20, <2>21 DEF Worker
<1> QED BY <1>3, <1>4, <1>5 DEF Next, Main, Terminated

(* A step that leaves the directories where they are changes nothing that  *)
(* the walker can see, but for who has left.                               *)
LEMMA IdleContract ==
  ASSUME TypeOK, Idle, \A u \in Workers : pc'[u] = "add" <=> pc[u] = "add"
  PROVE  UNCHANGED <<Listed, Holding, found \ Uncounted>>
<1>1. queuedAt' = queuedAt /\ owedBy' = owedBy
    BY DEF Idle, Quiet, queuedAt, owedBy
<1>2. \A u \in Workers : InHand(u)' <=> InHand(u)
    BY DEF Idle, Quiet, InHand
<1>3. ASSUME NEW d PROVE d \in Listed' <=> d \in Listed
    BY <1>1, ListedMember DEF Idle, Quiet
<1>4. ASSUME NEW d PROVE d \in Uncounted' <=> d \in Uncounted
    BY <1>1, UncountedMember
<1>5. Listed' = Listed /\ Uncounted' = Uncounted
    BY <1>3, <1>4
<1>6. Holding' = Holding
    BY <1>2 DEF Idle, Quiet, Holding
<1> QED BY <1>5, <1>6 DEF Idle, Quiet
(* A worker leaves when nothing is listed and nothing is in anybody's      *)
(* hands.                                                                  *)
LEMMA LeaveContract ==
  ASSUME QuietInv, [Next]_vars, NEW w \in Workers,
         (CheckPending(w) /\ pending = 0) \/ (CheckShutdown(w) /\ shutdown)
  PROVE  Contract!Leave(w)
<1> USE DEF threads, scratch, counters, history
<1>1. PoolInv /\ TypeOK /\ Shape
    BY DEF QuietInv, PoolInv
<1>2. PICK from \in {"check", "exam"}, to \in {"quit", "done"} : Goto(w, from, to)
    BY DEF CheckPending, CheckShutdown
<1>3. /\ pc[w] \in {"check", "exam"} /\ pc'[w] \in {"quit", "done"}
      /\ \A v \in Workers : v # w => pc'[v] = pc[v]
    BY <1>1, <1>2 DEF Goto, TypeOK
<1>4. main \notin {"add", "push"}
    BY <1>1, <1>3 DEF Shape
<1>5. Counted = {}
    BY <1>1, <1>4, ZeroMeansDone DEF QuietInv, SafeShutdown
<1>6. Listed = {}
  <2> SUFFICES ASSUME NEW d \in Listed PROVE FALSE
      OBVIOUS
  <2> QED BY <1>4, <1>5, ListedMember, CountedMember
<1>7. \A v \in Workers : Holding[v] = NoDir
  <2> SUFFICES ASSUME NEW v \in Workers, cur[v] # NoDir PROVE FALSE
      BY DEF Holding
  <2> QED BY <1>5, CountedMember
<1>8. w \notin Leaving /\ Leaving' = Leaving \union {w}
    BY <1>3 DEF Leaving, Quitting
<1>9. Idle
    BY <1>1, <1>2, IdleMove DEF CheckPending, CheckShutdown, Unwalking, WorkerStates,
       Walk, Announced, Quitting
<1>10. \A u \in Workers : pc'[u] = "add" <=> pc[u] = "add"
    BY <1>3
<1>11. UNCHANGED <<Listed, Holding, found \ Uncounted>>
    BY <1>1, <1>9, <1>10, IdleContract
<1> QED BY <1>6, <1>7, <1>8, <1>11 DEF Contract!Leave

(* A pop or a steal hands one directory to one worker.                     *)
LEMMA ObtainsContract ==
  ASSUME PoolInv, NEW w \in Workers, NEW v \in Workers, NEW x \in Dirs, Obtains(w, v, x)
  PROVE  Contract!Take(w, x)
<1> USE DEF counters, history
<1>1. TypeOK /\ Shape /\ Distinct
    BY DEF PoolInv
<1>2. x \in queuedAt[v] /\ IsInjective(deque[v])
    BY <1>1 DEF Obtains, Removes, queuedAt, Distinct
<1>3. PICK s \in Seq(Dirs) :
         deque' = [deque EXCEPT ![v] = s] /\ Range(s) = queuedAt[v] \ {x}
    BY <1>2 DEF Obtains, Removes, queuedAt
<1>4. queuedAt'[v] = queuedAt[v] \ {x}
      /\ \A u \in Workers : u # v => queuedAt'[u] = queuedAt[u]
    BY <1>1, <1>3, QueuedChange
<1>5. owedBy' = owedBy /\ main' = main /\ found' = found
    BY DEF Obtains, owedBy
<1>6. /\ pc[w] \in {"pop", "steal", "resteal"} /\ pc'[w] \in {"read", "retract"}
      /\ \A u \in Workers : u # w => pc'[u] = pc[u]
      /\ cur' = [cur EXCEPT ![w] = x] /\ main \notin {"add", "push"}
    BY <1>1 DEF Obtains, TypeOK, Shape
<1>7. Listed' = Listed \ {x}
  <2>1. ASSUME NEW d PROVE d \in Listed' <=> d \in Listed /\ d # x
    <3>1. CASE d = x
      <4>1. \A u \in Workers : d \notin queuedAt'[u] /\ d \notin owedBy'[u]
          BY <3>1, <1>1, <1>2, <1>4, <1>5 DEF Distinct
      <4> QED BY <3>1, <4>1, <1>5, <1>6, ListedMember
    <3>2. CASE d # x
      <4>1. (\E u \in Workers : d \in queuedAt'[u]) <=> (\E u \in Workers : d \in queuedAt[u])
          BY <3>2, <1>4
      <4>2. (\E u \in Workers : pc'[u] = "push" /\ d \in owedBy'[u])
              <=> (\E u \in Workers : pc[u] = "push" /\ d \in owedBy[u])
          BY <1>5, <1>6
      <4> QED BY <3>2, <4>1, <4>2, <1>5, ListedMember
    <3> QED BY <3>1, <3>2
  <2> QED BY <2>1
<1>8. x \in Listed
    BY <1>2, ListedMember
<1>9. w \notin Leaving /\ Leaving' = Leaving
    BY <1>6 DEF Leaving, Quitting
<1>10. Uncounted' = Uncounted
  <2>1. ASSUME NEW d PROVE d \in Uncounted' <=> d \in Uncounted
      BY <1>5, <1>6, UncountedMember
  <2> QED BY <2>1
<1>11. Holding[w] = NoDir /\ Holding' = [Holding EXCEPT ![w] = x]
  <2>1. ~InHand(w) /\ InHand(w)' /\ \A u \in Workers : u # w => (InHand(u)' <=> InHand(u))
      BY <1>6 DEF InHand
  <2>2. cur'[w] = x /\ \A u \in Workers : u # w => cur'[u] = cur[u]
      BY <1>1, <1>6 DEF TypeOK
  <2> QED BY <2>1, <2>2 DEF Holding
<1> QED BY <1>5, <1>7, <1>8, <1>9, <1>10, <1>11 DEF Contract!Take

(* Nothing changes for the walker in the hands of anybody else.            *)
LEMMA HandsDown ==
  ASSUME TypeOK, Shape, NEW w \in Workers, InHand(w), ~InHand(w)',
         \A u \in Workers : u # w => pc'[u] = pc[u] /\ cur'[u] = cur[u]
  PROVE  Holding[w] # NoDir /\ Holding' = [Holding EXCEPT ![w] = NoDir]
<1>1. cur[w] # NoDir
    BY DEF Shape, InHand, Walk
<1>2. \A u \in Workers : u # w => (InHand(u)' <=> InHand(u))
    BY DEF InHand
<1> QED BY <1>1, <1>2 DEF Holding

(* A read lets go of a directory without children, and keeps one with      *)
(* children until they are counted.                                        *)
LEMMA ReadContract ==
  ASSUME PoolInv, NEW w \in Workers, ReadDir(w) \/ ReadDirFails(w)
  PROVE  \/ Contract!Finish(w, {})
         \/ UNCHANGED <<Listed, Holding, found \ Uncounted, Leaving>>
<1> USE DEF counters, scratch, history
<1>1. TypeOK /\ Shape /\ Distinct /\ Known
    BY DEF PoolInv
<1>2. /\ UNCHANGED <<main, deque, cur>>
      /\ pc[w] = "read" /\ pc'[w] \in {"sub", "add"}
      /\ \A u \in Workers : u # w => pc'[u] = pc[u] /\ kids'[u] = kids[u]
    BY <1>1 DEF ReadDir, ReadDirFails, Goto, TypeOK
<1>3. queuedAt' = queuedAt /\ \A u \in Workers : u # w => owedBy'[u] = owedBy[u]
    BY <1>2 DEF queuedAt, owedBy
<1>4. Listed' = Listed
  <2>1. ASSUME NEW d PROVE d \in Listed' <=> d \in Listed
      BY <1>2, <1>3, ListedMember
  <2> QED BY <2>1
<1>5. Leaving' = Leaving
    BY <1>2 DEF Leaving, Quitting
<1>6. InHand(w) /\ cur[w] \in Dirs /\ cur[w] # NoDir
    BY <1>1, <1>2, TreeAssumption DEF InHand, Shape, TypeOK, Walk
<1>7. CASE pc'[w] = "sub"
  <2>1. found' = found
    <3>1. ASSUME NEW s \in Readings[cur[w]], s = <<>> PROVE Range(s) = {}
        BY <3>1 DEF Range
    <3>2. CASE ReadDir(w)
      <4>1. PICK s \in Readings[cur[w]] :
               /\ pc' = [pc EXCEPT ![w] = IF s = <<>> THEN "sub" ELSE "add"]
               /\ found' = found \union Range(s)
          BY <3>2 DEF ReadDir
      <4>2. s = <<>>
          BY <4>1, <1>1, <1>7 DEF TypeOK
      <4> QED BY <4>1, <4>2, <3>1
    <3>3. CASE ReadDirFails(w)
        BY <3>3 DEF ReadDirFails
    <3> QED BY <3>2, <3>3
  <2>2. Uncounted' = Uncounted
    <3>1. ASSUME NEW d PROVE d \in Uncounted' <=> d \in Uncounted
        BY <1>2, <1>3, <1>7, UncountedMember
    <3> QED BY <3>1
  <2>3. ~InHand(w)'
      BY <1>7 DEF InHand
  <2>4. Holding[w] # NoDir /\ Holding' = [Holding EXCEPT ![w] = NoDir]
      BY <2>3, <1>1, <1>2, <1>6, HandsDown
  <2> QED BY <2>1, <2>2, <2>4, <1>4, <1>5 DEF Contract!Finish
<1>8. CASE pc'[w] = "add"
  <2>1. PICK s \in Readings[cur[w]] :
           /\ kids' = [kids EXCEPT ![w] = s] /\ found' = found \union Range(s)
      BY <1>2, <1>8, <1>1 DEF ReadDir, ReadDirFails, Goto, TypeOK
  <2>2. s \in Seq(Dirs) /\ \A d \in Range(s) : d # Root /\ Parent[d] = cur[w]
      BY <2>1, <1>6, TreeAssumption, RangeOfSeq DEF Range
  <2>3. Range(s) \intersect found = {}
      BY <2>2, <1>1, <1>2 DEF Known
  <2>4. owedBy'[w] = Range(s)
      BY <2>1, <2>2, <1>1, OwedChange
  <2>5. \A d : d \in Uncounted' <=> d \in Uncounted \/ d \in Range(s)
    <3> TAKE d
    <3> QED BY <2>4, <1>2, <1>3, <1>8, UncountedMember
  <2>6. found' \ Uncounted' = found \ Uncounted
      BY <2>1, <2>3, <2>5
  <2>7. \A u \in Workers : InHand(u)' <=> InHand(u)
      BY <1>2, <1>8 DEF InHand
  <2>8. Holding' = Holding
      BY <2>7, <1>2 DEF Holding
  <2> QED BY <2>6, <2>8, <1>4, <1>5
<1> QED BY <1>2, <1>7, <1>8
(* With add_dirs the children come onto the list, before they are pushed.  *)
LEMMA AddContract ==
  ASSUME PoolInv, NEW w \in Workers, AddDirs(w)
  PROVE  Contract!Finish(w, owedBy[w]) /\ owedBy[w] \subseteq Dirs
<1> USE DEF counters, scratch, history
<1>1. TypeOK /\ Shape /\ Distinct /\ Known
    BY DEF PoolInv
<1>2. /\ UNCHANGED <<main, deque, cur, kids, found>>
      /\ pc[w] = "add" /\ pc'[w] = "push"
      /\ \A u \in Workers : u # w => pc'[u] = pc[u]
    BY <1>1 DEF AddDirs, Goto, TypeOK
<1>3. queuedAt' = queuedAt /\ owedBy' = owedBy
    BY <1>2 DEF queuedAt, owedBy
<1>4. owedBy[w] \subseteq Dirs /\ owedBy[w] \subseteq found
    BY <1>1, QueuedType DEF Known
<1>5. Listed' = Listed \union owedBy[w]
  <2>1. \A d : d \in Listed' <=> d \in Listed \/ d \in owedBy[w]
    <3> TAKE d
    <3> QED BY <1>2, <1>3, ListedMember
  <2> QED BY <2>1
<1>6. owedBy[w] \subseteq Uncounted
    BY <1>2, UncountedMember
<1>7. \A d \in Dirs : d \in Uncounted' <=> d \in Uncounted /\ d \notin owedBy[w]
  <2> TAKE d \in Dirs
  <2> QED BY <1>1, <1>2, <1>3, UncountedMember DEF Distinct
<1>8. (found \ Uncounted)' = (found \ Uncounted) \union owedBy[w]
    BY <1>1, <1>2, <1>4, <1>7 DEF TypeOK
<1>9. Leaving' = Leaving
    BY <1>2 DEF Leaving, Quitting
<1>10. InHand(w) /\ ~InHand(w)'
    BY <1>2 DEF InHand
<1>11. Holding[w] # NoDir /\ Holding' = [Holding EXCEPT ![w] = NoDir]
    BY <1>1, <1>2, <1>10, HandsDown
<1> QED BY <1>4, <1>5, <1>6, <1>8, <1>9, <1>11 DEF Contract!Finish

(* A push moves a directory from one part of the list to another.          *)
LEMMA PushContract ==
  ASSUME PoolInv, NEW w \in Workers, Push(w)
  PROVE  UNCHANGED <<Listed, Holding, found \ Uncounted, Leaving>>
<1> USE DEF counters, history
<1> DEFINE x == Head(kids[w])
<1>1. TypeOK /\ Shape /\ Distinct
    BY DEF PoolInv
<1>2. x \in owedBy[w]
    BY <1>1, PushInserts DEF owedBy
<1>3. PICK s \in Seq(Dirs) :
         deque' = [deque EXCEPT ![w] = s] /\ Range(s) = queuedAt[w] \union {x}
    BY <1>1, PushInserts DEF Inserts, queuedAt
<1>4. PICK k \in Seq(Dirs) :
         /\ kids' = [kids EXCEPT ![w] = k] /\ Range(k) = owedBy[w] \ {x}
         /\ k = Tail(kids[w])
    BY <1>1, PushInserts DEF Distinct, owedBy
<1> HIDE DEF x
<1>5. /\ queuedAt'[w] = queuedAt[w] \union {x}
      /\ \A u \in Workers : u # w => queuedAt'[u] = queuedAt[u]
    BY <1>1, <1>3, QueuedChange
<1>6. /\ owedBy'[w] = owedBy[w] \ {x}
      /\ \A u \in Workers : u # w => owedBy'[u] = owedBy[u]
    BY <1>1, <1>4, OwedChange
<1>7. /\ UNCHANGED <<main, cur, found>>
      /\ pc[w] = "push" /\ \A u \in Workers : u # w => pc'[u] = pc[u]
      /\ pc'[w] = IF k = <<>> THEN "peek" ELSE "push"
    BY <1>1, <1>4 DEF Push, Goto, TypeOK
<1>8. pc'[w] # "push" => owedBy'[w] = {}
  <2>1. k = <<>> => Range(k) = {}
      BY DEF Range
  <2> QED BY <2>1, <1>4, <1>6, <1>7
<1>9. Listed' = Listed
  <2>1. ASSUME NEW d PROVE d \in Listed' <=> d \in Listed
    <3>1. CASE d = x
        BY <3>1, <1>2, <1>5, <1>7, ListedMember
    <3>2. CASE d # x
      <4>1. (\E u \in Workers : d \in queuedAt'[u]) <=> (\E u \in Workers : d \in queuedAt[u])
          BY <3>2, <1>5
      <4>2. (\E u \in Workers : pc'[u] = "push" /\ d \in owedBy'[u])
              <=> (\E u \in Workers : pc[u] = "push" /\ d \in owedBy[u])
          BY <3>2, <1>6, <1>7, <1>8
      <4> QED BY <4>1, <4>2, <1>7, ListedMember
    <3> QED BY <3>1, <3>2
  <2> QED BY <2>1
<1>10. pc'[w] \in {"peek", "push"}
    BY <1>7
<1>11. Uncounted' = Uncounted
  <2>1. ASSUME NEW d PROVE d \in Uncounted' <=> d \in Uncounted
      BY <1>6, <1>7, <1>10, UncountedMember
  <2> QED BY <2>1
<1>12. Leaving' = Leaving
    BY <1>7, <1>10 DEF Leaving, Quitting
<1>13. \A u \in Workers : InHand(u)' <=> InHand(u)
    BY <1>7, <1>10 DEF InHand
<1>14. Holding' = Holding
    BY <1>7, <1>13 DEF Holding
<1> QED BY <1>7, <1>9, <1>11, <1>12, <1>14

(* With sub_dirs the directory was long out of the walker's hands.         *)
LEMMA SubContract ==
  ASSUME PoolInv, NEW w \in Workers, SubDirs(w)
  PROVE  UNCHANGED <<Listed, Holding, found \ Uncounted, Leaving>>
<1> USE DEF history
<1>1. TypeOK /\ Shape
    BY DEF PoolInv
<1>2. /\ UNCHANGED <<main, deque, kids, found>>
      /\ pc[w] = "sub" /\ pc'[w] = "pop"
      /\ \A u \in Workers : u # w => pc'[u] = pc[u] /\ cur'[u] = cur[u]
    BY <1>1 DEF SubDirs, Goto, TypeOK
<1>3. queuedAt' = queuedAt /\ owedBy' = owedBy
    BY <1>2 DEF queuedAt, owedBy
<1>4. ASSUME NEW d PROVE (d \in Listed' <=> d \in Listed) /\ (d \in Uncounted' <=> d \in Uncounted)
    BY <1>2, <1>3, ListedMember, UncountedMember
<1>5. Listed' = Listed /\ Uncounted' = Uncounted
    BY <1>4
<1>6. Leaving' = Leaving
    BY <1>2 DEF Leaving, Quitting
<1>7. \A u \in Workers : (InHand(u)' <=> InHand(u)) /\ (InHand(u) => cur'[u] = cur[u])
    BY <1>2 DEF InHand
<1>8. Holding' = Holding
    BY <1>7 DEF Holding
<1> QED BY <1>2, <1>5, <1>6, <1>8

(* The root is on the list from the start.                                 *)
LEMMA SeedContract ==
  ASSUME PoolInv, SeedAdd \/ SeedPush
  PROVE  UNCHANGED <<Listed, Holding, found \ Uncounted, Leaving>>
<1> USE DEF history, scratch
<1>1. TypeOK /\ Shape
    BY DEF PoolInv
<1>2. UNCHANGED <<pc, cur, kids, found>>
    BY DEF SeedAdd, SeedPush
<1>3. owedBy' = owedBy
    BY <1>2 DEF owedBy
<1>4. Listed' = Listed
  <2>1. CASE SeedAdd
    <3>1. main = "add" /\ main' = "push" /\ queuedAt' = queuedAt
        BY <2>1 DEF SeedAdd, queuedAt
    <3>2. ASSUME NEW d PROVE d \in Listed' <=> d \in Listed
        BY <3>1, <1>2, <1>3, ListedMember
    <3> QED BY <3>2
  <2>2. CASE SeedPush
    <3>1. 0 \in Workers
        BY <2>2, <1>1, SeedInserts
    <3>2. main = "push" /\ main' = "spawn"
        BY <2>2 DEF SeedPush
    <3>3. PICK s \in Seq(Dirs) :
             /\ deque' = [deque EXCEPT ![0] = s]
             /\ Range(s) = queuedAt[0] \union {Root}
        BY <3>1, <2>2, <1>1, SeedInserts DEF Inserts, queuedAt
    <3>4. queuedAt'[0] = Range(s) /\ \A u \in Workers : u # 0 => queuedAt'[u] = queuedAt[u]
        BY <3>1, <3>3, <1>1, QueuedChange
    <3>5. \A d : (\E u \in Workers : d \in queuedAt'[u])
                   <=> (\E u \in Workers : d \in queuedAt[u]) \/ d = Root
        BY <3>1, <3>3, <3>4
    <3>6. ASSUME NEW d PROVE d \in Listed' <=> d \in Listed
        BY <3>2, <3>5, <1>2, <1>3, ListedMember
    <3> QED BY <3>6
  <2> QED BY <2>1, <2>2
<1>5. Uncounted' = Uncounted /\ Leaving' = Leaving /\ Holding' = Holding
    BY <1>2 DEF Uncounted, Leaving, Holding, InHand
<1> QED BY <1>2, <1>4, <1>5

(* Every step of the pool is a step of the contract, or none.              *)
LEMMA ContractStep ==
  ASSUME QuietInv, [Next]_vars
  PROVE  [Contract!Next]_(Contract!wvars)
<1> USE DEF Contract!Next, Contract!Step, Contract!wvars
<1>1. PoolInv /\ TypeOK /\ Shape
    BY DEF QuietInv, PoolInv
<1>2. ASSUME NEW w \in Workers, (CheckPending(w) /\ pending = 0) \/ (CheckShutdown(w) /\ shutdown)
      PROVE  Contract!Next
    BY <1>2, LeaveContract
<1>3. ASSUME NEW w \in Workers, NEW v \in Workers, NEW x \in Dirs, Obtains(w, v, x)
      PROVE  Contract!Next
    BY <1>1, <1>3, ObtainsContract
<1>4. ASSUME NEW w \in Workers, ReadDir(w) \/ ReadDirFails(w)
      PROVE  Contract!Next \/ UNCHANGED Contract!wvars
  <2>1. {} \in SUBSET Dirs
      OBVIOUS
  <2> QED BY <1>1, <1>4, <2>1, ReadContract
<1>5. ASSUME NEW w \in Workers, AddDirs(w)
      PROVE  Contract!Next
    BY <1>1, <1>5, AddContract
<1>6. ASSUME NEW w \in Workers, Push(w) \/ SubDirs(w)
      PROVE  UNCHANGED Contract!wvars
    BY <1>1, <1>6, PushContract, SubContract
<1>7. CASE SeedAdd \/ SeedPush
    BY <1>1, <1>7, SeedContract
<1>8. ASSUME Idle, Steady
      PROVE  UNCHANGED Contract!wvars
  <2>1. UNCHANGED <<Listed, Holding, found \ Uncounted>>
      BY <1>1, <1>8, IdleContract DEF Steady
  <2> QED BY <2>1, <1>8 DEF Steady
<1>9. \/ Steady
      \/ \E w \in Workers : CheckPending(w) /\ pending = 0
      \/ \E w \in Workers : CheckShutdown(w) /\ shutdown
      \/ \E w \in Workers : ReadDir(w) \/ AddDirs(w)
    BY <1>1, SteadyStep
<1> QED BY <1>1, <1>2, <1>3, <1>4, <1>5, <1>6, <1>7, <1>8, <1>9, StepKinds

(* Whatever the interleaving, each directory that is put on the list is    *)
(* handed to one worker, once, and a worker leaves only when the list is   *)
(* empty and no directory is being walked (queue.rs:121-170).              *)
THEOREM PoolKeepsContract == Safe => ContractSafe
<1>1. Init => Contract!Init
  <2> SUFFICES ASSUME Init PROVE Contract!Init
      OBVIOUS
  <2>1. \A u \in Workers : queuedAt[u] = {} /\ pc[u] = "unborn"
      BY DEF Init, queuedAt, Range
  <2>2. ASSUME NEW d PROVE d \in Listed <=> d = Root
      BY <2>1, ListedMember DEF Init
  <2>3. ASSUME NEW d PROVE d \notin Uncounted
      BY <2>1, UncountedMember
  <2>4. Listed = {Root} /\ Uncounted = {}
      BY <2>2, <2>3
  <2>5. Leaving = {} /\ Holding = [w \in Workers |-> NoDir]
      BY <2>1 DEF Leaving, Holding, InHand, Quitting
  <2> QED BY <2>4, <2>5 DEF Contract!Init, Init
<1>2. QuietInv /\ [Next]_vars => [Contract!Next]_(Contract!wvars)
    BY ContractStep
<1> QED BY <1>1, <1>2, QuietInvariant, PTL DEF Safe, ContractSafe, Contract!Safe
===============================================================================
