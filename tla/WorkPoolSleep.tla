---------------------------- MODULE WorkPoolSleep -----------------------------
(***************************************************************************)
(* Who announces, who sleeps and who must not, for every number of         *)
(* workers, every directory tree and every width of usize.                 *)
(***************************************************************************)
EXTENDS WorkPoolProofs, Overlooked

-------------------------------------------------------------------------------
(* Who is awake.                                                           *)

announcedSet == {w \in Workers : pc[w] \in Announced}

(* The announced workers are finitely many, at most N.                     *)
LEMMA AnnouncedSize ==
  ASSUME NEW S, S \subseteq Workers
  PROVE  IsFiniteSet(S) /\ Cardinality(S) \in 0 .. UsizeMax
<1>1. IsFiniteSet(Workers) /\ Cardinality(Workers) = N
    BY NAssumption, FS_Interval DEF Workers
<1>2. IsFiniteSet(S) /\ Cardinality(S) <= N
    BY <1>1, FS_Subset
<1>3. Cardinality(S) \in Nat
    BY <1>2, FS_CardinalityType
<1> QED BY <1>2, <1>3, NAssumption, WidthAssumption

(* A move that neither starts nor ends an announcement.                    *)
LEMMA ParkedMove ==
  ASSUME TypeOK, ParkedExact, NEW w \in Workers, NEW from, NEW to,
         Goto(w, from, to), from \in Announced <=> to \in Announced,
         parked' = parked
  PROVE  ParkedExact'
<1>1. announcedSet' = announcedSet
    BY DEF announcedSet, Goto, TypeOK
<1> QED BY <1>1 DEF ParkedExact, announcedSet

(* An announcement adds one worker.                                        *)
LEMMA ParkedUp ==
  ASSUME TypeOK, ParkedExact, NEW w \in Workers, NEW from, NEW to,
         Goto(w, from, to), from \notin Announced, to \in Announced,
         parked' = Add(parked, 1)
  PROVE  ParkedExact'
<1>1. announcedSet' = announcedSet \union {w} /\ w \notin announcedSet
    BY DEF announcedSet, Goto, TypeOK
<1>2. announcedSet \subseteq Workers /\ announcedSet' \subseteq Workers
    BY DEF announcedSet
<1>3. IsFiniteSet(announcedSet) /\ Cardinality(announcedSet) \in 0 .. UsizeMax
      /\ Cardinality(announcedSet') \in 0 .. UsizeMax
    BY <1>2, AnnouncedSize
<1>4. Cardinality(announcedSet') = Cardinality(announcedSet) + 1
    BY <1>1, <1>3, FS_AddElement
<1>5. Add(Cardinality(announcedSet), 1) = Cardinality(announcedSet) + 1
    BY <1>3, <1>4, NoWrap
<1> QED BY <1>4, <1>5 DEF ParkedExact, announcedSet

(* A withdrawal removes one.                                               *)
LEMMA ParkedDown ==
  ASSUME TypeOK, ParkedExact, NEW w \in Workers, NEW from \in Announced,
         NEW to, to \notin Announced, Unannounce(w, from, to)
  PROVE  ParkedExact'
<1>1. announcedSet' = announcedSet \ {w} /\ w \in announcedSet
    BY DEF announcedSet, Unannounce, Goto, TypeOK
<1>2. announcedSet \subseteq Workers /\ announcedSet' \subseteq Workers
    BY DEF announcedSet
<1>3. IsFiniteSet(announcedSet) /\ Cardinality(announcedSet) \in 0 .. UsizeMax
      /\ Cardinality(announcedSet') \in 0 .. UsizeMax
    BY <1>2, AnnouncedSize
<1>4. Cardinality(announcedSet') = Cardinality(announcedSet) - 1
    BY <1>1, <1>3, FS_RemoveElement
<1>5. Sub(Cardinality(announcedSet), 1) = Cardinality(announcedSet) - 1
    BY <1>3, <1>4, NoWrap
<1>6. parked' = Sub(parked, 1)
    BY DEF Unannounce
<1> QED BY <1>4, <1>5, <1>6 DEF ParkedExact, announcedSet

(* Every step keeps parked_count exact.                                    *)
LEMMA ParkedStep ==
  ASSUME TypeOK, ParkedExact, [Next]_vars
  PROVE  ParkedExact'
<1> USE DEF history, scratch, counters, threads
<1>1. /\ {"resteal", "retract", "check", "quit", "park", "woken"} = Announced
      /\ \A s \in {"unborn", "pop", "steal", "announce", "exam", "done", "read", "add",
                   "push", "peek", "wake", "sub", "signal", "broadcast"} :
           s \notin Announced
    BY DEF Announced
<1>2. ASSUME UNCHANGED <<pc, parked>> PROVE ParkedExact'
    BY <1>2 DEF ParkedExact
<1>3. CASE SeedAdd \/ SeedPush \/ Join
    BY <1>3, <1>2 DEF SeedAdd, SeedPush, Join
<1>4. ASSUME NEW w \in Workers, Spawn(w) PROVE ParkedExact'
    BY <1>4, <1>1, ParkedMove DEF Spawn
<1>5. ASSUME NEW w \in Workers, Worker(w) PROVE ParkedExact'
  <2>1. CASE PopMiss(w)
      BY <2>1, <1>1, ParkedMove DEF PopMiss
  <2>2. CASE StealMiss(w)
      BY <2>2, <1>1, ParkedMove DEF StealMiss, Sweep
  <2>3. CASE RestealMiss(w)
      BY <2>3, <1>1, ParkedMove DEF RestealMiss, Sweep
  <2>4. CASE CheckPending(w)
      BY <2>4, <1>1, ParkedMove DEF CheckPending
  <2>5. CASE CheckShutdown(w)
      BY <2>5, <1>1, ParkedMove DEF CheckShutdown
  <2>6. CASE Signal(w)
      BY <2>6, <1>1, ParkedMove DEF Signal
  <2>7. CASE Broadcast(w)
      BY <2>7, <1>1, ParkedMove DEF Broadcast, UnparkNext
  <2>8. CASE Wake(w)
      BY <2>8, <1>1, ParkedMove DEF Wake, UnparkNext
  <2>9. CASE Park(w)
      BY <2>9, <1>1, ParkedMove DEF Park
  <2>10. CASE MaybeUnpark(w)
      BY <2>10, <1>1, ParkedMove DEF MaybeUnpark
  <2>11. CASE ReadDirFails(w)
      BY <2>11, <1>1, ParkedMove DEF ReadDirFails
  <2>12. CASE AddDirs(w)
      BY <2>12, <1>1, ParkedMove DEF AddDirs
  <2>13. CASE SubDirs(w)
      BY <2>13, <1>1, ParkedMove DEF SubDirs
  <2>14. CASE PopHit(w)
      BY <2>14, <1>1, ParkedMove DEF PopHit
  <2>15. CASE StealHit(w)
      BY <2>15, <1>1, ParkedMove DEF StealHit, Take
  <2>16. CASE RestealHit(w)
      BY <2>16, <1>1, ParkedMove DEF RestealHit, Take
  <2>17. CASE Push(w)
      BY <2>17, <1>1, ParkedMove DEF Push
  <2>18. CASE Announce(w)
      BY <2>18, <1>1, ParkedUp DEF Announce
  <2>19. CASE Retract(w) \/ Quit(w) \/ Woken(w)
      BY <2>19, <1>1, ParkedDown DEF Retract, Quit, Woken
  <2>20. CASE ReadDir(w)
    <3>1. PICK to \in {"sub", "add"} : pc' = [pc EXCEPT ![w] = to]
        BY <2>20 DEF ReadDir
    <3> QED BY <3>1, <2>20, <1>1, ParkedMove DEF ReadDir, Goto
  <2>21. CASE Drain(w)
      BY <2>21, <1>2 DEF Drain
  <2> QED BY <1>5, <2>1, <2>2, <2>3, <2>4, <2>5, <2>6, <2>7, <2>8, <2>9,
             <2>10, <2>11, <2>12, <2>13, <2>14, <2>15, <2>16, <2>17, <2>18,
             <2>19, <2>20, <2>21 DEF Worker
<1>6. CASE UNCHANGED vars
    BY <1>6, <1>2 DEF vars
<1> QED BY <1>3, <1>4, <1>5, <1>6 DEF Next, Main, Terminated

(* A worker that is not looking for work of its own owns none.             *)
Busy(w) == Walk \union {"pop"} \union (IF w = 0 THEN {"unborn"} ELSE {})

(* A worker without directories of its own may be anywhere.                *)
LEMMA OwnerMove ==
  ASSUME TypeOK, OwnerAwake, NEW w \in Workers, NEW from, NEW to,
         Goto(w, from, to), from \in Busy(w) => to \in Busy(w),
         deque' = deque
  PROVE  OwnerAwake'
<1>1. \A u \in Workers : pc[u] \in Busy(u) => pc'[u] \in Busy(u)
    BY DEF Goto, TypeOK
<1> QED BY <1>1 DEF OwnerAwake, Busy

(* Every step keeps the owners of directories awake.                       *)
LEMMA OwnerStep ==
  ASSUME TypeOK, Shape, OwnerAwake, [Next]_vars
  PROVE  OwnerAwake'
<1> USE DEF history, scratch, counters, threads
<1>1. ASSUME NEW w \in Workers
      PROVE  /\ {"pop", "read", "add", "push", "peek", "wake", "sub"} \subseteq Busy(w)
             /\ \A s \in {"steal", "announce", "exam", "done", "signal", "broadcast", "resteal",
                          "retract", "check", "quit", "park", "woken"} : s \notin Busy(w)
    BY DEF Busy, Walk
<1>2. ASSUME UNCHANGED <<pc, deque>> PROVE OwnerAwake'
    BY <1>2 DEF OwnerAwake
<1>3. CASE SeedAdd \/ Join
    BY <1>3, <1>2 DEF SeedAdd, Join
<1>4. CASE SeedPush
  <2>1. \A u \in Workers : pc'[u] = "unborn" /\ deque[u] = <<>>
      BY <1>4 DEF SeedPush, Shape
  <2>2. 0 \in Workers
      BY <1>4, SeedInserts
  <2>3. \A u \in Workers : u # 0 => deque'[u] = deque[u]
      BY <1>4 DEF SeedPush, TypeOK
  <2> QED BY <2>1, <2>2, <2>3 DEF OwnerAwake
<1>5. ASSUME NEW w \in Workers, Spawn(w) PROVE OwnerAwake'
    BY <1>5, <1>1, OwnerMove DEF Spawn
<1>6. ASSUME NEW w \in Workers, NEW v \in Workers, NEW x \in Dirs, Obtains(w, v, x)
      PROVE  OwnerAwake'
  <2>1. /\ \A u \in Workers : u # v => deque'[u] = deque[u]
        /\ deque[v] # <<>>
      BY <1>6 DEF Obtains, Removes, TypeOK, Range
  <2>2. /\ pc[w] \in {"pop", "steal", "resteal"}
        /\ \A u \in Workers : u # w => pc'[u] = pc[u]
      BY <1>6 DEF Obtains, TypeOK
  <2>3. PICK p \in {"read", "retract"} : pc' = [pc EXCEPT ![w] = p]
      BY <1>6 DEF Obtains
  <2>4. pc[w] # "pop" => deque[w] = <<>> /\ w # v
      BY <2>1, <2>2 DEF OwnerAwake, Walk
  <2>5. ASSUME NEW u \in Workers, deque'[u] # <<>> PROVE pc'[u] \in Busy(u)
    <3>1. CASE u # w
        BY <3>1, <2>1, <2>2, <2>5 DEF OwnerAwake, Busy
    <3>2. CASE u = w /\ pc[w] = "pop"
        BY <3>2, <1>1, <1>6 DEF Obtains, TypeOK
    <3>3. CASE u = w /\ pc[w] # "pop"
        BY <3>3, <2>1, <2>4, <2>5
    <3> QED BY <3>1, <3>2, <3>3
  <2> QED BY <2>5 DEF OwnerAwake, Busy
<1>7. ASSUME NEW w \in Workers, Push(w) PROVE OwnerAwake'
  <2>1. /\ \A u \in Workers : u # w => deque'[u] = deque[u] /\ pc'[u] = pc[u]
        /\ pc'[w] \in {"push", "peek"}
      BY <1>7 DEF Push, Goto, TypeOK
  <2>2. pc'[w] \in Walk
      BY <2>1 DEF Walk
  <2> QED BY <2>1, <2>2 DEF OwnerAwake
<1>8. ASSUME NEW w \in Workers, Worker(w) PROVE OwnerAwake'
  <2>1. CASE PopMiss(w)
    <3>1. deque[w] = <<>> /\ deque' = deque /\ \A u \in Workers : u # w => pc'[u] = pc[u]
        BY <2>1 DEF PopMiss, Goto, TypeOK
    <3> QED BY <3>1 DEF OwnerAwake
  <2>2. CASE StealMiss(w)
      BY <2>2, <1>1, OwnerMove DEF StealMiss, Sweep
  <2>3. CASE RestealMiss(w)
      BY <2>3, <1>1, OwnerMove DEF RestealMiss, Sweep
  <2>4. CASE CheckPending(w)
      BY <2>4, <1>1, OwnerMove DEF CheckPending
  <2>5. CASE CheckShutdown(w)
      BY <2>5, <1>1, OwnerMove DEF CheckShutdown
  <2>6. CASE Signal(w)
      BY <2>6, <1>1, OwnerMove DEF Signal
  <2>7. CASE Broadcast(w)
      BY <2>7, <1>1, OwnerMove DEF Broadcast, UnparkNext
  <2>8. CASE Wake(w)
      BY <2>8, <1>1, OwnerMove DEF Wake, UnparkNext
  <2>9. CASE Park(w)
      BY <2>9, <1>1, OwnerMove DEF Park
  <2>10. CASE MaybeUnpark(w)
      BY <2>10, <1>1, OwnerMove DEF MaybeUnpark
  <2>11. CASE ReadDirFails(w)
      BY <2>11, <1>1, OwnerMove DEF ReadDirFails
  <2>12. CASE AddDirs(w)
      BY <2>12, <1>1, OwnerMove DEF AddDirs
  <2>13. CASE SubDirs(w)
      BY <2>13, <1>1, OwnerMove DEF SubDirs
  <2>14. CASE PopHit(w)
      BY <2>14, <1>6, PopObtains
  <2>15. CASE StealHit(w) \/ RestealHit(w)
      BY <2>15, <1>6, StealObtains
  <2>16. CASE Push(w)
      BY <2>16, <1>7
  <2>17. CASE Announce(w)
      BY <2>17, <1>1, OwnerMove DEF Announce
  <2>18. CASE Retract(w)
      BY <2>18, <1>1, OwnerMove DEF Retract, Unannounce
  <2>19. CASE Quit(w)
      BY <2>19, <1>1, OwnerMove DEF Quit, Unannounce
  <2>20. CASE Woken(w)
      BY <2>20, <1>1, OwnerMove DEF Woken, Unannounce
  <2>21. CASE ReadDir(w)
    <3>1. PICK to \in {"sub", "add"} : pc' = [pc EXCEPT ![w] = to]
        BY <2>21 DEF ReadDir
    <3> QED BY <3>1, <2>21, <1>1, OwnerMove DEF ReadDir, Goto
  <2>22. CASE Drain(w)
      BY <2>22, <1>2 DEF Drain
  <2> QED BY <1>8, <2>1, <2>2, <2>3, <2>4, <2>5, <2>6, <2>7, <2>8, <2>9,
             <2>10, <2>11, <2>12, <2>13, <2>14, <2>15, <2>16, <2>17, <2>18,
             <2>19, <2>20, <2>21, <2>22 DEF Worker
<1>9. CASE UNCHANGED vars
    BY <1>9, <1>2 DEF vars
<1> QED BY <1>3, <1>4, <1>5, <1>8, <1>9 DEF Next, Main, Terminated

(* parked_count is the number of workers between an announcement and its   *)
(* withdrawal, and never underflows (queue.rs:147-164).                    *)
THEOREM ParkedCorrect == Safe => []ParkedExact
<1>1. Init => ParkedExact
  <2> SUFFICES ASSUME Init PROVE ParkedExact
      OBVIOUS
  <2>1. announcedSet = {}
      BY DEF Init, announcedSet, Announced
  <2> QED BY <2>1, FS_EmptySet DEF Init, ParkedExact, announcedSet
<1>2. TypeOK /\ ParkedExact /\ [Next]_vars => ParkedExact'
    BY ParkedStep
<1> QED BY <1>1, <1>2, TypeCorrect, PTL DEF Safe

(* A worker never announces, parks or leaves with directories on its own   *)
(* deque, so a wake-up that is missed costs parallelism and not            *)
(* completeness (queue.rs:128-164).                                        *)
THEOREM OwnerCorrect == Safe => []OwnerAwake
<1>1. Init => OwnerAwake
    BY DEF Init, OwnerAwake
<1>2. PoolInv /\ OwnerAwake /\ [Next]_vars => OwnerAwake'
    BY OwnerStep DEF PoolInv
<1> QED BY <1>1, <1>2, PoolInvariant, PTL DEF Safe

-------------------------------------------------------------------------------
(* Nobody sleeps for ever.                                                 *)

(* Only a worker that has raised the flag goes through the unparkers.      *)
Signalled == \A w \in Workers : pc[w] = "broadcast" => shutdown

SleepInv == NoneStranded /\ Signalled

(* A worker that moves on without going to sleep, returning or signalling  *)
(* strands nobody.                                                         *)
LEMMA SleepMove ==
  ASSUME TypeOK, SleepInv, NEW w \in Workers, NEW from, NEW to,
         Goto(w, from, to), from # "broadcast",
         to \notin {"park", "done", "broadcast"},
         shutdown' = shutdown,
         \A u \in Workers : u # w =>
           cursor'[u] = cursor[u] /\ (permit[u] => permit'[u])
  PROVE  SleepInv'
<1>1. /\ pc[w] = from /\ pc'[w] = to
      /\ \A u \in Workers : u # w => pc'[u] = pc[u]
    BY DEF Goto, TypeOK
<1>2. \A u \in Workers : Asleep(u)' => u # w /\ Asleep(u)
    BY <1>1 DEF Asleep
<1>3. ASSUME NEW x \in Workers, Asleep(x)'
      PROVE  \/ ~shutdown' /\ \E v \in Workers : ~Asleep(v)' /\ pc'[v] # "done"
             \/ \E v \in Workers : pc'[v] = "broadcast" /\ cursor'[v] <= x
  <2>1. CASE ~shutdown /\ \E v \in Workers : ~Asleep(v) /\ pc[v] # "done"
    <3>1. PICK v \in Workers : ~Asleep(v) /\ pc[v] # "done"
        BY <2>1
    <3>2. ~Asleep(v)' /\ pc'[v] # "done"
        BY <3>1, <1>1, <1>2
    <3> QED BY <2>1, <3>2
  <2>2. CASE \E v \in Workers : pc[v] = "broadcast" /\ cursor[v] <= x
    <3>1. PICK v \in Workers : pc[v] = "broadcast" /\ cursor[v] <= x
        BY <2>2
    <3>2. pc'[v] = "broadcast" /\ cursor'[v] <= x
        BY <3>1, <1>1
    <3> QED BY <3>2
  <2> QED BY <2>1, <2>2, <1>2, <1>3 DEF SleepInv, NoneStranded
<1>4. Signalled'
    BY <1>1 DEF SleepInv, Signalled
<1> QED BY <1>3, <1>4 DEF SleepInv, NoneStranded

(* A worker that finds dir_pending above zero leaves another one awake:    *)
(* somebody has what is counted in his hands or on his deque.              *)
LEMMA SomeoneAwake ==
  ASSUME QuietInv, OwnerAwake, pending # 0, main \notin {"add", "push"}
  PROVE  /\ ~shutdown
         /\ \E v \in Workers : pc[v] \in Walk \union {"retract", "pop", "unborn"}
<1>1. Counted # {}
    BY FS_EmptySet DEF QuietInv, PoolInv, PendingExact
<1>2. PICK d : d \in Counted
    BY <1>1
<1>3. ~shutdown
    BY <1>1 DEF QuietInv, SafeShutdown
<1>4. PICK u \in Workers : \/ d \in queuedAt[u]
                           \/ pc[u] = "push"
                           \/ cur[u] = d /\ d # NoDir
    BY <1>2, CountedMember
<1>5. CASE d \in queuedAt[u]
  <2>1. deque[u] # <<>>
      BY <1>5 DEF queuedAt, Range
  <2> QED BY <2>1, <1>3 DEF OwnerAwake
<1>6. CASE pc[u] = "push"
    BY <1>6, <1>3 DEF Walk
<1>7. CASE cur[u] = d /\ d # NoDir
    BY <1>7, <1>3 DEF QuietInv, PoolInv, Shape
<1> QED BY <1>4, <1>5, <1>6, <1>7

(* The last look at dir_pending before the park.                           *)
LEMMA SleepCheck ==
  ASSUME QuietInv, OwnerAwake, SleepInv, NEW w \in Workers, CheckPending(w)
  PROVE  SleepInv'
<1>1. TypeOK /\ Shape /\ pc[w] = "check"
    BY DEF QuietInv, PoolInv, CheckPending, Goto
<1>2. UNCHANGED <<shutdown, permit, cursor>>
    BY DEF CheckPending, counters, scratch
<1>3. CASE pending = 0
    BY <1>1, <1>2, <1>3, SleepMove DEF CheckPending
<1>4. CASE pending # 0
  <2>1. main \notin {"add", "push"}
      BY <1>1 DEF Shape
  <2>2. PICK v \in Workers : pc[v] \in Walk \union {"retract", "pop", "unborn"}
      BY <2>1, <1>4, SomeoneAwake
  <2>3. ~shutdown
      BY <2>1, <1>4, SomeoneAwake
  <2>4. pc' = [pc EXCEPT ![w] = "park"]
      BY <1>4 DEF CheckPending, Goto
  <2>5. v # w /\ pc'[v] = pc[v]
      BY <2>2, <2>4, <1>1 DEF Walk, TypeOK
  <2>6. ~Asleep(v)' /\ pc'[v] # "done"
      BY <2>2, <2>5 DEF Asleep, Walk
  <2>7. NoneStranded'
      BY <2>3, <2>6, <1>2 DEF NoneStranded
  <2>8. Signalled'
      BY <2>4, <1>1, <1>2 DEF SleepInv, Signalled, TypeOK
  <2> QED BY <2>7, <2>8 DEF SleepInv
<1> QED BY <1>3, <1>4

(* The flag comes with a broadcast that has everybody before it.           *)
LEMMA SleepSignal ==
  ASSUME TypeOK, SleepInv, NEW w \in Workers, Signal(w)
  PROVE  SleepInv'
<1>1. pc'[w] = "broadcast" /\ cursor'[w] = 0 /\ shutdown' = TRUE
    BY DEF Signal, Goto, TypeOK
<1>2. \A x \in Workers : 0 <= x
    BY DEF Workers
<1>3. NoneStranded'
    BY <1>1, <1>2 DEF NoneStranded
<1> QED BY <1>1, <1>3 DEF SleepInv, Signalled

(* A turn of the broadcast passes a worker only after its permit.          *)
LEMMA SleepBroadcast ==
  ASSUME TypeOK, Shape, SleepInv, NEW w \in Workers, Broadcast(w)
  PROVE  SleepInv'
<1>1. /\ pc[w] = "broadcast" /\ pc'[w] \in {"broadcast", "done"}
      /\ \A u \in Workers : u # w => pc'[u] = pc[u]
    BY DEF Broadcast, UnparkNext, Goto, TypeOK
<1>2. shutdown /\ shutdown'
    BY <1>1 DEF SleepInv, Signalled, Broadcast, UnparkNext, counters
<1>3. cursor[w] \in Workers
    BY <1>1, NAssumption DEF Shape, TypeOK, Workers
<1>4. /\ permit'[cursor[w]]
      /\ \A u \in Workers : u # cursor[w] => permit'[u] = permit[u]
      /\ \A u \in Workers : u # w => cursor'[u] = cursor[u]
    BY <1>3 DEF Broadcast, UnparkNext, TypeOK
<1>5. cursor[w] # N - 1 => pc'[w] = "broadcast" /\ cursor'[w] = cursor[w] + 1
    BY DEF Broadcast, UnparkNext, Goto, TypeOK
<1>6. ASSUME NEW x \in Workers, Asleep(x)'
      PROVE  \E v \in Workers : pc'[v] = "broadcast" /\ cursor'[v] <= x
  <2>1. x # cursor[w] /\ Asleep(x)
      BY <1>1, <1>4, <1>6 DEF Asleep
  <2>2. PICK v \in Workers : pc[v] = "broadcast" /\ cursor[v] <= x
      BY <2>1, <1>2 DEF SleepInv, NoneStranded
  <2>3. CASE v # w
      BY <2>2, <2>3, <1>1, <1>4
  <2>4. CASE v = w
    <3>1. cursor[w] < x
        BY <2>1, <2>2, <2>4, <1>3 DEF Workers
    <3>2. cursor[w] # N - 1 /\ cursor[w] + 1 <= x
        BY <3>1, <1>3, NAssumption DEF Workers
    <3> QED BY <3>2, <1>5
  <2> QED BY <2>3, <2>4
<1>7. NoneStranded'
    BY <1>6 DEF NoneStranded
<1> QED BY <1>2, <1>7 DEF SleepInv, Signalled

(* A worker returns from the loop only when the flag is up.                *)
LEMMA SleepReturn ==
  ASSUME TypeOK, SleepInv, NEW w \in Workers, CheckShutdown(w)
  PROVE  SleepInv'
<1>1. UNCHANGED <<shutdown, permit, cursor>>
    BY DEF CheckShutdown, counters, scratch
<1>2. CASE ~shutdown
    BY <1>1, <1>2, SleepMove DEF CheckShutdown
<1>3. CASE shutdown
  <2>1. pc[w] = "exam" /\ pc' = [pc EXCEPT ![w] = "done"]
      BY <1>3 DEF CheckShutdown, Goto
  <2>2. \A u \in Workers : /\ u # w => pc'[u] = pc[u]
                           /\ u = w => pc'[u] = "done"
      BY <2>1 DEF TypeOK
  <2>3. ASSUME NEW x \in Workers, Asleep(x)'
        PROVE  \E v \in Workers : pc'[v] = "broadcast" /\ cursor'[v] <= x
    <3>1. Asleep(x)
        BY <2>2, <2>3, <1>1 DEF Asleep
    <3>2. PICK v \in Workers : pc[v] = "broadcast" /\ cursor[v] <= x
        BY <3>1, <1>3 DEF SleepInv, NoneStranded
    <3>3. pc'[v] = "broadcast" /\ cursor'[v] <= x
        BY <3>2, <2>1, <2>2, <1>1
    <3> QED BY <3>3
  <2>4. NoneStranded'
      BY <2>3 DEF NoneStranded
  <2> QED BY <2>4, <1>1, <1>3 DEF SleepInv, Signalled
<1> QED BY <1>2, <1>3

(* Every step leaves somebody to wake each sleeper.                        *)
LEMMA SleepStep ==
  ASSUME QuietInv, OwnerAwake, SleepInv, [Next]_vars
  PROVE  SleepInv'
<1> USE DEF history, scratch, counters, threads
<1>1. TypeOK /\ Shape
    BY DEF QuietInv, PoolInv
<1>2. ASSUME UNCHANGED <<pc, shutdown, permit, cursor>> PROVE SleepInv'
    BY <1>2 DEF SleepInv, NoneStranded, Signalled, Asleep
<1>3. CASE SeedAdd \/ SeedPush \/ Join
    BY <1>3, <1>2 DEF SeedAdd, SeedPush, Join
<1>4. ASSUME NEW w \in Workers, Spawn(w) PROVE SleepInv'
    BY <1>4, <1>1, SleepMove DEF Spawn
<1>5. ASSUME NEW w \in Workers, Worker(w) PROVE SleepInv'
  <2>1. CASE PopMiss(w)
      BY <2>1, <1>1, SleepMove DEF PopMiss
  <2>2. CASE StealMiss(w)
    <3>1. \A u \in Workers : u # w => cursor'[u] = cursor[u]
        BY <2>2, <1>1 DEF StealMiss, Sweep, TypeOK
    <3> QED BY <2>2, <3>1, <1>1, SleepMove DEF StealMiss, Sweep
  <2>3. CASE RestealMiss(w)
    <3>1. \A u \in Workers : u # w => cursor'[u] = cursor[u]
        BY <2>3, <1>1 DEF RestealMiss, Sweep, TypeOK
    <3> QED BY <2>3, <3>1, <1>1, SleepMove DEF RestealMiss, Sweep
  <2>4. CASE CheckPending(w)
      BY <2>4, SleepCheck
  <2>5. CASE CheckShutdown(w)
      BY <2>5, <1>1, SleepReturn
  <2>6. CASE Signal(w)
      BY <2>6, <1>1, SleepSignal
  <2>7. CASE Broadcast(w)
      BY <2>7, <1>1, SleepBroadcast
  <2>8. CASE Wake(w)
    <3>1. cursor[w] \in Workers
        BY <2>8, <1>1, NAssumption DEF Wake, UnparkNext, Goto, Shape, TypeOK, Workers
    <3>2. \A u \in Workers : u # w => cursor'[u] = cursor[u] /\ (permit[u] => permit'[u])
        BY <2>8, <3>1, <1>1 DEF Wake, UnparkNext, TypeOK
    <3> QED BY <2>8, <3>2, <1>1, SleepMove DEF Wake, UnparkNext
  <2>9. CASE Park(w)
    <3>1. \A u \in Workers : u # w => permit'[u] = permit[u]
        BY <2>9, <1>1 DEF Park, TypeOK
    <3> QED BY <2>9, <3>1, <1>1, SleepMove DEF Park
  <2>10. CASE MaybeUnpark(w)
    <3>1. \A u \in Workers : u # w => cursor'[u] = cursor[u]
        BY <2>10, <1>1 DEF MaybeUnpark, TypeOK
    <3> QED BY <2>10, <3>1, <1>1, SleepMove DEF MaybeUnpark
  <2>11. CASE ReadDirFails(w)
      BY <2>11, <1>1, SleepMove DEF ReadDirFails
  <2>12. CASE AddDirs(w)
      BY <2>12, <1>1, SleepMove DEF AddDirs
  <2>13. CASE SubDirs(w)
      BY <2>13, <1>1, SleepMove DEF SubDirs
  <2>14. CASE PopHit(w)
      BY <2>14, <1>1, SleepMove DEF PopHit
  <2>15. CASE StealHit(w)
    <3>1. \A u \in Workers : u # w => cursor'[u] = cursor[u]
        BY <2>15, <1>1 DEF StealHit, Take, TypeOK
    <3> QED BY <2>15, <3>1, <1>1, SleepMove DEF StealHit, Take
  <2>16. CASE RestealHit(w)
    <3>1. \A u \in Workers : u # w => cursor'[u] = cursor[u]
        BY <2>16, <1>1 DEF RestealHit, Take, TypeOK
    <3> QED BY <2>16, <3>1, <1>1, SleepMove DEF RestealHit, Take
  <2>17. CASE Push(w)
      BY <2>17, <1>1, SleepMove DEF Push
  <2>18. CASE Announce(w)
      BY <2>18, <1>1, SleepMove DEF Announce
  <2>19. CASE Retract(w) \/ Quit(w) \/ Woken(w)
      BY <2>19, <1>1, SleepMove DEF Retract, Quit, Woken, Unannounce
  <2>20. CASE ReadDir(w)
    <3>1. PICK to \in {"sub", "add"} : pc' = [pc EXCEPT ![w] = to]
        BY <2>20 DEF ReadDir
    <3> QED BY <3>1, <2>20, <1>1, SleepMove DEF ReadDir, Goto
  <2>21. CASE Drain(w)
      BY <2>21, <1>2 DEF Drain
  <2> QED BY <1>5, <2>1, <2>2, <2>3, <2>4, <2>5, <2>6, <2>7, <2>8, <2>9,
             <2>10, <2>11, <2>12, <2>13, <2>14, <2>15, <2>16, <2>17, <2>18,
             <2>19, <2>20, <2>21 DEF Worker
<1>6. CASE UNCHANGED vars
    BY <1>6, <1>2 DEF vars
<1> QED BY <1>3, <1>4, <1>5, <1>6 DEF Next, Main, Terminated

(* Every sleeper will be woken: before the flag somebody is awake, after   *)
(* it a sleeper without a permit is still ahead of a broadcast, for any    *)
(* number of workers and with pushes that are seen late (queue.rs:113-118, *)
(* 155-163).                                                               *)
THEOREM NoneStrandedCorrect == Safe => []NoneStranded
<1>1. Init => SleepInv
    BY DEF Init, SleepInv, NoneStranded, Signalled, Asleep
<1>2. QuietInv /\ OwnerAwake /\ SleepInv /\ [Next]_vars => SleepInv'
    BY SleepStep
<1>3. SleepInv => NoneStranded
    BY DEF SleepInv
<1> QED BY <1>1, <1>2, <1>3, QuietInvariant, OwnerCorrect, PTL DEF Safe

-------------------------------------------------------------------------------
(* No wake-up is lost but to a push that is seen late.                     *)

(* w will sleep without another look at v's deque: it is past it in its    *)
(* second sweep, or past the sweep, and no permit is waiting for it.       *)
LooksAway(w, v) ==
  /\ ~permit[w]
  /\ \/ pc[w] \in {"check", "park"}
     \/ pc[w] = "resteal" /\ \A k \in cursor[w] .. N - 1 : Victim(w, k) # v

(* It may: v will wake it, or what v has could not be seen.                *)
Excused(w, v) == WillWake(v, w) \/ Range(deque[v]) \subseteq overlooked[w]

WakeInv ==
  /\ \A w \in Workers : pc[w] = "announce" => cursor[w] = 1
  /\ \A w, v \in Workers : v # w /\ LooksAway(w, v) => Excused(w, v)

(* A sweep that starts at 1 comes to every other worker.                   *)
LEMMA SweepMeetsAll ==
  ASSUME NEW w \in Workers, NEW v \in Workers, v # w
  PROVE  \E k \in 1 .. N - 1 : Victim(w, k) = v
<1>1. w \in 0 .. N - 1 /\ v \in 0 .. N - 1 /\ N \in Nat \ {0}
    BY NAssumption DEF Workers
<1>2. CASE w < v
  <2>1. v - w \in 1 .. N - 1 /\ w + (v - w) = v
      BY <1>1, <1>2
  <2>2. v % N = v
      BY <1>1
  <2> QED BY <2>1, <2>2 DEF Victim
<1>3. CASE v < w
  <2>1. v - w + N \in 1 .. N - 1 /\ w + (v - w + N) = v + N
      BY <1>1, <1>3
  <2>2. (v + N) % N = v
      BY <1>1
  <2> QED BY <2>1, <2>2 DEF Victim
<1> QED BY <1>1, <1>2, <1>3

(* A sequence without its first or its last element has no new ones.       *)
LEMMA FewerDirs ==
  ASSUME NEW S, NEW s \in Seq(S), s # <<>>
  PROVE  /\ Range(Tail(s)) \subseteq Range(s)
         /\ Range(SubSeq(s, 1, Len(s) - 1)) \subseteq Range(s)
<1>1. Len(s) \in Nat \ {0} /\ DOMAIN s = 1 .. Len(s)
    BY EmptySeq, LenProperties
<1>2. /\ Tail(s) \in Seq(S) /\ Len(Tail(s)) = Len(s) - 1
      /\ \A i \in 1 .. Len(Tail(s)) : Tail(s)[i] = s[i + 1]
    BY HeadTailProperties
<1>3. DOMAIN Tail(s) = 1 .. Len(s) - 1
    BY <1>2, LenProperties
<1>4. \A i \in 1 .. Len(s) - 1 : i + 1 \in DOMAIN s /\ i \in DOMAIN s
    BY <1>1
<1>5. Range(Tail(s)) \subseteq Range(s)
    BY <1>2, <1>3, <1>4 DEF Range
<1> DEFINE front == SubSeq(s, 1, Len(s) - 1)
<1>6. front \in Seq(S) /\ Len(front) = Len(s) - 1 /\ \A i \in 1 .. Len(s) - 1 : front[i] = s[i]
    BY <1>1, SubSeqProperties
<1>7. DOMAIN front = 1 .. Len(s) - 1
    BY <1>6, LenProperties
<1> HIDE DEF front
<1>8. Range(front) \subseteq Range(s)
    BY <1>4, <1>6, <1>7 DEF Range
<1> QED BY <1>5, <1>8 DEF front

(* What an announced worker has overlooked it has overlooked for good.     *)
LEMMA StillOverlooked ==
  ASSUME Overlook, NEW w \in Workers, NEW v \in Workers, LooksAway(w, v)',
         Range(deque[v]) \subseteq overlooked[w], Range(deque[v])' \subseteq Range(deque[v])
  PROVE  Range(deque[v])' \subseteq overlooked'[w]
<1>1. pc'[w] \in Announced
    BY DEF LooksAway, Announced
<1>2. overlooked[w] \subseteq overlooked'[w]
    BY <1>1 DEF Overlook
<1> QED BY <1>2

(* A worker that neither looks away from a deque nor ends a wake-up keeps  *)
(* the invariant, if it pushes nothing and takes nobody else's permit.     *)
LEMMA WakeMove ==
  ASSUME TypeOK, WakeInv, Overlook, NEW x \in Workers, NEW from, NEW to,
         Goto(x, from, to),
         to \notin {"announce", "resteal", "check", "park"},
         from \notin {"push", "peek", "wake"},
         \A v \in Workers : Range(deque[v])' \subseteq Range(deque[v]),
         \A u \in Workers : u # x =>
           cursor'[u] = cursor[u] /\ (permit[u] => permit'[u])
  PROVE  WakeInv'
<1>1. /\ pc[x] = from /\ pc'[x] = to
      /\ \A u \in Workers : u # x => pc'[u] = pc[u]
    BY DEF Goto, TypeOK
<1>2. ASSUME NEW w \in Workers, NEW v \in Workers, v # w, LooksAway(w, v)'
      PROVE  Excused(w, v)'
  <2>1. w # x
      BY <1>1, <1>2 DEF LooksAway
  <2>2. LooksAway(w, v)
      BY <1>1, <1>2, <2>1 DEF LooksAway, Victim
  <2>3. CASE WillWake(v, w)
    <3>1. v # x
        BY <1>1, <2>3 DEF WillWake
    <3> QED BY <1>1, <2>3, <3>1 DEF WillWake, Excused
  <2>4. CASE Range(deque[v]) \subseteq overlooked[w]
      BY <1>2, <2>4, StillOverlooked DEF Excused
  <2> QED BY <1>2, <2>2, <2>3, <2>4 DEF WakeInv, Excused
<1>3. \A w \in Workers : pc'[w] = "announce" => cursor'[w] = 1
    BY <1>1 DEF WakeInv
<1> QED BY <1>2, <1>3 DEF WakeInv

(* Who looks away and did so before is excused as before, if the deques    *)
(* and whoever was to wake it have stayed as they were.                    *)
LEMMA StillExcused ==
  ASSUME WakeInv, Overlook, NEW w \in Workers, NEW v \in Workers, v # w,
         LooksAway(w, v), LooksAway(w, v)', WillWake(v, w) => WillWake(v, w)', deque' = deque
  PROVE  Excused(w, v)'
<1>1. CASE WillWake(v, w)
    BY <1>1 DEF Excused
<1>2. CASE Range(deque[v]) \subseteq overlooked[w]
    BY <1>2, StillOverlooked DEF Excused
<1> QED BY <1>1, <1>2 DEF WakeInv, Excused

(* The sweep before the announcement leaves the cursor at 1.               *)
LEMMA WakeSteal ==
  ASSUME TypeOK, WakeInv, Overlook, NEW x \in Workers, StealMiss(x)
  PROVE  WakeInv'
<1>1. /\ pc[x] = "steal" /\ pc'[x] \in {"steal", "announce"}
      /\ pc'[x] = "announce" => cursor'[x] = 1
      /\ \A u \in Workers : u # x => pc'[u] = pc[u] /\ cursor'[u] = cursor[u]
      /\ UNCHANGED <<deque, permit>>
    BY DEF StealMiss, Sweep, Goto, TypeOK
<1>2. ASSUME NEW w \in Workers, NEW v \in Workers, v # w, LooksAway(w, v)'
      PROVE  Excused(w, v)'
  <2>1. w # x
      BY <1>1, <1>2 DEF LooksAway
  <2>2. LooksAway(w, v)
      BY <1>1, <1>2, <2>1 DEF LooksAway, Victim
  <2>3. WillWake(v, w) => WillWake(v, w)'
      BY <1>1 DEF WillWake
  <2> QED BY <1>1, <1>2, <2>2, <2>3, StillExcused
<1> QED BY <1>1, <1>2 DEF WakeInv

(* The announced worker has all its peers before it.                       *)
LEMMA WakeAnnounce ==
  ASSUME TypeOK, WakeInv, Overlook, NEW x \in Workers, Announce(x)
  PROVE  WakeInv'
<1>1. /\ pc[x] = "announce" /\ pc'[x] = "resteal" /\ cursor[x] = 1
      /\ \A u \in Workers : u # x => pc'[u] = pc[u]
      /\ UNCHANGED <<deque, permit, cursor>>
    BY DEF Announce, Goto, TypeOK, WakeInv, scratch
<1>2. ASSUME NEW w \in Workers, NEW v \in Workers, v # w, LooksAway(w, v)'
      PROVE  Excused(w, v)'
  <2>1. w # x
    <3>1. SUFFICES ASSUME w = x PROVE FALSE
        OBVIOUS
    <3>2. \A k \in 1 .. N - 1 : Victim(x, k) # v
        BY <1>1, <1>2, <3>1 DEF LooksAway, Victim
    <3> QED BY <3>1, <3>2, <1>2, SweepMeetsAll
  <2>2. LooksAway(w, v)
      BY <1>1, <1>2, <2>1 DEF LooksAway, Victim
  <2>3. WillWake(v, w) => WillWake(v, w)'
      BY <1>1 DEF WillWake
  <2> QED BY <1>1, <1>2, <2>2, <2>3, StillExcused
<1> QED BY <1>1, <1>2 DEF WakeInv

(* The second sweep passes a deque of which it can see nothing.            *)
LEMMA WakeResteal ==
  ASSUME TypeOK, WakeInv, Overlook, NEW x \in Workers, RestealMiss(x)
  PROVE  WakeInv'
<1>1. /\ pc[x] = "resteal" /\ pc'[x] \in {"resteal", "check"}
      /\ \A u \in Workers : u # x => pc'[u] = pc[u] /\ cursor'[u] = cursor[u]
      /\ UNCHANGED <<deque, hidden, permit>>
    BY DEF RestealMiss, Sweep, Goto, TypeOK
<1>2. ASSUME NEW w \in Workers, NEW v \in Workers, v # w, LooksAway(w, v)'
      PROVE  Excused(w, v)'
  <2>1. WillWake(v, w) => WillWake(v, w)'
      BY <1>1 DEF WillWake
  <2>2. ASSUME LooksAway(w, v) PROVE Excused(w, v)'
      BY <1>1, <1>2, <2>1, <2>2, StillExcused
  <2>3. CASE w # x
      BY <1>1, <1>2, <2>2, <2>3 DEF LooksAway, Victim
  <2>4. CASE w = x /\ cursor[x] >= N
    <3>1. \A k \in cursor[x] .. N - 1 : Victim(x, k) # v
        BY <2>4, NAssumption DEF TypeOK
    <3> QED BY <3>1, <2>2, <2>4, <1>1, <1>2 DEF LooksAway
  <2>5. CASE w = x /\ cursor[x] < N
    <3>1. /\ Visible(Victim(x, cursor[x])) <= 0
          /\ pc'[x] = "resteal" /\ cursor'[x] = cursor[x] + 1
        BY <2>5, <1>1, NAssumption DEF RestealMiss, Sweep, Goto, TypeOK
    <3>2. CASE Victim(x, cursor[x]) # v
      <4>1. \A k \in cursor[x] + 1 .. N - 1 : Victim(x, k) # v
          BY <1>2, <2>5, <3>1 DEF LooksAway, Victim
      <4>2. \A k \in cursor[x] .. N - 1 : k = cursor[x] \/ k \in cursor[x] + 1 .. N - 1
          BY NAssumption DEF TypeOK
      <4> QED BY <4>1, <4>2, <2>2, <2>5, <3>2, <1>1, <1>2 DEF LooksAway
    <3>3. CASE Victim(x, cursor[x]) = v /\ ~WillWake(v, x)
      <4>1. Passes(x, v)
          BY <1>1, <2>5, <3>1, <3>3 DEF Passes
      <4>2. Range(deque[v]) \subseteq Unseen(v)
        <5>1. DOMAIN deque[v] = 1 .. Len(deque[v]) /\ Len(deque[v]) \in Nat /\ hidden[v] \in Nat
            BY LenProperties DEF TypeOK
        <5>2. \A i \in DOMAIN deque[v] : i > Visible(v)
            BY <3>1, <3>3, <5>1 DEF Visible
        <5> QED BY <5>2 DEF Unseen, Range
      <4>3. pc'[x] \in Announced
          BY <3>1 DEF Announced
      <4>4. Unseen(v) \subseteq overlooked'[x]
          BY <4>1, <4>3 DEF Overlook
      <4> QED BY <1>1, <2>5, <4>2, <4>4 DEF Excused
    <3>4. CASE WillWake(v, x)
        BY <2>1, <2>5, <3>4 DEF Excused
    <3> QED BY <3>2, <3>3, <3>4
  <2> QED BY <2>3, <2>4, <2>5, NAssumption DEF TypeOK
<1> QED BY <1>1, <1>2 DEF WakeInv

(* A worker about to park has looked away already.                         *)
LEMMA WakeCheck ==
  ASSUME TypeOK, WakeInv, Overlook, NEW x \in Workers, CheckPending(x)
  PROVE  WakeInv'
<1>1. /\ pc[x] = "check" /\ pc'[x] \in {"quit", "park"}
      /\ \A u \in Workers : u # x => pc'[u] = pc[u]
      /\ UNCHANGED <<deque, permit, cursor>>
    BY DEF CheckPending, Goto, TypeOK, scratch
<1>2. ASSUME NEW w \in Workers, NEW v \in Workers, v # w, LooksAway(w, v)'
      PROVE  Excused(w, v)'
  <2>1. LooksAway(w, v)
      BY <1>1, <1>2 DEF LooksAway, Victim
  <2>2. WillWake(v, w) => WillWake(v, w)'
      BY <1>1 DEF WillWake
  <2> QED BY <1>1, <1>2, <2>1, <2>2, StillExcused
<1> QED BY <1>1, <1>2 DEF WakeInv

(* Who has pushed looks at parked_count next.                              *)
LEMMA WakePush ==
  ASSUME TypeOK, WakeInv, Overlook, NEW x \in Workers, Push(x)
  PROVE  WakeInv'
<1>1. /\ pc[x] = "push" /\ pc'[x] \in {"push", "peek"}
      /\ \A u \in Workers : u # x => pc'[u] = pc[u] /\ deque'[u] = deque[u]
      /\ UNCHANGED <<permit, cursor>>
    BY DEF Push, Goto, TypeOK
<1>2. ASSUME NEW w \in Workers, NEW v \in Workers, v # w, LooksAway(w, v)'
      PROVE  Excused(w, v)'
  <2>1. CASE v = x
      BY <2>1, <1>1 DEF WillWake, Excused
  <2>2. CASE v # x
    <3>1. w # x
        BY <1>1, <1>2 DEF LooksAway
    <3>2. LooksAway(w, v)
        BY <1>1, <1>2, <3>1 DEF LooksAway, Victim
    <3>3. CASE WillWake(v, w)
        BY <1>1, <2>2, <3>3 DEF WillWake, Excused
    <3>4. CASE Range(deque[v]) \subseteq overlooked[w]
        BY <1>1, <1>2, <2>2, <3>4, StillOverlooked DEF Excused
    <3> QED BY <1>2, <3>2, <3>3, <3>4 DEF WakeInv, Excused
  <2> QED BY <2>1, <2>2
<1> QED BY <1>1, <1>2 DEF WakeInv

(* parked_count is not zero while a worker looks away, so it gets its turn.*)
LEMMA WakePeek ==
  ASSUME TypeOK, ParkedExact, WakeInv, Overlook, NEW x \in Workers, MaybeUnpark(x)
  PROVE  WakeInv'
<1>1. /\ pc[x] = "peek"
      /\ parked > 0 => pc'[x] = "wake" /\ cursor'[x] = 0
      /\ pc'[x] \in {"wake", "sub"}
      /\ \A u \in Workers : u # x => pc'[u] = pc[u] /\ cursor'[u] = cursor[u]
      /\ UNCHANGED <<deque, permit>>
    BY DEF MaybeUnpark, Goto, TypeOK
<1>2. ASSUME NEW w \in Workers, NEW v \in Workers, v # w, LooksAway(w, v)'
      PROVE  Excused(w, v)'
  <2>1. w # x
      BY <1>1, <1>2 DEF LooksAway
  <2>2. LooksAway(w, v)
      BY <1>1, <1>2, <2>1 DEF LooksAway, Victim
  <2>3. WillWake(v, w) => WillWake(v, w)'
    <3>1. CASE v # x
        BY <1>1, <3>1 DEF WillWake
    <3>2. CASE v = x
      <4>1. w \in announcedSet /\ announcedSet \subseteq Workers
          BY <2>2 DEF LooksAway, announcedSet, Announced
      <4>2. IsFiniteSet(announcedSet)
          BY <4>1, AnnouncedSize
      <4>3. Cardinality(announcedSet) # 0
          BY <4>1, <4>2, FS_EmptySet
      <4>4. parked > 0
          BY <4>3 DEF ParkedExact, announcedSet, TypeOK
      <4> QED BY <1>1, <3>2, <4>4 DEF WillWake, Workers
    <3> QED BY <3>1, <3>2
  <2> QED BY <1>1, <1>2, <2>2, <2>3, StillExcused
<1> QED BY <1>1, <1>2 DEF WakeInv

(* A turn of the wake-up passes a worker only after its permit.            *)
LEMMA WakeWake ==
  ASSUME TypeOK, Shape, WakeInv, Overlook, NEW x \in Workers, Wake(x)
  PROVE  WakeInv'
<1>1. /\ pc[x] = "wake" /\ pc'[x] \in {"wake", "sub"}
      /\ \A u \in Workers : u # x => pc'[u] = pc[u] /\ cursor'[u] = cursor[u]
      /\ UNCHANGED deque
    BY DEF Wake, UnparkNext, Goto, TypeOK
<1>2. cursor[x] \in Workers
    BY <1>1, NAssumption DEF Shape, TypeOK, Workers
<1>3. /\ permit'[cursor[x]]
      /\ \A u \in Workers : u # cursor[x] => permit'[u] = permit[u]
    BY <1>2 DEF Wake, UnparkNext, TypeOK
<1>4. cursor[x] # N - 1 => pc'[x] = "wake" /\ cursor'[x] = cursor[x] + 1
    BY DEF Wake, UnparkNext, Goto, TypeOK
<1>5. ASSUME NEW w \in Workers, NEW v \in Workers, v # w, LooksAway(w, v)'
      PROVE  Excused(w, v)'
  <2>1. w # x /\ w # cursor[x]
      BY <1>1, <1>3, <1>5 DEF LooksAway
  <2>2. LooksAway(w, v)
      BY <1>1, <1>3, <1>5, <2>1 DEF LooksAway, Victim
  <2>3. WillWake(v, w) => WillWake(v, w)'
    <3>1. CASE v # x
        BY <1>1, <3>1 DEF WillWake
    <3>2. CASE v = x /\ WillWake(v, w)
      <4>1. cursor[x] <= w
          BY <1>1, <3>2 DEF WillWake
      <4>2. cursor[x] # N - 1 /\ cursor[x] + 1 <= w
          BY <4>1, <2>1, <1>2, NAssumption DEF Workers
      <4> QED BY <3>2, <4>2, <1>4 DEF WillWake
    <3> QED BY <3>1, <3>2
  <2> QED BY <1>1, <1>5, <2>2, <2>3, StillExcused
<1> QED BY <1>1, <1>5 DEF WakeInv

(* Every step leaves those who looked away to be woken.                    *)
LEMMA WakeStep ==
  ASSUME TypeOK, Shape, ParkedExact, WakeInv, [OverlookedNext]_<<vars, overlooked>>
  PROVE  WakeInv'
<1> USE DEF history, scratch, counters, threads
<1> SUFFICES ASSUME Overlook, Next PROVE WakeInv'
    BY DEF OverlookedNext, WakeInv, LooksAway, Excused, WillWake, Victim, vars
<1>1. ASSUME UNCHANGED <<pc, deque, permit, cursor>> PROVE WakeInv'
  <2>1. ASSUME NEW w \in Workers, NEW v \in Workers, v # w, LooksAway(w, v)'
        PROVE  Excused(w, v)'
    <3>1. LooksAway(w, v) /\ (WillWake(v, w) => WillWake(v, w)')
        BY <1>1, <2>1 DEF LooksAway, WillWake, Victim
    <3> QED BY <1>1, <2>1, <3>1, StillExcused
  <2> QED BY <1>1, <2>1 DEF WakeInv
<1>2. CASE SeedAdd \/ Join
    BY <1>2, <1>1 DEF SeedAdd, Join
<1>3. CASE SeedPush
  <2>1. UNCHANGED <<pc, permit, cursor>> /\ \A u \in Workers : pc[u] = "unborn"
      BY <1>3 DEF SeedPush, Shape
  <2> QED BY <2>1 DEF WakeInv, LooksAway
<1>4. ASSUME NEW w \in Workers, Spawn(w) PROVE WakeInv'
    BY <1>4, WakeMove DEF Spawn
<1>5. ASSUME NEW w \in Workers, Worker(w) PROVE WakeInv'
  <2>1. CASE PopMiss(w)
      BY <2>1, WakeMove DEF PopMiss
  <2>2. CASE StealMiss(w)
      BY <2>2, WakeSteal
  <2>3. CASE RestealMiss(w)
      BY <2>3, WakeResteal
  <2>4. CASE CheckPending(w)
      BY <2>4, WakeCheck
  <2>5. CASE CheckShutdown(w)
      BY <2>5, WakeMove DEF CheckShutdown
  <2>6. CASE Signal(w)
    <3>1. \A u \in Workers : u # w => cursor'[u] = cursor[u]
        BY <2>6 DEF Signal, TypeOK
    <3> QED BY <2>6, <3>1, WakeMove DEF Signal
  <2>7. CASE Broadcast(w)
    <3>1. cursor[w] \in Workers
        BY <2>7, NAssumption DEF Broadcast, UnparkNext, Goto, Shape, TypeOK, Workers
    <3>2. \A u \in Workers : u # w => cursor'[u] = cursor[u] /\ (permit[u] => permit'[u])
        BY <2>7, <3>1 DEF Broadcast, UnparkNext, TypeOK
    <3> QED BY <2>7, <3>2, WakeMove DEF Broadcast, UnparkNext
  <2>8. CASE Wake(w)
      BY <2>8, WakeWake
  <2>9. CASE Park(w)
    <3>1. \A u \in Workers : u # w => permit'[u] = permit[u]
        BY <2>9 DEF Park, TypeOK
    <3> QED BY <2>9, <3>1, WakeMove DEF Park
  <2>10. CASE MaybeUnpark(w)
      BY <2>10, WakePeek
  <2>11. CASE ReadDirFails(w)
      BY <2>11, WakeMove DEF ReadDirFails
  <2>12. CASE AddDirs(w)
      BY <2>12, WakeMove DEF AddDirs
  <2>13. CASE SubDirs(w)
      BY <2>13, WakeMove DEF SubDirs
  <2>14. CASE PopHit(w)
    <3>1. deque[w] \in Seq(Dirs) /\ deque[w] # <<>>
        BY <2>14 DEF PopHit, TypeOK
    <3>2. \A v \in Workers : Range(deque[v])' \subseteq Range(deque[v])
        BY <2>14, <3>1, FewerDirs DEF PopHit, TypeOK
    <3> QED BY <2>14, <3>2, WakeMove DEF PopHit
  <2>15. ASSUME NEW v \in Workers, Take(w, v)
         PROVE  /\ \A u \in Workers : Range(deque[u])' \subseteq Range(deque[u])
                /\ \A u \in Workers : u # w => cursor'[u] = cursor[u]
    <3>1. deque[v] \in Seq(Dirs) /\ deque[v] # <<>>
        BY <2>15, EmptySeq DEF Take, Visible, TypeOK
    <3> QED BY <2>15, <3>1, FewerDirs DEF Take, TypeOK
  <2>16. Victim(w, cursor[w]) \in Workers
      BY VictimIsWorker DEF TypeOK
  <2>17. CASE StealHit(w)
      BY <2>17, <2>15, <2>16, WakeMove DEF StealHit, Take
  <2>18. CASE RestealHit(w)
      BY <2>18, <2>15, <2>16, WakeMove DEF RestealHit, Take
  <2>19. CASE Push(w)
      BY <2>19, WakePush
  <2>20. CASE Announce(w)
      BY <2>20, WakeAnnounce
  <2>21. CASE Retract(w) \/ Quit(w) \/ Woken(w)
      BY <2>21, WakeMove DEF Retract, Quit, Woken, Unannounce
  <2>22. CASE ReadDir(w)
    <3>1. PICK to \in {"sub", "add"} : pc' = [pc EXCEPT ![w] = to]
        BY <2>22 DEF ReadDir
    <3> QED BY <3>1, <2>22, WakeMove DEF ReadDir, Goto
  <2>23. CASE Drain(w)
      BY <2>23, <1>1 DEF Drain
  <2> QED BY <1>5, <2>1, <2>2, <2>3, <2>4, <2>5, <2>6, <2>7, <2>8, <2>9, <2>10, <2>11, <2>12,
             <2>13, <2>14, <2>17, <2>18, <2>19, <2>20, <2>21, <2>22, <2>23 DEF Worker
<1>6. CASE Terminated
    BY <1>6, <1>1 DEF Terminated, vars
<1> QED BY <1>2, <1>3, <1>4, <1>5, <1>6 DEF Next, Main

(* For any number of workers, any tree and pushes seen late or at once: a  *)
(* worker that sleeps while a peer has something for it is about to be     *)
(* woken by that peer, or it passed over it while the push was in the      *)
(* peer's store buffer and the peer done with parked_count.  So what       *)
(* queue.rs:143-146 promises needs a fence between the push and that load  *)
(* (queue.rs:88), and nothing else.                                        *)
THEOREM OnlyOverlookedCorrect == OverlookedSafe => []OnlyOverlooked
<1>1. OverlookedInit => Init /\ WakeInv
    BY DEF OverlookedInit, Init, WakeInv, LooksAway
<1>2. [OverlookedNext]_<<vars, overlooked>> => [Next]_vars
    BY DEF OverlookedNext
<1>3. PoolInv /\ ParkedExact /\ WakeInv /\ [OverlookedNext]_<<vars, overlooked>> => WakeInv'
    BY WakeStep DEF PoolInv
<1>4. WakeInv => OnlyOverlooked
    BY DEF WakeInv, OnlyOverlooked, Asleep, LooksAway, Excused
<1> QED BY <1>1, <1>2, <1>3, <1>4, PoolInvariant, ParkedCorrect, PTL DEF OverlookedSafe, Safe

-------------------------------------------------------------------------------
(* Each deque is the stack of a depth-first walk.                          *)

(* Worker w's deque lies below or beside the directory in its hands, which *)
(* is what its next pushes are children of.                                *)
BelowHand(w) ==
  cur[w] # NoDir =>
    \A i \in DOMAIN deque[w] :
      deque[w][i] # Root /\ Parent[deque[w][i]] \in AncestorsOrSelf[cur[w]]

KidsOfHand(w) == \A i \in DOMAIN kids[w] : kids[w][i] # Root /\ Parent[kids[w][i]] = cur[w]

StackInv ==
  /\ Root \in walked \/ found = {Root}
  /\ DepthFirst
  /\ \A w \in Workers : BelowHand(w) /\ KidsOfHand(w)

(* A directory is on its own way up, and its parent's way is part of it.   *)
LEMMA WayUp ==
  ASSUME NEW d \in Dirs
  PROVE  /\ d \in AncestorsOrSelf[d]
         /\ d # Root /\ Parent[d] \in Dirs
              => AncestorsOrSelf[Parent[d]] \subseteq AncestorsOrSelf[d]
<1>1. d \in AncestorsOrSelf[d]
    BY DEF AncestorsOrSelf
<1>2. ASSUME d # Root, Parent[d] \in Dirs, NEW x \in AncestorsOrSelf[Parent[d]]
      PROVE  x \in AncestorsOrSelf[d]
  <2>1. x \in Dirs
      BY <1>2 DEF AncestorsOrSelf
  <2>2. ASSUME NEW S \in SUBSET Dirs, d \in S, Upward(S) PROVE x \in S
    <3>1. Parent[d] \in S
        BY <1>2, <2>2 DEF Upward
    <3> QED BY <1>2, <2>2, <3>1 DEF AncestorsOrSelf
  <2> QED BY <2>1, <2>2 DEF AncestorsOrSelf
<1> QED BY <1>1, <1>2

(* Until the root has been walked it is alone, so on a deque with another  *)
(* directory it is not to be found.                                        *)
LEMMA RootAlone ==
  ASSUME PoolInv, StackInv, NEW w \in Workers,
         NEW i \in DOMAIN deque[w], NEW j \in DOMAIN deque[w], i # j
  PROVE  /\ deque[w][i] \in Dirs /\ deque[w][i] # Root
         /\ Parent[deque[w][i]] \in Dirs
<1>1. /\ deque[w] \in Seq(Dirs) /\ queuedAt[w] = Range(deque[w])
      /\ walked \subseteq Dirs /\ IsInjective(deque[w])
    BY DEF PoolInv, TypeOK, queuedAt, Distinct
<1>2. /\ deque[w][i] \in queuedAt[w] /\ deque[w][j] \in queuedAt[w]
      /\ deque[w][i] # deque[w][j]
    BY <1>1 DEF Range, IsInjective
<1>3. deque[w][i] \in Dirs /\ deque[w][i] \in found /\ deque[w][j] \in found
    BY <1>1, <1>2, QueuedType DEF PoolInv, Known
<1>4. Root \in walked
    BY <1>2, <1>3 DEF StackInv
<1>5. deque[w][i] # Root
    BY <1>2, <1>3, <1>4 DEF PoolInv, Distinct
<1>6. Parent[deque[w][i]] \in Dirs
    BY <1>1, <1>3, <1>5 DEF PoolInv, Known
<1> QED BY <1>3, <1>5, <1>6

(* What is left of a deque when an entry at one of its ends is gone.       *)
LEMMA ShorterStack ==
  ASSUME PoolInv, StackInv, NEW v \in Workers, NEW s \in Seq(Dirs), NEW k \in {0, 1},
         Len(s) = Len(deque[v]) - 1,
         \A i \in DOMAIN s : s[i] = deque[v][i + k],
         deque' = [deque EXCEPT ![v] = s]
  PROVE  /\ DepthFirst'
         /\ \A w \in Workers : cur'[w] = cur[w] /\ BelowHand(w) => BelowHand(w)'
<1>1. /\ DOMAIN s = 1 .. Len(s) /\ Len(s) \in Nat
      /\ DOMAIN deque[v] = 1 .. Len(deque[v]) /\ Len(deque[v]) \in Nat
    BY LenProperties DEF PoolInv, TypeOK
<1>2. \A i \in DOMAIN s : i + k \in DOMAIN deque[v] /\ i \in Int
    BY <1>1
<1>3. deque'[v] = s /\ \A u \in Workers : u # v => deque'[u] = deque[u]
    BY DEF PoolInv, TypeOK
<1>4. ASSUME NEW i \in DOMAIN s, NEW j \in DOMAIN s, i < j, s[i] # Root
      PROVE  Parent[s[i]] \in AncestorsOrSelf[Parent[s[j]]]
  <2>1. i + k \in DOMAIN deque[v] /\ j + k \in DOMAIN deque[v] /\ i + k < j + k
      BY <1>2, <1>4
  <2> QED BY <1>4, <2>1 DEF StackInv, DepthFirst
<1>5. DepthFirst'
    BY <1>3, <1>4 DEF StackInv, DepthFirst
<1>6. ASSUME NEW w \in Workers, cur'[w] = cur[w], BelowHand(w) PROVE BelowHand(w)'
    BY <1>2, <1>3, <1>6 DEF BelowHand
<1> QED BY <1>5, <1>6

(* The newest entry's way up goes through the parents of all the others.   *)
LEMMA StackPop ==
  ASSUME PoolInv, StackInv, NEW w \in Workers, PopHit(w)
  PROVE  StackInv'
<1> DEFINE n == Len(deque[w])
           s == SubSeq(deque[w], 1, n - 1)
<1>1. /\ deque[w] \in Seq(Dirs) /\ n \in Nat \ {0} /\ DOMAIN deque[w] = 1 .. n
    BY EmptySeq, LenProperties DEF PoolInv, TypeOK, PopHit
<1>2. /\ s \in Seq(Dirs) /\ Len(s) = n - 1
      /\ \A i \in 1 .. n - 1 : s[i] = deque[w][i]
    BY <1>1, SubSeqProperties
<1>3. DOMAIN s = 1 .. n - 1
    BY <1>2, LenProperties
<1>4. /\ deque' = [deque EXCEPT ![w] = s] /\ cur' = [cur EXCEPT ![w] = deque[w][n]]
      /\ UNCHANGED <<kids, walked, found>> /\ pc[w] = "pop"
    BY DEF PopHit, Goto, history
<1>5. deque'[w] = s /\ cur'[w] = deque[w][n]
      /\ \A u \in Workers : u # w => cur'[u] = cur[u]
    BY <1>4 DEF PoolInv, TypeOK
<1> HIDE DEF s, n
<1>6. \A i \in DOMAIN s : s[i] = deque[w][i + 0]
    BY <1>1, <1>2, <1>3
<1>7. /\ DepthFirst'
      /\ \A u \in Workers : cur'[u] = cur[u] /\ BelowHand(u) => BelowHand(u)'
    BY <1>2, <1>4, <1>6, ShorterStack DEF n
<1>8. BelowHand(w)'
  <2>1. ASSUME NEW i \in DOMAIN s
        PROVE  s[i] # Root /\ Parent[s[i]] \in AncestorsOrSelf[deque[w][n]]
    <3>1. i \in DOMAIN deque[w] /\ n \in DOMAIN deque[w] /\ i # n /\ i < n /\ s[i] = deque[w][i]
        BY <1>1, <1>2, <1>3
    <3>2. /\ deque[w][i] # Root /\ deque[w][n] # Root
          /\ deque[w][n] \in Dirs /\ Parent[deque[w][n]] \in Dirs
        BY <3>1, RootAlone
    <3>3. Parent[deque[w][i]] \in AncestorsOrSelf[Parent[deque[w][n]]]
        BY <3>1, <3>2 DEF StackInv, DepthFirst
    <3> QED BY <3>1, <3>2, <3>3, WayUp
  <2> QED BY <1>5, <2>1 DEF BelowHand
<1>9. \A u \in Workers : BelowHand(u)'
    BY <1>5, <1>7, <1>8 DEF StackInv
<1>10. kids[w] = <<>>
    BY <1>4 DEF PoolInv, Shape
<1>11. \A u \in Workers : KidsOfHand(u)'
    BY <1>4, <1>5, <1>10 DEF StackInv, KidsOfHand
<1> QED BY <1>4, <1>7, <1>9, <1>11 DEF StackInv

(* A thief has no directories of its own, and takes the victim's oldest.   *)
LEMMA StackSteal ==
  ASSUME PoolInv, OwnerAwake, StackInv, NEW w \in Workers, NEW v \in Workers,
         NEW from \in {"steal", "resteal"}, NEW to, Goto(w, from, to), Take(w, v)
  PROVE  StackInv'
<1>1. /\ deque[v] \in Seq(Dirs) /\ hidden[v] \in Nat /\ hidden[v] < Len(deque[v])
      /\ Len(deque[v]) \in Nat /\ DOMAIN deque[v] = 1 .. Len(deque[v])
    BY LenProperties DEF PoolInv, TypeOK, Take, Visible
<1> DEFINE s == Tail(deque[v])
<1>2. deque[v] # <<>>
    BY <1>1, EmptySeq
<1>3. /\ s \in Seq(Dirs) /\ Len(s) = Len(deque[v]) - 1
      /\ \A i \in 1 .. Len(s) : s[i] = deque[v][i + 1]
    BY <1>1, <1>2, HeadTailProperties
<1>4. DOMAIN s = 1 .. Len(s)
    BY <1>3, LenProperties
<1>5. /\ deque' = [deque EXCEPT ![v] = s] /\ cur' = [cur EXCEPT ![w] = Head(deque[v])]
      /\ UNCHANGED <<kids, walked, found>> /\ pc[w] \in {"steal", "resteal"}
    BY DEF Take, Goto, history
<1> HIDE DEF s
<1>6. deque[w] = <<>> /\ w # v /\ kids[w] = <<>>
    BY <1>2, <1>5 DEF OwnerAwake, Walk, PoolInv, Shape
<1>7. deque'[w] = <<>> /\ \A u \in Workers : u # w => cur'[u] = cur[u]
    BY <1>5, <1>6 DEF PoolInv, TypeOK
<1>8. /\ DepthFirst'
      /\ \A u \in Workers : cur'[u] = cur[u] /\ BelowHand(u) => BelowHand(u)'
    BY <1>3, <1>4, <1>5, ShorterStack
<1>9. \A u \in Workers : BelowHand(u)'
    BY <1>7, <1>8 DEF StackInv, BelowHand
<1>10. \A u \in Workers : KidsOfHand(u)'
    BY <1>5, <1>6, <1>7 DEF StackInv, KidsOfHand
<1> QED BY <1>5, <1>8, <1>9, <1>10 DEF StackInv

(* A pushed directory is a child of the one in hand.                       *)
LEMMA StackPush ==
  ASSUME PoolInv, StackInv, NEW w \in Workers, Push(w)
  PROVE  StackInv'
<1> DEFINE n == Len(deque[w])
           x == Head(kids[w])
           s == Append(deque[w], x)
<1>1. /\ deque[w] \in Seq(Dirs) /\ n \in Nat /\ DOMAIN deque[w] = 1 .. n
      /\ kids[w] \in Seq(Dirs) /\ kids[w] # <<>>
    BY LenProperties DEF PoolInv, TypeOK, Shape, Push, Goto
<1>2. /\ x = kids[w][1] /\ 1 \in DOMAIN kids[w] /\ x \in Dirs
      /\ Tail(kids[w]) \in Seq(Dirs) /\ Len(Tail(kids[w])) = Len(kids[w]) - 1
      /\ \A i \in 1 .. Len(Tail(kids[w])) : Tail(kids[w])[i] = kids[w][i + 1]
      /\ Len(kids[w]) \in Nat \ {0} /\ DOMAIN kids[w] = 1 .. Len(kids[w])
    BY <1>1, HeadTailProperties, LenProperties, EmptySeq
<1>3. DOMAIN Tail(kids[w]) = 1 .. Len(Tail(kids[w]))
    BY <1>2, LenProperties
<1>4. /\ deque' = [deque EXCEPT ![w] = s] /\ kids' = [kids EXCEPT ![w] = Tail(kids[w])]
      /\ UNCHANGED <<cur, walked, found>> /\ pc[w] = "push"
    BY DEF Push, Goto, history, PoolInv, TypeOK
<1>5. /\ s \in Seq(Dirs) /\ Len(s) = n + 1 /\ s[n + 1] = x
      /\ \A i \in 1 .. n : s[i] = deque[w][i]
    BY <1>1, <1>2, AppendProperties
<1>6. DOMAIN s = 1 .. n + 1
    BY <1>5, LenProperties
<1>7. /\ deque'[w] = s /\ kids'[w] = Tail(kids[w])
      /\ \A u \in Workers : u # w => deque'[u] = deque[u] /\ kids'[u] = kids[u]
    BY <1>4 DEF PoolInv, TypeOK
<1> HIDE DEF n, s, x
<1>8. cur[w] \in Dirs /\ cur[w] # NoDir /\ x # Root /\ Parent[x] = cur[w]
    BY <1>2, <1>4 DEF PoolInv, Shape, TypeOK, Walk, StackInv, KidsOfHand
<1>9. \A i \in 1 .. n : s[i] # Root /\ Parent[s[i]] \in AncestorsOrSelf[cur[w]]
    BY <1>1, <1>5, <1>8 DEF StackInv, BelowHand
<1>10. ASSUME NEW i \in DOMAIN s
       PROVE  s[i] # Root /\ Parent[s[i]] \in AncestorsOrSelf[cur[w]]
  <2>1. CASE i \in 1 .. n
      BY <2>1, <1>9
  <2>2. CASE i = n + 1
      BY <2>2, <1>5, <1>8, WayUp
  <2> QED BY <2>1, <2>2, <1>1, <1>6
<1>11. ASSUME NEW i \in DOMAIN s, NEW j \in DOMAIN s, i < j
       PROVE  Parent[s[i]] \in AncestorsOrSelf[Parent[s[j]]]
  <2>1. CASE j = n + 1
      BY <2>1, <1>5, <1>8, <1>10
  <2>2. CASE j # n + 1
    <3>1. i \in DOMAIN deque[w] /\ j \in DOMAIN deque[w] /\ s[i] = deque[w][i] /\ s[j] = deque[w][j]
        BY <2>2, <1>1, <1>5, <1>6, <1>11
    <3> QED BY <3>1, <1>10, <1>11 DEF StackInv, DepthFirst
  <2> QED BY <2>1, <2>2
<1>12. DepthFirst'
    BY <1>7, <1>11 DEF StackInv, DepthFirst
<1>13. \A u \in Workers : BelowHand(u)'
    BY <1>4, <1>7, <1>10 DEF StackInv, BelowHand
<1>14. \A i \in DOMAIN Tail(kids[w]) :
         Tail(kids[w])[i] # Root /\ Parent[Tail(kids[w])[i]] = cur[w]
  <2>1. \A i \in DOMAIN Tail(kids[w]) :
          i + 1 \in DOMAIN kids[w] /\ Tail(kids[w])[i] = kids[w][i + 1]
      BY <1>2, <1>3
  <2> QED BY <2>1 DEF StackInv, KidsOfHand
<1>15. \A u \in Workers : KidsOfHand(u)'
    BY <1>4, <1>7, <1>14 DEF StackInv, KidsOfHand
<1> QED BY <1>4, <1>12, <1>13, <1>15 DEF StackInv

(* The subdirectories that a pass over a directory finds are its children. *)
LEMMA StackRead ==
  ASSUME PoolInv, StackInv, NEW w \in Workers, ReadDir(w)
  PROVE  StackInv'
<1>1. cur[w] \in Dirs /\ cur[w] # NoDir /\ cur[w] \in found
    BY DEF PoolInv, Shape, TypeOK, Known, Walk, ReadDir
<1>2. PICK s \in Readings[cur[w]] : kids' = [kids EXCEPT ![w] = s]
    BY DEF ReadDir
<1>3. s \in Seq(Dirs \ {Root}) /\ \A i \in DOMAIN s : Parent[s[i]] = cur[w]
    BY <1>1, <1>2, TreeAssumption
<1>4. \A i \in DOMAIN s : s[i] # Root
    BY <1>3, LenProperties, ElementOfSeq
<1>5. UNCHANGED <<deque, cur>> /\ walked' = walked \union {cur[w]}
    BY DEF ReadDir
<1>6. kids'[w] = s /\ \A u \in Workers : u # w => kids'[u] = kids[u]
    BY <1>2 DEF PoolInv, TypeOK
<1>7. \A u \in Workers : KidsOfHand(u)'
    BY <1>3, <1>4, <1>5, <1>6 DEF StackInv, KidsOfHand
<1>8. Root \in walked'
    BY <1>1, <1>5 DEF StackInv
<1>9. DepthFirst' /\ \A u \in Workers : BelowHand(u)'
    BY <1>5 DEF StackInv, DepthFirst, BelowHand
<1> QED BY <1>7, <1>8, <1>9 DEF StackInv

(* Who has another directory in hand, but for finishing one, obtained it.  *)
LEMMA CurMoves ==
  ASSUME TypeOK, [Next]_vars, cur' # cur,
         \A w \in Workers : pc'[w] = "pop" => cur'[w] = cur[w]
  PROVE  \E w \in Workers : PopHit(w) \/ StealHit(w) \/ RestealHit(w)
<1> USE DEF scratch
<1>1. ~Main /\ ~Terminated /\ ~UNCHANGED vars
    BY DEF Main, SeedAdd, SeedPush, Spawn, Join, Terminated, vars
<1>2. PICK w \in Workers : Worker(w)
    BY <1>1 DEF Next
<1>3. ~SubDirs(w)
  <2>1. SubDirs(w) => pc'[w] = "pop" /\ cur' = [cur EXCEPT ![w] = cur'[w]]
      BY DEF SubDirs, Goto, TypeOK
  <2> QED BY <2>1 DEF TypeOK
<1>4. ~(PopMiss(w) \/ StealMiss(w) \/ Announce(w) \/ RestealMiss(w) \/ Retract(w))
    BY DEF PopMiss, StealMiss, Sweep, Announce, RestealMiss, Retract, Unannounce
<1>5. ~(CheckPending(w) \/ Quit(w) \/ Signal(w) \/ Broadcast(w) \/ Park(w) \/ Woken(w))
    BY DEF CheckPending, Quit, Unannounce, Signal, Broadcast, UnparkNext, Park, Woken
<1>6. ~(CheckShutdown(w) \/ ReadDir(w) \/ ReadDirFails(w) \/ AddDirs(w) \/ Push(w))
    BY DEF CheckShutdown, ReadDir, ReadDirFails, AddDirs, Push
<1>7. ~(MaybeUnpark(w) \/ Wake(w) \/ Drain(w))
    BY DEF MaybeUnpark, Wake, UnparkNext, Drain
<1> QED BY <1>2, <1>3, <1>4, <1>5, <1>6, <1>7 DEF Worker

(* Every step keeps each deque the stack of a depth-first walk.            *)
LEMMA StackStep ==
  ASSUME PoolInv, OwnerAwake, StackInv, [Next]_vars
  PROVE  StackInv'
<1>1. ASSUME UNCHANGED <<deque, cur, kids, found>>, walked \subseteq walked' PROVE StackInv'
    BY <1>1 DEF StackInv, DepthFirst, BelowHand, KidsOfHand
<1>2. CASE Idle \/ SeedAdd
    BY <1>2, <1>1 DEF Idle, Quiet, SeedAdd, scratch, history
<1>3. CASE SeedPush
  <2>1. \A u \in Workers : cur[u] = NoDir /\ deque[u] = <<>>
      BY <1>3 DEF SeedPush, PoolInv, Shape, Walk
  <2>2. UNCHANGED <<cur, kids, found, walked>>
      BY <1>3 DEF SeedPush, scratch, history
  <2>3. 0 \in Workers
      BY NAssumption DEF Workers
  <2>4. deque' = [deque EXCEPT ![0] = Append(deque[0], Root)]
      BY <1>3 DEF SeedPush
  <2>5. \A u \in Workers : deque'[u] = <<>> \/ deque'[u] = Append(<<>>, Root)
      BY <2>1, <2>3, <2>4 DEF PoolInv, TypeOK
  <2>6. DepthFirst'
      BY <2>5 DEF DepthFirst
  <2> QED BY <2>1, <2>2, <2>6 DEF StackInv, BelowHand, KidsOfHand
<1>4. ASSUME NEW w \in Workers, PopHit(w) PROVE StackInv'
    BY <1>4, StackPop
<1>5. ASSUME NEW w \in Workers, StealHit(w) \/ RestealHit(w) PROVE StackInv'
  <2>1. Victim(w, cursor[w]) \in Workers
      BY VictimIsWorker DEF PoolInv, TypeOK
  <2> QED BY <1>5, <2>1, StackSteal DEF StealHit, RestealHit
<1>6. ASSUME NEW w \in Workers, NEW v \in Workers, NEW x \in Dirs, Obtains(w, v, x)
      PROVE  StackInv'
  <2>1. /\ pc[w] \in {"pop", "steal", "resteal"} /\ pc'[w] \in {"read", "retract"}
        /\ cur'[w] = x /\ \A u \in Workers : u # w => cur'[u] = cur[u]
      BY <1>6 DEF Obtains, PoolInv, TypeOK
  <2>2. cur[w] = NoDir /\ cur'[w] # NoDir
      BY <2>1, TreeAssumption DEF PoolInv, Shape, Walk
  <2>3. PICK u \in Workers : PopHit(u) \/ StealHit(u) \/ RestealHit(u)
    <3>1. cur' # cur /\ \A u \in Workers : pc'[u] = "pop" => cur'[u] = cur[u]
        BY <2>1, <2>2
    <3> QED BY <3>1, CurMoves DEF PoolInv
  <2> QED BY <2>3, <1>4, <1>5
<1>7. ASSUME NEW w \in Workers, ReadDir(w) \/ ReadDirFails(w) PROVE StackInv'
    BY <1>7, <1>1, StackRead DEF ReadDirFails, scratch
<1>8. ASSUME NEW w \in Workers, AddDirs(w) PROVE StackInv'
    BY <1>8, <1>1 DEF AddDirs, scratch, history
<1>9. ASSUME NEW w \in Workers, Push(w) PROVE StackInv'
    BY <1>9, StackPush
<1>10. ASSUME NEW w \in Workers, SubDirs(w) PROVE StackInv'
  <2>1. /\ UNCHANGED <<deque, kids, found, walked>> /\ pc[w] = "sub"
        /\ cur'[w] = NoDir /\ \A u \in Workers : u # w => cur'[u] = cur[u]
      BY <1>10 DEF SubDirs, Goto, history, PoolInv, TypeOK
  <2>2. kids[w] = <<>>
      BY <2>1 DEF PoolInv, Shape
  <2>3. DepthFirst' /\ \A u \in Workers : BelowHand(u)' /\ KidsOfHand(u)'
      BY <2>1, <2>2 DEF StackInv, DepthFirst, BelowHand, KidsOfHand
  <2> QED BY <2>1, <2>3 DEF StackInv
<1> QED BY <1>2, <1>3, <1>6, <1>7, <1>8, <1>9, <1>10, StepKinds DEF PoolInv

(* The owner's LIFO and the thieves' FIFO keep a deque to the siblings     *)
(* along one path, for any number of workers and any tree (queue.rs:52,    *)
(* 98-117, walker.rs:184-187).                                             *)
THEOREM DepthFirstCorrect == Safe => []DepthFirst
<1>1. Init => StackInv
    BY DEF Init, StackInv, DepthFirst, BelowHand, KidsOfHand
<1>2. PoolInv /\ OwnerAwake /\ StackInv /\ [Next]_vars => StackInv'
    BY StackStep
<1>3. StackInv => DepthFirst
    BY DEF StackInv
<1> QED BY <1>1, <1>2, <1>3, PoolInvariant, OwnerCorrect, PTL DEF Safe
===============================================================================
