------------------------------ MODULE ScanProofs ------------------------------
(***************************************************************************)
(* The walk, for every number of workers, every tree, every command line   *)
(* and every threshold of the buffers: the contract with the pool, pruning *)
(* and what is reached, the bound on the buffers, the matches printed,     *)
(* their number and the sum of their sizes.                                *)
(***************************************************************************)
EXTENDS Scan, BasicLemmas

Inside == {"loop", "flush"}
Holding == {"open"} \union Inside

(* Where a worker is and what it has in its hands go together.             *)
Shape ==
  \A w \in Workers :
    /\ at[w] \in Holding <=> cur[w] # NoDir
    /\ at[w] \notin Inside => rest[w] = <<>> /\ kids[w] = <<>>
    /\ w \in Leaving => todo = {} /\ \A v \in Workers : cur[v] = NoDir
    /\ w \notin Spawned => at[w] = "done"

(* Each directory is in one place.                                         *)
Places ==
  /\ todo \subseteq found /\ walked \subseteq found /\ todo \intersect walked = {}
  /\ \A w \in Workers : cur[w] # NoDir => cur[w] \in found /\ cur[w] \notin todo \union walked
  /\ \A v, w \in Workers : v # w /\ cur[v] # NoDir => cur[v] # cur[w]
  /\ \A d \in found : d \in todo \union walked \/ \E w \in Workers : cur[w] = d

(* The directories opened are the ones read to the end and the ones being  *)
(* read; an error hides an entry of one of them only.                      *)
Opened ==
  /\ listed \subseteq found
  /\ \A d \in listed : d \in walked \/ \E w \in Workers : at[w] \in Inside /\ cur[w] = d
  /\ \A w \in Workers : at[w] \in Inside => cur[w] \in listed
  /\ \A e \in failed : \E d \in listed : e \in Range(Contents[d])

(* What the iterator of a worker still holds has not been seen, and the    *)
(* children found are those among the rest of the directory.               *)
Reading ==
  \A w \in Workers : at[w] \in Inside =>
    /\ IsInjective(rest[w])
    /\ Range(rest[w]) \subseteq Range(Contents[cur[w]])
    /\ Range(rest[w]) \intersect failed = {}
    /\ Range(kids[w]) = Children(cur[w]) \ Range(rest[w])

(* What has been discovered: the root, and what the directories read to    *)
(* their end contain.                                                      *)
FoundExact == found = {Root} \union UNION {Children(d) : d \in listed \intersect walked}

DirInv == TypeOK /\ Shape /\ Places /\ Opened /\ Reading /\ FoundExact

-------------------------------------------------------------------------------
(* Steps by what they do to the directories.                               *)

Base == TypeOK /\ BufferBounded

Counts(e) == Qualifies(e) /\ e \notin failed'

(* The worker w comes to the entry e, whichever branch it takes.           *)
EntryStep(w, e) ==
  /\ Running /\ at[w] = "loop" /\ rest[w] # <<>> /\ e = Head(rest[w])
  /\ rest' = [rest EXCEPT ![w] = Tail(@)]
  /\ UNCHANGED <<opts, todo, cur, totals, output, pipe, found, walked, listed>>
  /\ failed' = failed \/ failed' = failed \union {e}
  /\ kids' = [kids EXCEPT ![w] = IF e \in Dirs \ opts.skips /\ e \notin failed'
                                 THEN Append(@, e) ELSE @]
  /\ tally' = [tally EXCEPT ![w] = IF Counts(e) THEN @ \union {e} ELSE @]
  /\ count' = [count EXCEPT ![w] = IF Counts(e) THEN Add(@, 1) ELSE @]
  /\ out' = [out EXCEPT ![w] = IF Counts(e) /\ ~opts.count_only THEN Append(@, e) ELSE @]
  /\ at' = [at EXCEPT ![w] = IF Len(out'[w]) >= FlushAt THEN "flush" ELSE "loop"]
  /\ size' \in [Workers -> 0 .. U64Max] /\ sizeless' \subseteq Dirs

(* Phases between which a worker moves without touching a directory.       *)
Alike(x, y) == x = y \/ (x \in Inside /\ y \in Inside)
                 \/ (x \in {"final", "sum", "size"} /\ y \in {"sum", "size", "done"})

DirIdle ==
  /\ UNCHANGED <<opts, todo, cur, rest, kids, found, walked, listed, failed>>
  /\ \A w \in Workers : Alike(at[w], at'[w])

(* The options are what OptionsAssumption says.                            *)
LEMMA OptionTypes ==
  ASSUME TypeOK
  PROVE  /\ opts.count_only \in BOOLEAN /\ opts.sum_size \in BOOLEAN
         /\ opts.long_format \in BOOLEAN /\ opts.match_dirs \in BOOLEAN
         /\ opts.named \in BOOLEAN /\ opts.hits \subseteq Entries /\ opts.skips \subseteq Dirs
BY OptionsAssumption DEF TypeOK

(* A counter stays in its width.                                           *)
LEMMA AddType ==
  ASSUME NEW x \in Nat, NEW n \in Nat
  PROVE  Add(x, n) \in 0 .. U64Max
BY SizeAssumption DEF Add

(* The two places that test the buffer do the same.                        *)
LEMMA WriteMatchRecords ==
  ASSUME NEW w, NEW e, WriteMatch(w, e)
  PROVE  \/ Records(w, e, need_size) /\ UNCHANGED sizeless
         \/ need_size /\ Records(w, e, FALSE) /\ sizeless' = sizeless \union {e}
BY DEF WriteMatch, Records

(* A match is recorded the same way by all who call Records.               *)
LEMMA RecordsEffect ==
  ASSUME Base, NEW w \in Workers, NEW e \in Entries, NEW sized \in BOOLEAN,
         Records(w, e, sized)
  PROVE  /\ Returns(w, e)
         /\ count' = [count EXCEPT ![w] = Add(@, 1)]
         /\ tally' = [tally EXCEPT ![w] = @ \union {e}]
         /\ out' = [out EXCEPT ![w] = IF ~opts.count_only THEN Append(@, e) ELSE @]
         /\ at' = [at EXCEPT ![w] = IF Len(out'[w]) >= FlushAt THEN "flush" ELSE "loop"]
         /\ size' \in [Workers -> 0 .. U64Max]
<1>1. at[w] = "loop" /\ Len(out[w]) < FlushAt
  <2>1. at[w] = "loop"
      BY DEF Records, Tallies, Returns
  <2> QED BY <2>1 DEF Base, BufferBounded
<1>2. opts.count_only \in BOOLEAN
    BY OptionTypes DEF Base
<1>3. out' = [out EXCEPT ![w] = IF ~opts.count_only THEN Append(@, e) ELSE @]
    BY <1>2 DEF Records, Tallies
<1>4. at' = [at EXCEPT ![w] = IF Len(out'[w]) >= FlushAt THEN "flush" ELSE "loop"]
  <2>1. CASE opts.count_only
    <3>1. out'[w] = out[w] /\ ~(Len(out'[w]) >= FlushAt)
      <4>1. out'[w] = out[w]
          BY <2>1, <1>3 DEF Base, TypeOK
      <4>2. Len(out[w]) \in Nat /\ FlushAt \in Nat
          BY SizeAssumption DEF Base, TypeOK
      <4> QED BY <4>1, <4>2, <1>1
    <3> QED BY <3>1, <2>1 DEF Records, Tallies
  <2>2. CASE ~opts.count_only
      BY <2>2 DEF Records, Tallies
  <2> QED BY <2>1, <2>2
<1>5. size' \in [Workers -> 0 .. U64Max]
  <2>1. size[w] \in Nat /\ Bytes[e] \in Nat
      BY BytesAssumption, SizeAssumption DEF Base, TypeOK
  <2>2. Add(size[w], Bytes[e]) \in 0 .. U64Max
      BY <2>1, AddType
  <2> QED BY <2>2 DEF Records, Tallies, Base, TypeOK
<1> QED BY <1>3, <1>4, <1>5 DEF Records, Tallies

(* An entry that is passed over leaves everything but the iterator.        *)
LEMMA PassesEffect ==
  ASSUME Base, NEW w \in Workers, NEW e \in Entries, Returns(w, e),
         UNCHANGED <<at, out>>
  PROVE  at' = [at EXCEPT ![w] = IF Len(out'[w]) >= FlushAt THEN "flush" ELSE "loop"]
<1>1. at[w] = "loop"
    BY DEF Returns
<1>2. Len(out[w]) < FlushAt
    BY <1>1 DEF Base, BufferBounded
<1>3. Len(out'[w]) \in Nat /\ FlushAt \in Nat /\ Len(out'[w]) < FlushAt
    BY <1>2, SizeAssumption DEF Base, TypeOK
<1>4. ~(Len(out'[w]) >= FlushAt)
    BY <1>3
<1> QED BY <1>1, <1>4 DEF Base, TypeOK

(* Six branches of the loop, one effect.                                   *)
LEMMA EntryKinds ==
  ASSUME Base, NEW w \in Workers, NEW e \in Entries, e \notin failed,
         EntryFails(w, e) \/ CountFile(w, e) \/ SkipDir(w, e)
           \/ ChildDir(w, e) \/ File(w, e) \/ Ignore(w, e)
  PROVE  EntryStep(w, e)
<1>1. Returns(w, e)
    BY DEF EntryFails, CountFile, SkipDir, ChildDir, File, Ignore, Passes,
             Records, Tallies, WriteMatch
<1>2. /\ e \in Dirs => e \notin Files /\ e \notin Others
      /\ e \in Files => e \notin Others
    BY ListingAssumption
<1> DEFINE Common == /\ Running /\ at[w] = "loop" /\ rest[w] # <<>> /\ e = Head(rest[w])
                     /\ rest' = [rest EXCEPT ![w] = Tail(@)]
                     /\ UNCHANGED <<opts, todo, cur, totals, output, pipe, found, walked, listed>>
<1>3. Common
    BY <1>1 DEF Returns
<1>4. /\ opts.count_only \in BOOLEAN /\ opts.match_dirs \in BOOLEAN /\ opts.named \in BOOLEAN
      /\ opts.skips \subseteq Dirs
    BY OptionTypes DEF Base
<1>5. ASSUME Passes(w, e), failed' = failed \/ failed' = failed \union {e},
             e \in failed' \/ (e \notin Dirs \ opts.skips /\ ~Qualifies(e))
      PROVE  EntryStep(w, e)
  <2>1. at' = [at EXCEPT ![w] = IF Len(out'[w]) >= FlushAt THEN "flush" ELSE "loop"]
      BY <1>1, <1>5, PassesEffect DEF Passes
  <2>2. ~Counts(e) /\ ~(e \in Dirs \ opts.skips /\ e \notin failed')
      BY <1>5 DEF Counts
  <2>3. UNCHANGED <<kids, tally, count, out, size, sizeless>>
      BY <1>5 DEF Passes
  <2>4. /\ kids' = [kids EXCEPT ![w] = kids[w]] /\ tally' = [tally EXCEPT ![w] = tally[w]]
        /\ count' = [count EXCEPT ![w] = count[w]] /\ out' = [out EXCEPT ![w] = out[w]]
        /\ size' \in [Workers -> 0 .. U64Max] /\ sizeless' \subseteq Dirs
      BY <2>3 DEF Base, TypeOK
  <2> HIDE DEF Common
  <2> QED BY <1>3, <1>5, <2>1, <2>2, <2>4 DEF EntryStep, Common
<1>6. ASSUME NEW sized \in BOOLEAN, Records(w, e, sized), UNCHANGED failed, Qualifies(e),
             sizeless' \subseteq Dirs,
             kids' = [kids EXCEPT ![w] = IF e \in Dirs \ opts.skips THEN Append(@, e) ELSE @]
      PROVE  EntryStep(w, e)
  <2>1. Counts(e) /\ e \notin failed'
      BY <1>6 DEF Counts
  <2> HIDE DEF Common
  <2> QED BY <1>3, <1>6, <2>1, RecordsEffect DEF EntryStep, Common
<1>7. CASE EntryFails(w, e)
    BY <1>7, <1>5 DEF EntryFails
<1>8. CASE CountFile(w, e)
  <2>1. Qualifies(e)
      BY <1>8 DEF CountFile, Qualifies, need_file_name, need_size, NameMatches, SizeFits
  <2>2. opts.count_only /\ e \notin Dirs
      BY <1>8, <1>2, <1>4 DEF CountFile, need_file_name
  <2>3. at' = [at EXCEPT ![w] = IF Len(out'[w]) >= FlushAt THEN "flush" ELSE "loop"]
      BY <1>1, <1>8, PassesEffect DEF CountFile
  <2>4. Counts(e) /\ UNCHANGED <<failed, sizeless, size, kids, out>>
      BY <1>8, <2>1 DEF CountFile, Counts
  <2>5. /\ kids' = [kids EXCEPT ![w] = kids[w]] /\ out' = [out EXCEPT ![w] = out[w]]
        /\ size' \in [Workers -> 0 .. U64Max] /\ sizeless' \subseteq Dirs
      BY <2>4 DEF Base, TypeOK
  <2> HIDE DEF Common
  <2> QED BY <1>3, <1>8, <2>2, <2>3, <2>4, <2>5 DEF EntryStep, Common, CountFile
<1>9. CASE SkipDir(w, e)
    BY <1>9, <1>2, <1>5 DEF SkipDir, Qualifies
<1>10. CASE ChildDir(w, e)
  <2>1. e \in Dirs \ opts.skips /\ failed' = failed
      BY <1>10 DEF ChildDir
  <2>2. kids' = [kids EXCEPT ![w] = IF e \in Dirs \ opts.skips THEN Append(@, e) ELSE @]
      BY <1>10, <2>1 DEF ChildDir
  <2>3. CASE opts.match_dirs /\ NameMatches(e)
    <3>1. Qualifies(e)
        BY <2>1, <2>3 DEF Qualifies
    <3>2. need_size \in BOOLEAN
        BY DEF need_size
    <3>3. sizeless' \subseteq Dirs /\ \E sized \in BOOLEAN : Records(w, e, sized)
      <4>1. \/ Records(w, e, need_size) /\ UNCHANGED sizeless
            \/ Records(w, e, FALSE) /\ sizeless' = sizeless \union {e}
          BY <1>10, <2>3, WriteMatchRecords DEF ChildDir
      <4>2. sizeless' \subseteq Dirs
          BY <2>1, <4>1 DEF Base, TypeOK
      <4> QED BY <3>2, <4>1, <4>2
    <3> QED BY <1>6, <2>1, <2>2, <3>1, <3>3
  <2>4. CASE ~(opts.match_dirs /\ NameMatches(e))
    <3>1. ~Qualifies(e)
        BY <1>2, <2>1, <2>4 DEF Qualifies
    <3>2. UNCHANGED <<at, out, count, size, tally, sizeless>>
        BY <1>10, <2>4 DEF ChildDir
    <3>3. at' = [at EXCEPT ![w] = IF Len(out'[w]) >= FlushAt THEN "flush" ELSE "loop"]
        BY <1>1, <3>2, PassesEffect
    <3>4. /\ tally' = [tally EXCEPT ![w] = tally[w]]
          /\ count' = [count EXCEPT ![w] = count[w]] /\ out' = [out EXCEPT ![w] = out[w]]
          /\ size' \in [Workers -> 0 .. U64Max] /\ sizeless' \subseteq Dirs
        BY <3>2 DEF Base, TypeOK
    <3>5. ~Counts(e) /\ e \notin failed'
        BY <2>1, <3>1 DEF Counts
    <3> HIDE DEF Common
    <3> QED BY <1>3, <2>1, <2>2, <3>3, <3>4, <3>5 DEF EntryStep, Common
  <2> QED BY <2>3, <2>4
<1>11. CASE File(w, e)
  <2>1. e \in Files /\ e \notin Dirs /\ ~opts.match_dirs
      BY <1>2, <1>11 DEF File
  <2>2. CASE (~NameMatches(e) \/ ~SizeFits(e)) /\ Passes(w, e) /\ UNCHANGED failed
      BY <2>1, <2>2, <1>5 DEF Qualifies
  <2>3. CASE Passes(w, e) /\ failed' = failed \union {e}
      BY <2>3, <1>5
  <2>4. CASE /\ NameMatches(e) /\ SizeFits(e) /\ Records(w, e, need_size)
             /\ UNCHANGED <<kids, failed, sizeless>>
    <3>1. need_size \in BOOLEAN
        BY DEF need_size
    <3>2. Qualifies(e)
        BY <2>1, <2>4 DEF Qualifies
    <3>3. kids' = [kids EXCEPT ![w] = IF e \in Dirs \ opts.skips THEN Append(@, e) ELSE @]
        BY <2>1, <2>4 DEF Base, TypeOK
    <3>4. sizeless' \subseteq Dirs
        BY <2>4 DEF Base, TypeOK
    <3> QED BY <1>6, <2>4, <3>1, <3>2, <3>3, <3>4
  <2> QED BY <1>11, <2>2, <2>3, <2>4 DEF File
<1>12. CASE Ignore(w, e)
  <2>1. e \notin Dirs /\ (e \notin Files \/ opts.match_dirs) /\ Passes(w, e) /\ UNCHANGED failed
      BY <1>2, <1>12 DEF Ignore
  <2> QED BY <2>1, <1>5 DEF Qualifies
<1> QED BY <1>7, <1>8, <1>9, <1>10, <1>11, <1>12

-------------------------------------------------------------------------------
(* The other steps, and all of them together.                              *)

(* The steps of the output and of the totals leave the directories alone.  *)
LEMMA OutputKinds ==
  ASSUME TypeOK, NEW w \in Workers,
         FlushFull(w) \/ FlushFinal(w) \/ AddCount(w) \/ AddSize(w)
  PROVE  DirIdle
<1> DEFINE Still == UNCHANGED <<opts, todo, cur, rest, kids, found, walked, listed, failed>>
<1>1. ASSUME NEW from, NEW to, Goto(w, from, to), Alike(from, to), Still
      PROVE  DirIdle
    BY <1>1 DEF DirIdle, Goto, Alike, TypeOK
<1>2. Alike("flush", "loop") /\ Alike("final", "sum") /\ Alike("sum", "size")
        /\ Alike("size", "done")
    BY DEF Alike, Inside
<1>3. ASSUME NEW from, NEW to, Flush(w, from, to), Alike(from, to)
      PROVE  DirIdle
  <2>1. CASE UNCHANGED at
      BY <1>3, <2>1 DEF Flush, DirIdle, Alike, history, local
  <2>2. CASE Goto(w, from, to)
      BY <1>3, <2>2, <1>1 DEF Flush, history, local
  <2> QED BY <1>3, <2>1, <2>2 DEF Flush
<1>4. CASE FlushFull(w)
    BY <1>2, <1>3, <1>4 DEF FlushFull
<1>5. CASE FlushFinal(w)
    BY <1>1, <1>2, <1>3, <1>5 DEF FlushFinal, history, local
<1>6. CASE AddCount(w)
    BY <1>1, <1>2, <1>6 DEF AddCount, history
<1>7. CASE AddSize(w)
    BY <1>1, <1>2, <1>7 DEF AddSize, history
<1> QED BY <1>4, <1>5, <1>6, <1>7

(* An entry the iterator returns has not failed before.                    *)
LEMMA EntryStepKind ==
  ASSUME Base, Reading, NEW w \in Workers, NEW e \in Entries,
         EntryFails(w, e) \/ CountFile(w, e) \/ SkipDir(w, e)
           \/ ChildDir(w, e) \/ File(w, e) \/ Ignore(w, e)
  PROVE  EntryStep(w, e)
<1>1. at[w] = "loop" /\ rest[w] # <<>> /\ e = Head(rest[w])
    BY DEF EntryFails, CountFile, SkipDir, ChildDir, File, Ignore, Passes, Records,
           Tallies, WriteMatch, Returns
<1>2. e \in Range(rest[w])
    BY <1>1, TailRange DEF Base, TypeOK
<1>3. e \notin failed
    BY <1>1, <1>2 DEF Reading, Inside
<1> QED BY <1>3, EntryKinds

(* What a step can be.                                                     *)
LEMMA Kinds ==
  ASSUME Base, Reading, Shape, [Next]_vars
  PROVE  \/ \E w \in Workers :
              \/ \E d \in Dirs : Take(w, d)
              \/ Leave(w) \/ OpenFails(w) \/ Open(w) \/ Publish(w)
              \/ \E e \in Entries : EntryStep(w, e)
         \/ DirIdle
<1>1. ASSUME NEW w \in Workers, NEW e \in Entries,
             EntryFails(w, e) \/ CountFile(w, e) \/ SkipDir(w, e)
               \/ ChildDir(w, e) \/ File(w, e) \/ Ignore(w, e)
      PROVE  EntryStep(w, e)
    BY <1>1, EntryStepKind
<1>2. ASSUME UNCHANGED <<opts, todo, at, local, history>>
      PROVE  DirIdle
    BY <1>2 DEF DirIdle, Alike, local, history
<1>3. CASE PrintSummary \/ Return \/ Reader \/ Exited \/ UNCHANGED vars
    BY <1>2, <1>3 DEF PrintSummary, Return, Reader, Fill, Empty, Close, Exited, vars
<1>4. ASSUME NEW w \in Workers, Worker(w)
      PROVE  \/ \E d \in Dirs : Take(w, d)
             \/ Leave(w) \/ OpenFails(w) \/ Open(w) \/ Publish(w)
             \/ \E e \in Entries : EntryStep(w, e)
             \/ DirIdle
    BY <1>1, <1>4, OutputKinds DEF Worker, Base
<1> QED BY <1>3, <1>4 DEF Next

-------------------------------------------------------------------------------
(* Types and buffers.                                                      *)

(* What read_dir returns.                                                  *)
LEMMA ContentsType ==
  ASSUME NEW d \in Dirs
  PROVE  /\ Contents[d] \in Seq(Entries) /\ IsInjective(Contents[d])
         /\ Range(Contents[d]) \subseteq Entries \ {Root}
<1>1. Contents[d] \in Seq(Entries \ {Root})
    BY ListingAssumption
<1>2. Contents[d] \in Seq(Entries)
    BY <1>1
<1>3. Range(Contents[d]) \subseteq Entries \ {Root}
    BY <1>1, RangeOfSeq
<1> QED BY <1>2, <1>3, ListingAssumption

(* The types and the bound on the buffers hold before the walk starts.     *)
LEMMA BaseInit == Init => Base
<1> SUFFICES ASSUME Init PROVE Base
    OBVIOUS
<1>1. TypeOK
  <2>1. 0 \in 0 .. U64Max /\ Root \in Dirs
      BY ListingAssumption, SizeAssumption
  <2>2. /\ rest \in [Workers -> Seq(Entries)] /\ kids \in [Workers -> Seq(Dirs)]
        /\ out \in [Workers -> Seq(Entries)] /\ stdout \in Seq(Entries)
        /\ report \in Seq(0 .. U64Max)
      BY DEF Init, Fresh, Spawn
  <2>3. /\ cur \in [Workers -> Dirs \union {NoDir}] /\ tally \in [Workers -> SUBSET Entries]
        /\ at \in [Workers -> {"idle", "open", "loop", "flush", "final", "sum", "size", "done"}]
      BY DEF Init, Fresh, Spawn
  <2>4. count \in [Workers -> 0 .. U64Max] /\ size \in [Workers -> 0 .. U64Max]
      BY <2>1 DEF Init, Fresh, Spawn
  <2> QED BY <2>1, <2>2, <2>3, <2>4 DEF Init, Fresh, Spawn, TypeOK
<1>2. BufferBounded
    BY SizeAssumption DEF Init, Fresh, Spawn, BufferBounded
<1> QED BY <1>1, <1>2 DEF Base

(* The walker's steps.                                                     *)
LEMMA BaseWalk ==
  ASSUME Base, Shape, NEW w \in Workers,
         \/ \E d \in Dirs : Take(w, d)
         \/ Leave(w) \/ OpenFails(w) \/ Open(w) \/ Publish(w)
         \/ \E e \in Entries : EntryStep(w, e)
  PROVE  Base'
<1> USE DEF Base
<1>1. ASSUME NEW from, NEW to \in {"idle", "open", "loop", "final"}, Goto(w, from, to),
             from # "flush", UNCHANGED out, TypeOK'
      PROVE  Base'
  <2>1. at[w] = from /\ at' = [at EXCEPT ![w] = to]
      BY <1>1 DEF Goto
  <2>2. \A u \in Workers : at[u] = "flush" => at'[u] = "flush"
      BY <2>1, <1>1 DEF TypeOK
  <2> QED BY <2>2, <1>1 DEF BufferBounded
<1>2. ASSUME NEW d \in Dirs, Take(w, d) PROVE Base'
  <2>1. TypeOK'
      BY <1>2 DEF Take, Goto, TypeOK, totals, output, history
  <2> QED BY <1>1, <1>2, <2>1 DEF Take
<1>3. CASE Leave(w)
  <2>1. TypeOK'
      BY <1>3 DEF Leave, Goto, TypeOK, local, totals, output, history
  <2> QED BY <1>1, <1>3, <2>1 DEF Leave, local
<1>4. ASSUME OpenFails(w), cur[w] \in Dirs PROVE Base'
  <2>1. TypeOK'
      BY <1>4 DEF OpenFails, Goto, TypeOK, totals, output
  <2> QED BY <1>1, <1>4, <2>1 DEF OpenFails
<1>5. ASSUME Open(w), cur[w] \in Dirs PROVE Base'
  <2>1. Contents[cur[w]] \in Seq(Entries) /\ <<>> \in Seq(Dirs)
      BY <1>5, ContentsType
  <2>2. TypeOK'
      BY <1>5, <2>1 DEF Open, Goto, TypeOK, totals, output
  <2> QED BY <1>1, <1>5, <2>2 DEF Open
<1>6. ASSUME Publish(w), cur[w] \in Dirs PROVE Base'
  <2>1. Range(kids[w]) \subseteq Dirs /\ <<>> \in Seq(Dirs)
      BY RangeOfSeq DEF TypeOK
  <2>2. TypeOK'
      BY <1>6, <2>1 DEF Publish, Goto, TypeOK, totals, output
  <2> QED BY <1>1, <1>6, <2>2 DEF Publish
<1>7. ASSUME NEW e \in Entries, EntryStep(w, e) PROVE Base'
  <2>1. Tail(rest[w]) \in Seq(Entries)
      BY <1>7, TailRange DEF EntryStep, TypeOK
  <2>2. e \in Dirs => Append(kids[w], e) \in Seq(Dirs)
      BY DEF TypeOK
  <2>3. Append(out[w], e) \in Seq(Entries) /\ Len(Append(out[w], e)) = Len(out[w]) + 1
      BY DEF TypeOK
  <2>4. Add(count[w], 1) \in 0 .. U64Max
    <3>1. count[w] \in Nat /\ 1 \in Nat
        BY SizeAssumption DEF TypeOK
    <3> QED BY <3>1, AddType
  <2>5. failed' \subseteq Entries /\ tally' \in [Workers -> SUBSET Entries]
      BY <1>7 DEF EntryStep, TypeOK
  <2>6. rest' \in [Workers -> Seq(Entries)] /\ kids' \in [Workers -> Seq(Dirs)]
      BY <1>7, <2>1, <2>2 DEF EntryStep, TypeOK
  <2>7. out' \in [Workers -> Seq(Entries)] /\ count' \in [Workers -> 0 .. U64Max]
      BY <1>7, <2>3, <2>4 DEF EntryStep, TypeOK
  <2>8. at' \in [Workers -> {"idle", "open", "loop", "flush", "final", "sum", "size", "done"}]
      BY <1>7 DEF EntryStep, TypeOK
  <2>9. TypeOK'
      BY <1>7, <2>5, <2>6, <2>7, <2>8 DEF EntryStep, TypeOK, totals, output
  <2>10. Len(out[w]) < FlushAt
      BY <1>7 DEF EntryStep, BufferBounded
  <2>11. Len(out'[w]) \in Nat /\ (Len(out'[w]) < FlushAt \/ Len(out'[w]) = FlushAt)
    <3>1. Len(out[w]) \in Nat /\ FlushAt \in Nat
        BY SizeAssumption DEF TypeOK
    <3>2. out'[w] = out[w] \/ out'[w] = Append(out[w], e)
        BY <1>7 DEF EntryStep, TypeOK
    <3> QED BY <3>1, <3>2, <2>3, <2>10
  <2>12. at'[w] = IF Len(out'[w]) >= FlushAt THEN "flush" ELSE "loop"
      BY <1>7 DEF EntryStep, TypeOK
  <2>13. Len(out'[w]) < FlushAt \/ (Len(out'[w]) = FlushAt /\ at'[w] = "flush")
      BY <2>11, <2>12, SizeAssumption
  <2>14. \A u \in Workers \ {w} : at'[u] = at[u] /\ out'[u] = out[u]
      BY <1>7 DEF EntryStep, TypeOK
  <2>15. BufferBounded'
      BY <2>13, <2>14 DEF BufferBounded
  <2> QED BY <2>9, <2>15
<1>8. OpenFails(w) \/ Open(w) \/ Publish(w) => cur[w] \in Dirs
    BY DEF OpenFails, Open, Publish, Goto, Shape, Holding, Inside, TypeOK
<1> QED BY <1>2, <1>3, <1>4, <1>5, <1>6, <1>7, <1>8

(* The steps of the output.                                                *)
LEMMA BaseFlush ==
  ASSUME Base, NEW w \in Workers, NEW from, NEW to \in {"loop", "sum"}, Flush(w, from, to)
  PROVE  Base'
<1> USE DEF Base
<1>1. CASE /\ Goto(w, from, to)
           /\ stdout' = stdout \o out[w]
           /\ out' = [out EXCEPT ![w] = <<>>]
           /\ UNCHANGED <<opts, todo, cur, rest, kids, count, size, totals, exit, report,
                          pipe, history>>
  <2>1. stdout \o out[w] \in Seq(Entries) /\ <<>> \in Seq(Entries)
      BY DEF TypeOK
  <2>2. out' \in [Workers -> Seq(Entries)] /\ stdout' \in Seq(Entries)
      BY <1>1, <2>1 DEF TypeOK
  <2>3. TypeOK'
      BY <1>1, <2>2 DEF Goto, TypeOK, totals, history
  <2>4. Len(out'[w]) < FlushAt
      BY <1>1, SizeAssumption DEF TypeOK
  <2>5. \A u \in Workers \ {w} : at'[u] = at[u] /\ out'[u] = out[u]
      BY <1>1 DEF Goto, TypeOK
  <2>6. BufferBounded'
      BY <2>4, <2>5 DEF BufferBounded
  <2> QED BY <2>3, <2>6
<1>2. CASE /\ \E n \in 0 .. Len(out[w]) - 1 : stdout' = stdout \o SubSeq(out[w], 1, n)
           /\ exit' = IF pipe = "closed" THEN "pipe" ELSE "error"
           /\ UNCHANGED <<opts, todo, at, local, totals, report, pipe, history>>
  <2>1. PICK n \in 0 .. Len(out[w]) - 1 : stdout' = stdout \o SubSeq(out[w], 1, n)
      BY <1>2
  <2>2. SubSeq(out[w], 1, n) \in Seq(Entries)
      BY SubSeqProperties DEF TypeOK
  <2>3. stdout' \in Seq(Entries)
      BY <2>1, <2>2 DEF TypeOK
  <2>4. TypeOK'
      BY <1>2, <2>3 DEF TypeOK, local, totals, history
  <2>5. BufferBounded'
      BY <1>2 DEF BufferBounded, local
  <2> QED BY <2>4, <2>5
<1> QED BY <1>1, <1>2 DEF Flush

(* Flushes and the sums of the totals keep them.                           *)
LEMMA BaseOutput ==
  ASSUME Base, NEW w \in Workers,
         FlushFull(w) \/ FlushFinal(w) \/ AddCount(w) \/ AddSize(w)
  PROVE  Base'
<1> USE DEF Base
<1>1. ASSUME NEW from, NEW to \in {"sum", "size", "done"}, Goto(w, from, to),
             from # "flush", UNCHANGED out, TypeOK'
      PROVE  Base'
  <2>1. at[w] = from /\ at' = [at EXCEPT ![w] = to]
      BY <1>1 DEF Goto
  <2>2. \A u \in Workers : at[u] = "flush" => at'[u] = "flush"
      BY <2>1, <1>1 DEF TypeOK
  <2> QED BY <2>2, <1>1 DEF BufferBounded
<1>2. CASE FlushFull(w)
    BY <1>2, BaseFlush DEF FlushFull
<1>3. CASE FlushFinal(w)
  <2>1. CASE Flush(w, "final", "sum")
      BY <2>1, BaseFlush
  <2>2. CASE Goto(w, "final", "sum") /\ UNCHANGED <<opts, todo, local, totals, output, pipe, history>>
    <3>1. TypeOK'
        BY <2>2 DEF Goto, TypeOK, local, totals, output, history
    <3> QED BY <1>1, <2>2, <3>1 DEF local
  <2> QED BY <1>3, <2>1, <2>2 DEF FlushFinal
<1>4. CASE AddCount(w)
  <2>1. matched \in Nat /\ count[w] \in Nat
      BY SizeAssumption DEF TypeOK
  <2>2. Add(matched, count[w]) \in 0 .. U64Max
      BY <2>1, AddType
  <2>3. 0 \in 0 .. U64Max
      BY SizeAssumption
  <2>4. TypeOK'
      BY <1>4, <2>2, <2>3 DEF AddCount, Goto, TypeOK, output, history
  <2> QED BY <1>1, <1>4, <2>4 DEF AddCount
<1>5. CASE AddSize(w)
  <2>1. total \in Nat /\ size[w] \in Nat
      BY SizeAssumption DEF TypeOK
  <2>2. Add(total, size[w]) \in 0 .. U64Max
      BY <2>1, AddType
  <2>3. 0 \in 0 .. U64Max
      BY SizeAssumption
  <2>4. TypeOK'
      BY <1>5, <2>2, <2>3 DEF AddSize, Goto, TypeOK, output, history
  <2> QED BY <1>1, <1>5, <2>4 DEF AddSize
<1> QED BY <1>2, <1>3, <1>4, <1>5

(* The main thread, the reader of standard output, and no step at all.     *)
LEMMA BaseMain ==
  ASSUME Base, PrintSummary \/ Return \/ Reader \/ Exited \/ UNCHANGED vars
  PROVE  Base'
<1> USE DEF Base
<1>1. Summary \in Seq(0 .. U64Max)
  <2> DEFINE first == IF opts.count_only THEN <<matched>> ELSE <<>>
             second == IF opts.sum_size THEN <<total>> ELSE <<>>
  <2>1. first \in Seq(0 .. U64Max) /\ second \in Seq(0 .. U64Max)
    <3>1. <<matched>> \in Seq(0 .. U64Max) /\ <<total>> \in Seq(0 .. U64Max)
          /\ <<>> \in Seq(0 .. U64Max)
        BY DEF TypeOK
    <3> QED BY <3>1
  <2> HIDE DEF first, second
  <2>2. first \o second \in Seq(0 .. U64Max)
      BY <2>1, ConcatProperties
  <2> QED BY <2>2 DEF Summary, first, second
<1>2. CASE PrintSummary
  <2>1. Len(report) \in Nat /\ Len(Summary) \in Nat /\ Len(report) < Len(Summary)
      BY <1>1, <1>2 DEF PrintSummary, TypeOK
  <2>2. Summary[Len(report) + 1] \in 0 .. U64Max
    <3>1. Len(report) + 1 \in 1 .. Len(Summary)
        BY <2>1
    <3> QED BY <1>1, <3>1, ElementOfSeq
  <2>3. Append(report, Summary[Len(report) + 1]) \in Seq(0 .. U64Max)
      BY <2>2 DEF TypeOK
  <2>4. report' \in Seq(0 .. U64Max) /\ exit' \in {"running", "ok", "pipe", "error", "panic"}
      BY <1>2, <2>3 DEF PrintSummary, TypeOK
  <2> QED BY <1>2, <2>4 DEF PrintSummary, TypeOK, BufferBounded, local, totals, history
<1>3. CASE Return
    BY <1>3 DEF Return, TypeOK, BufferBounded, local, totals, history
<1>4. CASE Reader
    BY <1>4 DEF Reader, Fill, Empty, Close, TypeOK, BufferBounded, local, totals, output, history
<1>5. CASE UNCHANGED vars
    BY <1>5 DEF vars, TypeOK, BufferBounded, local, totals, output, history
<1> QED BY <1>2, <1>3, <1>4, <1>5 DEF Exited

(* Every step keeps them.                                                  *)
LEMMA BaseStep ==
  ASSUME Base, Shape, Reading, [Next]_vars
  PROVE  Base'
<1>1. ASSUME NEW w \in Workers, NEW e \in Entries,
             EntryFails(w, e) \/ CountFile(w, e) \/ SkipDir(w, e)
               \/ ChildDir(w, e) \/ File(w, e) \/ Ignore(w, e)
      PROVE  Base'
  <2>1. EntryStep(w, e)
      BY <1>1, EntryStepKind
  <2> QED BY <2>1, BaseWalk
<1>2. ASSUME NEW w \in Workers, Worker(w) PROVE Base'
    BY <1>1, <1>2, BaseWalk, BaseOutput DEF Worker
<1> QED BY <1>2, BaseMain DEF Next

-------------------------------------------------------------------------------
(* The directories.                                                        *)

(* What can be pushed for a directory is listed by it, is not the root,    *)
(* and is listed by no other directory.                                    *)
LEMMA ChildrenFacts ==
  ASSUME NEW d \in Dirs
  PROVE  /\ Children(d) \subseteq Range(Contents[d]) \intersect Dirs
         /\ Root \notin Range(Contents[d])
         /\ \A c \in Dirs \ {d} : Range(Contents[c]) \intersect Range(Contents[d]) = {}
BY ListingAssumption, ContentsType DEF Children

(* The workers stay the same.                                              *)
LEMMA SameSpawned ==
  ASSUME UNCHANGED opts
  PROVE  Spawned' = Spawned /\ Spawned \subseteq Workers
BY DEF Spawned

(* A worker that has not returned is one of those started.                 *)
LEMMA InRun ==
  ASSUME Shape, NEW w \in Workers, at[w] # "done"
  PROVE  w \in Spawned
BY DEF Shape

(* Nobody has left as long as somebody walks.                              *)
LEMMA NobodyLeft ==
  ASSUME Shape, NEW w \in Workers, cur[w] # NoDir
  PROVE  Leaving = {}
<1>1. Leaving \subseteq Workers
    BY DEF Leaving, Spawned
<1> QED BY <1>1 DEF Shape

(* Nothing in a directory has been discovered before it is finished.       *)
LEMMA Unread ==
  ASSUME DirInv, NEW w \in Workers, cur[w] # NoDir
  PROVE  cur[w] \in Dirs /\ cur[w] \notin walked
         /\ Range(Contents[cur[w]]) \intersect found = {}
<1>1. cur[w] \in Dirs /\ cur[w] \notin walked /\ walked \subseteq Dirs
    BY DEF DirInv, TypeOK, Places
<1>2. ASSUME NEW e \in Range(Contents[cur[w]]), e \in found PROVE FALSE
  <2>1. e # Root
      BY <1>1, <1>2, ChildrenFacts
  <2>2. PICK d \in listed \intersect walked : e \in Children(d)
      BY <1>2, <2>1 DEF DirInv, FoundExact
  <2>3. d \in Dirs /\ d # cur[w]
      BY <1>1, <2>2
  <2> QED BY <1>1, <1>2, <2>2, <2>3, ChildrenFacts
<1> QED BY <1>1, <1>2

(* A directory about to be opened has not been opened.                     *)
LEMMA Unopened ==
  ASSUME DirInv, NEW w \in Workers, at[w] = "open"
  PROVE  cur[w] # NoDir /\ cur[w] \notin listed
<1>1. cur[w] # NoDir
    BY DEF DirInv, Shape, Holding
<1>2. cur[w] \notin walked
    BY <1>1, Unread
<1>3. ASSUME NEW v \in Workers, at[v] \in Inside, cur[v] = cur[w] PROVE FALSE
  <2>1. v # w
      BY <1>3 DEF Inside
  <2> QED BY <1>1, <1>3, <2>1 DEF DirInv, Places
<1> QED BY <1>1, <1>2, <1>3 DEF DirInv, Opened

(* Before the walk only the root is known.                                 *)
LEMMA DirInit == Init => Shape /\ Places /\ Opened /\ Reading /\ FoundExact
<1> SUFFICES ASSUME Init PROVE Shape /\ Places /\ Opened /\ Reading /\ FoundExact
    OBVIOUS
<1> USE DEF Init, Fresh, Spawn
<1>1. Shape
    BY DEF Shape, Holding, Inside, Leaving
<1>2. Places
    BY DEF Places
<1>3. Opened
    BY DEF Opened, Inside
<1>4. Reading
    BY DEF Reading, Inside
<1>5. FoundExact
    BY DEF FoundExact
<1> QED BY <1>1, <1>2, <1>3, <1>4, <1>5

(* Steps that move no directory keep the places of all of them.            *)
LEMMA DirIdleKeeps ==
  ASSUME DirInv, DirIdle
  PROVE  Shape' /\ Places' /\ Opened' /\ Reading' /\ FoundExact'
<1>0. Spawned' = Spawned
    BY SameSpawned DEF DirIdle
<1>1. \A w \in Workers : /\ at[w] \in Inside <=> at'[w] \in Inside
                         /\ at[w] \in Holding <=> at'[w] \in Holding
                         /\ w \in Leaving' <=> w \in Leaving
                         /\ at[w] = "done" => at'[w] = "done"
    BY <1>0 DEF DirIdle, Alike, Holding, Inside, Leaving
<1>2. UNCHANGED <<todo, cur, rest, kids, found, walked, listed, failed>>
    BY DEF DirIdle
<1>3. \A d : Children(d)' = Children(d)
    BY DEF DirIdle, Children
<1>4. Shape'
    BY <1>0, <1>1, <1>2 DEF DirInv, Shape
<1>5. Places'
    BY <1>2 DEF DirInv, Places
<1>6. Opened'
    BY <1>1, <1>2 DEF DirInv, Opened
<1>7. Reading'
    BY <1>1, <1>2, <1>3 DEF DirInv, Reading
<1>8. FoundExact'
    BY <1>2, <1>3 DEF DirInv, FoundExact
<1> QED BY <1>4, <1>5, <1>6, <1>7, <1>8

(* A directory taken from the list is in the hands of one worker.          *)
LEMMA DirTake ==
  ASSUME DirInv, NEW w \in Workers, NEW d \in Dirs, Take(w, d)
  PROVE  Shape' /\ Places' /\ Opened' /\ Reading' /\ FoundExact'
<1>0. Spawned' = Spawned /\ Spawned \subseteq Workers /\ w \in Spawned
    BY SameSpawned, InRun DEF DirInv, Take, Goto
<1>1. /\ at[w] = "idle" /\ at' = [at EXCEPT ![w] = "open"] /\ d \in todo
      /\ todo' = todo \ {d} /\ cur' = [cur EXCEPT ![w] = d]
      /\ UNCHANGED <<opts, rest, kids, found, walked, listed, failed>>
    BY DEF Take, Goto, history
<1>2. cur[w] = NoDir /\ d # NoDir /\ rest[w] = <<>> /\ kids[w] = <<>> /\ Leaving = {}
    BY <1>1, <1>0, ListingAssumption DEF DirInv, Shape, Holding, Inside, Leaving
<1>3. /\ at'[w] = "open" /\ cur'[w] = d
      /\ \A u \in Workers \ {w} : at'[u] = at[u] /\ cur'[u] = cur[u]
    BY <1>1 DEF DirInv, TypeOK
<1>4. Leaving' = {}
    BY <1>0, <1>2, <1>3 DEF Leaving
<1>5. \A x : Children(x)' = Children(x)
    BY <1>1 DEF Children
<1>6. Shape'
    BY <1>0, <1>1, <1>2, <1>3, <1>4 DEF DirInv, Shape, Holding, Inside
<1>7. Places'
  <2>1. /\ todo' \subseteq found' /\ walked' \subseteq found' /\ todo' \intersect walked' = {}
        /\ d \in found /\ d \notin walked
      BY <1>1 DEF DirInv, Places
  <2>2. \A u \in Workers : cur'[u] # NoDir => cur'[u] \in found' /\ cur'[u] \notin todo' \union walked'
      BY <1>1, <1>3, <2>1 DEF DirInv, Places
  <2>3. \A u \in Workers : cur[u] # d
      BY <1>1, <1>2 DEF DirInv, Places
  <2>4. \A u, v \in Workers : u # v /\ cur'[u] # NoDir => cur'[u] # cur'[v]
      BY <1>2, <1>3, <2>3 DEF DirInv, Places
  <2>5. \A x \in found' : x \in todo' \union walked' \/ \E u \in Workers : cur'[u] = x
    <3> SUFFICES ASSUME NEW x \in found, x \notin todo' \union walked'
                 PROVE  \E u \in Workers : cur'[u] = x
        BY <1>1
    <3>1. CASE x = d
        BY <3>1, <1>3
    <3>2. CASE x # d
      <4>1. PICK u \in Workers : cur[u] = x
          BY <3>2, <1>1 DEF DirInv, Places
      <4>2. u # w
          BY <4>1, <1>2, ListingAssumption DEF DirInv, TypeOK
      <4> QED BY <4>1, <4>2, <1>3
    <3> QED BY <3>1, <3>2
  <2> QED BY <2>1, <2>2, <2>4, <2>5 DEF Places
<1>8. Opened'
  <2>1. \A u \in Workers : at'[u] \in Inside => u # w /\ at[u] \in Inside
      BY <1>3 DEF Inside
  <2>2. \A u \in Workers : at[u] \in Inside => u # w
      BY <1>1 DEF Inside
  <2> QED BY <1>1, <1>3, <2>1, <2>2 DEF DirInv, Opened
<1>9. Reading'
    BY <1>1, <1>3, <1>5 DEF DirInv, Reading, Inside
<1>10. FoundExact'
    BY <1>1, <1>5 DEF DirInv, FoundExact
<1> QED BY <1>6, <1>7, <1>8, <1>9, <1>10

(* A worker that leaves has nothing in hand.                               *)
LEMMA DirLeave ==
  ASSUME DirInv, NEW w \in Workers, Leave(w)
  PROVE  Shape' /\ Places' /\ Opened' /\ Reading' /\ FoundExact'
<1>0. Spawned' = Spawned /\ Spawned \subseteq Workers /\ w \in Spawned
    BY SameSpawned, InRun DEF DirInv, Leave, Goto
<1>1. /\ at[w] = "idle" /\ at' = [at EXCEPT ![w] = "final"] /\ todo = {}
      /\ \A v \in Workers : cur[v] = NoDir
      /\ UNCHANGED <<opts, todo, cur, rest, kids, found, walked, listed, failed>>
    BY DEF Leave, Goto, local, history
<1>2. at'[w] = "final" /\ \A u \in Workers \ {w} : at'[u] = at[u]
    BY <1>1 DEF DirInv, TypeOK
<1>3. \A x : Children(x)' = Children(x)
    BY <1>1 DEF Children
<1>4. Shape'
    BY <1>0, <1>1, <1>2 DEF DirInv, Shape, Holding, Inside
<1>5. Places'
    BY <1>1 DEF DirInv, Places
<1>6. Opened'
    BY <1>1, <1>2 DEF DirInv, Opened, Inside
<1>7. Reading'
    BY <1>1, <1>2, <1>3 DEF DirInv, Reading, Inside
<1>8. FoundExact'
    BY <1>1, <1>3 DEF DirInv, FoundExact
<1> QED BY <1>4, <1>5, <1>6, <1>7, <1>8

(* A directory that cannot be opened is finished with no children.         *)
LEMMA DirOpenFails ==
  ASSUME DirInv, NEW w \in Workers, OpenFails(w)
  PROVE  Shape' /\ Places' /\ Opened' /\ Reading' /\ FoundExact'
<1>0. Spawned' = Spawned /\ Spawned \subseteq Workers /\ w \in Spawned
    BY SameSpawned, InRun DEF DirInv, OpenFails, Goto
<1>1. /\ at[w] = "open" /\ at' = [at EXCEPT ![w] = "idle"]
      /\ cur' = [cur EXCEPT ![w] = NoDir] /\ walked' = walked \union {cur[w]}
      /\ UNCHANGED <<opts, todo, rest, kids, found, listed, failed>>
    BY DEF OpenFails, Goto
<1>2. cur[w] # NoDir /\ cur[w] \notin listed /\ rest[w] = <<>> /\ kids[w] = <<>>
    BY <1>1, Unopened DEF DirInv, Shape, Inside
<1>3. /\ at'[w] = "idle" /\ cur'[w] = NoDir
      /\ \A u \in Workers \ {w} : at'[u] = at[u] /\ cur'[u] = cur[u]
    BY <1>1 DEF DirInv, TypeOK
<1>4. Leaving = {}
    BY <1>2, NobodyLeft DEF DirInv
<1>5. Leaving' = {}
    BY <1>0, <1>3, <1>4 DEF Leaving
<1>6. \A x : Children(x)' = Children(x)
    BY <1>1 DEF Children
<1>7. Shape'
    BY <1>0, <1>1, <1>2, <1>3, <1>5 DEF DirInv, Shape, Holding, Inside
<1>8. Places'
    BY <1>1, <1>2, <1>3 DEF DirInv, Places
<1>9. Opened'
    BY <1>1, <1>2, <1>3 DEF DirInv, Opened, Inside
<1>10. Reading'
    BY <1>1, <1>3, <1>6 DEF DirInv, Reading, Inside
<1>11. FoundExact'
  <2>1. listed' \intersect walked' = listed \intersect walked
      BY <1>1, <1>2
  <2> QED BY <1>1, <1>6, <2>1 DEF DirInv, FoundExact
<1> QED BY <1>7, <1>8, <1>9, <1>10, <1>11

(* A directory that is opened has met none of its entries yet.             *)
LEMMA DirOpen ==
  ASSUME DirInv, NEW w \in Workers, Open(w)
  PROVE  Shape' /\ Places' /\ Opened' /\ Reading' /\ FoundExact'
<1>0. Spawned' = Spawned /\ Spawned \subseteq Workers /\ w \in Spawned
    BY SameSpawned, InRun DEF DirInv, Open, Goto
<1>1. /\ at[w] = "open" /\ at' = [at EXCEPT ![w] = "loop"]
      /\ rest' = [rest EXCEPT ![w] = Contents[cur[w]]] /\ kids' = [kids EXCEPT ![w] = <<>>]
      /\ listed' = listed \union {cur[w]}
      /\ UNCHANGED <<opts, todo, cur, found, walked, failed>>
    BY DEF Open, Goto
<1>2. cur[w] # NoDir /\ cur[w] \in Dirs /\ cur[w] \notin listed /\ cur[w] \notin walked
    BY <1>1, Unopened, Unread
<1>3. /\ at'[w] = "loop" /\ rest'[w] = Contents[cur[w]] /\ kids'[w] = <<>>
      /\ \A u \in Workers \ {w} : at'[u] = at[u] /\ rest'[u] = rest[u] /\ kids'[u] = kids[u]
    BY <1>1 DEF DirInv, TypeOK
<1>4. Leaving = {}
    BY <1>2, NobodyLeft DEF DirInv
<1>5. Leaving' = {}
    BY <1>0, <1>3, <1>4 DEF Leaving
<1>6. \A x : Children(x)' = Children(x)
    BY <1>1 DEF Children
<1>7. Shape'
    BY <1>0, <1>1, <1>2, <1>3, <1>5 DEF DirInv, Shape, Holding, Inside
<1>8. Places'
    BY <1>1 DEF DirInv, Places
<1>9. Opened'
  <2>1. cur[w] \in found
      BY <1>2 DEF DirInv, Places
  <2>2. \A u \in Workers : at[u] \in Inside => at'[u] \in Inside
      BY <1>3 DEF Inside
  <2> QED BY <1>1, <1>3, <2>1, <2>2 DEF DirInv, Opened, Inside
<1>10. Reading'
  <2>1. Range(Contents[cur[w]]) \intersect failed = {}
    <3> SUFFICES ASSUME NEW e \in Range(Contents[cur[w]]), e \in failed PROVE FALSE
        OBVIOUS
    <3>1. PICK d \in listed : e \in Range(Contents[d])
        BY DEF DirInv, Opened
    <3>2. d \in Dirs /\ d # cur[w]
        BY <1>2 DEF DirInv, TypeOK
    <3> QED BY <1>2, <3>1, <3>2, ChildrenFacts
  <2>2. Range(kids'[w]) = {}
      BY <1>3 DEF Range
  <2>3. Children(cur[w]) \ Range(Contents[cur[w]]) = {}
      BY <1>2, ChildrenFacts
  <2>4. /\ IsInjective(rest'[w]) /\ Range(rest'[w]) \subseteq Range(Contents[cur'[w]])
        /\ Range(rest'[w]) \intersect failed' = {}
        /\ Range(kids'[w]) = Children(cur[w])' \ Range(rest'[w])
      BY <1>1, <1>2, <1>3, <1>6, <2>1, <2>2, <2>3, ContentsType
  <2>5. ASSUME NEW u \in Workers \ {w}, at'[u] \in Inside
        PROVE  /\ IsInjective(rest'[u]) /\ Range(rest'[u]) \subseteq Range(Contents[cur'[u]])
               /\ Range(rest'[u]) \intersect failed' = {}
               /\ Range(kids'[u]) = Children(cur[u])' \ Range(rest'[u])
      BY <1>1, <1>3, <1>6, <2>5 DEF DirInv, Reading
  <2> QED BY <2>4, <2>5 DEF Reading
<1>11. FoundExact'
  <2>1. listed' \intersect walked' = listed \intersect walked
      BY <1>1, <1>2
  <2> QED BY <1>1, <1>6, <2>1 DEF DirInv, FoundExact
<1> QED BY <1>7, <1>8, <1>9, <1>10, <1>11

(* What is published has never been published before, its parent being     *)
(* finished only now.                                                      *)
LEMMA DirPublish ==
  ASSUME DirInv, NEW w \in Workers, Publish(w)
  PROVE  Shape' /\ Places' /\ Opened' /\ Reading' /\ FoundExact'
<1>0. Spawned' = Spawned /\ Spawned \subseteq Workers /\ w \in Spawned
    BY SameSpawned, InRun DEF DirInv, Publish, Goto
<1>1. /\ at[w] = "loop" /\ at' = [at EXCEPT ![w] = "idle"] /\ rest[w] = <<>>
      /\ todo' = todo \union Range(kids[w]) /\ found' = found \union Range(kids[w])
      /\ walked' = walked \union {cur[w]}
      /\ cur' = [cur EXCEPT ![w] = NoDir] /\ kids' = [kids EXCEPT ![w] = <<>>]
      /\ UNCHANGED <<opts, rest, listed, failed>>
    BY DEF Publish, Goto
<1>2. cur[w] # NoDir /\ cur[w] \in listed /\ at[w] \in Inside
    BY <1>1 DEF DirInv, Shape, Holding, Inside, Opened
<1>3. /\ at'[w] = "idle" /\ cur'[w] = NoDir /\ kids'[w] = <<>>
      /\ \A u \in Workers \ {w} : at'[u] = at[u] /\ cur'[u] = cur[u] /\ kids'[u] = kids[u]
    BY <1>1 DEF DirInv, TypeOK
<1>4. cur[w] \in Dirs /\ cur[w] \notin walked /\ Range(Contents[cur[w]]) \intersect found = {}
    BY <1>2, Unread
<1>5. Range(kids[w]) = Children(cur[w])
  <2>1. Range(rest[w]) = {}
      BY <1>1 DEF Range
  <2> QED BY <1>2, <2>1 DEF DirInv, Reading
<1>6. Range(kids[w]) \intersect found = {} /\ Range(kids[w]) \subseteq Dirs
    BY <1>4, <1>5, ChildrenFacts
<1>7. Leaving = {}
    BY <1>2, NobodyLeft DEF DirInv
<1>8. Leaving' = {}
    BY <1>0, <1>3, <1>7 DEF Leaving
<1>9. \A x : Children(x)' = Children(x)
    BY <1>1 DEF Children
<1>10. Shape'
    BY <1>0, <1>1, <1>3, <1>8 DEF DirInv, Shape, Holding, Inside
<1>11. Places'
  <2>1. todo' \subseteq found' /\ walked' \subseteq found' /\ todo' \intersect walked' = {}
      BY <1>1, <1>2, <1>6 DEF DirInv, Places
  <2>2. \A u \in Workers : cur'[u] # NoDir => cur'[u] \in found' /\ cur'[u] \notin todo' \union walked'
    <3> SUFFICES ASSUME NEW u \in Workers, cur'[u] # NoDir
                 PROVE  cur'[u] \in found' /\ cur'[u] \notin todo' \union walked'
        OBVIOUS
    <3>1. u # w /\ cur'[u] = cur[u]
        BY <1>3
    <3>2. cur[u] \in found /\ cur[u] \notin todo \union walked /\ cur[u] # cur[w]
        BY <3>1 DEF DirInv, Places
    <3> QED BY <1>1, <1>6, <3>1, <3>2
  <2>3. \A u, v \in Workers : u # v /\ cur'[u] # NoDir => cur'[u] # cur'[v]
      BY <1>3 DEF DirInv, Places
  <2>4. \A d \in found' : d \in todo' \union walked' \/ \E u \in Workers : cur'[u] = d
      BY <1>1, <1>3 DEF DirInv, Places
  <2> QED BY <2>1, <2>2, <2>3, <2>4 DEF Places
<1>12. Opened'
    BY <1>1, <1>3 DEF DirInv, Opened, Inside
<1>13. Reading'
    BY <1>1, <1>3, <1>9 DEF DirInv, Reading, Inside
<1>14. FoundExact'
  <2>1. listed' \intersect walked' = (listed \intersect walked) \union {cur[w]}
      BY <1>1, <1>2
  <2> QED BY <1>1, <1>5, <1>9, <2>1 DEF DirInv, FoundExact
<1> QED BY <1>10, <1>11, <1>12, <1>13, <1>14

(* The entry at hand leaves the iterator and, if it is a directory to      *)
(* descend into, joins the children.                                       *)
LEMMA DirEntry ==
  ASSUME DirInv, NEW w \in Workers, NEW e \in Entries, EntryStep(w, e)
  PROVE  Shape' /\ Places' /\ Opened' /\ Reading' /\ FoundExact'
<1>0. Spawned' = Spawned /\ Spawned \subseteq Workers /\ w \in Spawned
    BY SameSpawned, InRun DEF DirInv, EntryStep
<1>1. /\ at[w] = "loop" /\ rest[w] # <<>> /\ e = Head(rest[w])
      /\ rest' = [rest EXCEPT ![w] = Tail(@)]
      /\ UNCHANGED <<opts, todo, cur, found, walked, listed>>
      /\ failed' = failed \/ failed' = failed \union {e}
      /\ kids' = [kids EXCEPT ![w] = IF e \in Dirs \ opts.skips /\ e \notin failed'
                                     THEN Append(@, e) ELSE @]
    BY DEF EntryStep
<1>2. /\ at'[w] \in Inside /\ rest'[w] = Tail(rest[w])
      /\ kids'[w] = IF e \in Dirs \ opts.skips /\ e \notin failed' THEN Append(kids[w], e) ELSE kids[w]
      /\ \A u \in Workers \ {w} : at'[u] = at[u] /\ rest'[u] = rest[u] /\ kids'[u] = kids[u]
    BY DEF EntryStep, DirInv, TypeOK, Inside
<1>3. at[w] \in Inside /\ cur[w] # NoDir /\ cur[w] \in listed
    BY <1>1 DEF Inside, Holding, DirInv, Shape, Opened
<1>4. /\ cur[w] \in Dirs /\ cur[w] \notin walked
      /\ Range(Contents[cur[w]]) \intersect found = {}
    BY <1>3, Unread
<1>5. /\ IsInjective(rest[w]) /\ Range(rest[w]) \subseteq Range(Contents[cur[w]])
      /\ Range(rest[w]) \intersect failed = {}
      /\ Range(kids[w]) = Children(cur[w]) \ Range(rest[w])
    BY <1>3 DEF DirInv, Reading
<1>6. rest[w] \in Seq(Entries) /\ kids[w] \in Seq(Dirs)
    BY DEF DirInv, TypeOK
<1>7. /\ e \in Range(rest[w]) /\ Range(Tail(rest[w])) = Range(rest[w]) \ {e}
      /\ IsInjective(Tail(rest[w]))
    BY <1>1, <1>5, <1>6, TailRange
<1>8. e \in Range(Contents[cur[w]]) /\ e \notin found /\ e \notin failed
    BY <1>4, <1>5, <1>7
<1>9. \A u \in Workers : at'[u] \in Inside <=> at[u] \in Inside
    BY <1>2, <1>3
<1>10. \A d \in Dirs \ {cur[w]} : e \notin Range(Contents[d])
    BY <1>4, <1>8, ChildrenFacts
<1>11. \A d \in Dirs \ {cur[w]} : Children(d)' = Children(d)
    BY <1>1, <1>10 DEF Children
<1>12. Children(cur[w])' = Children(cur[w]) \ failed'
  <2>1. failed \subseteq failed'
      BY <1>1
  <2> QED BY <1>1, <2>1 DEF Children
<1>13. Shape'
  <2>1. Leaving = {}
      BY <1>3, NobodyLeft DEF DirInv
  <2>2. Leaving' = {}
      BY <1>0, <1>2, <2>1 DEF Leaving, Inside
  <2>3. \A u \in Workers : at'[u] \in Holding <=> at[u] \in Holding
      BY <1>2, <1>3 DEF Holding
  <2>4. \A u \in Workers : at'[u] \notin Inside => rest'[u] = <<>> /\ kids'[u] = <<>>
      BY <1>2 DEF DirInv, Shape
  <2>5. \A u \in Workers : u \notin Spawned => at'[u] = "done"
      BY <1>0, <1>2 DEF DirInv, Shape
  <2> QED BY <1>0, <1>1, <2>2, <2>3, <2>4, <2>5 DEF DirInv, Shape
<1>14. Places'
    BY <1>1 DEF DirInv, Places
<1>15. Opened'
    BY <1>1, <1>3, <1>8, <1>9 DEF DirInv, Opened
<1>16. Reading'
  <2>1. Range(kids'[w]) = IF e \in Dirs \ opts.skips /\ e \notin failed'
                          THEN Range(kids[w]) \union {e} ELSE Range(kids[w])
    <3>1. CASE e \in Dirs \ opts.skips /\ e \notin failed'
      <4>1. Range(Append(kids[w], e)) = Range(kids[w]) \union {e}
          BY <1>6, <3>1, AppendRange
      <4> QED BY <1>2, <3>1, <4>1
    <3>2. CASE ~(e \in Dirs \ opts.skips /\ e \notin failed')
        BY <1>2, <3>2
    <3> QED BY <3>1, <3>2
  <2>2. e \in Children(cur[w]) <=> e \in Dirs \ opts.skips
      BY <1>8 DEF Children
  <2>3. Range(rest[w]) \intersect failed' = {e} \intersect failed'
      BY <1>1, <1>5, <1>7
  <2>4. failed' \ failed \subseteq {e}
      BY <1>1
  <2>5. Children(cur[w]) \intersect failed = {}
      BY DEF Children
  <2>6. Range(kids'[w]) = Children(cur[w])' \ Range(rest'[w])
      BY <1>2, <1>5, <1>7, <1>12, <2>1, <2>2, <2>4, <2>5
  <2>7. /\ IsInjective(rest'[w]) /\ Range(rest'[w]) \subseteq Range(Contents[cur[w]])
        /\ Range(rest'[w]) \intersect failed' = {}
      BY <1>2, <1>5, <1>7, <2>3
  <2>8. ASSUME NEW u \in Workers \ {w}, at'[u] \in Inside
        PROVE  /\ IsInjective(rest'[u]) /\ Range(rest'[u]) \subseteq Range(Contents[cur[u]])
               /\ Range(rest'[u]) \intersect failed' = {}
               /\ Range(kids'[u]) = Children(cur[u])' \ Range(rest'[u])
    <3>1. at[u] \in Inside
        BY <2>8, <1>9
    <3>2. cur[u] \in Dirs \ {cur[w]}
        BY <1>3, <3>1 DEF DirInv, Shape, Holding, Places, TypeOK
    <3>3. /\ IsInjective(rest[u]) /\ Range(rest[u]) \subseteq Range(Contents[cur[u]])
          /\ Range(rest[u]) \intersect failed = {}
          /\ Range(kids[u]) = Children(cur[u]) \ Range(rest[u])
        BY <3>1 DEF DirInv, Reading
    <3>4. e \notin Range(rest[u])
        BY <3>2, <3>3, <1>10
    <3>5. Children(cur[u])' = Children(cur[u])
        BY <3>2, <1>1, <1>11
    <3> QED BY <1>1, <1>2, <3>3, <3>4, <3>5
  <2> QED BY <1>1, <2>6, <2>7, <2>8 DEF Reading
<1>17. FoundExact'
  <2>1. \A d \in listed \intersect walked : d \in Dirs \ {cur[w]}
      BY <1>4 DEF DirInv, TypeOK
  <2> QED BY <1>1, <1>11, <2>1 DEF DirInv, FoundExact
<1> QED BY <1>13, <1>14, <1>15, <1>16, <1>17

-------------------------------------------------------------------------------
(* The invariant, and what follows from it.                                *)

WalkInv == DirInv /\ BufferBounded

(* Every step keeps the invariant.                                         *)
LEMMA WalkInvStep == WalkInv /\ [Next]_vars => WalkInv'
<1> SUFFICES ASSUME WalkInv, [Next]_vars PROVE WalkInv'
    OBVIOUS
<1>1. Base /\ Shape /\ Reading /\ DirInv
    BY DEF WalkInv, DirInv, Base
<1>2. Base'
    BY <1>1, BaseStep
<1>3. Shape' /\ Places' /\ Opened' /\ Reading' /\ FoundExact'
    BY <1>1, Kinds, DirIdleKeeps, DirTake, DirLeave, DirOpenFails, DirOpen, DirPublish, DirEntry
<1> QED BY <1>2, <1>3 DEF WalkInv, DirInv, Base

(* The invariant holds of every run.                                       *)
LEMMA WalkInvAlways == Safe => []WalkInv
<1>1. Init => WalkInv
    BY BaseInit, DirInit DEF WalkInv, DirInv, Base
<1> QED BY <1>1, WalkInvStep, PTL DEF Safe

(* Every variable keeps to its values: in particular no counter leaves the *)
(* width of a u64 and nothing but what the workers opened is ever read.    *)
THEOREM ScanTypeCorrect == Safe => []TypeOK
<1>1. WalkInv => TypeOK
    BY DEF WalkInv, DirInv
<1> QED BY <1>1, WalkInvAlways, PTL

(* The output buffer of a worker never grows past the threshold at which   *)
(* it is flushed (walker.rs:192-195).                                      *)
THEOREM BufferCorrect == Safe => []BufferBounded
<1>1. WalkInv => BufferBounded
    BY DEF WalkInv
<1> QED BY <1>1, WalkInvAlways, PTL

-------------------------------------------------------------------------------
(* The walker's side of the contract.                                      *)

(* A worker that does not leave is as much in the contract as before.      *)
LEMMA StillIn ==
  ASSUME TypeOK, UNCHANGED opts, NEW w \in Workers, NEW from, NEW to, Goto(w, from, to),
         from \notin {"final", "sum", "size", "done"}, to \notin {"final", "sum", "size", "done"}
  PROVE  Leaving' = Leaving /\ w \notin Leaving
BY SameSpawned DEF Goto, TypeOK, Leaving

(* Each step is one of the contract's or none of its business.             *)
LEMMA ContractStep ==
  ASSUME WalkInv, [Next]_vars
  PROVE  [Contract!Next]_<<todo, cur, found, Leaving>>
<1>1. Base /\ Shape /\ Reading /\ DirInv
    BY DEF WalkInv, DirInv, Base
<1>2. ASSUME NEW w \in Workers, Contract!Step(w)
      PROVE  Contract!Next
    BY <1>2 DEF Contract!Next
<1>3. ASSUME NEW w \in Workers, NEW d \in Dirs, Take(w, d)
      PROVE  Contract!Step(w)
  <2>1. Leaving' = Leaving /\ w \notin Leaving
      BY <1>1, <1>3, StillIn DEF Take, DirInv
  <2>2. cur[w] = NoDir
      BY <1>1, <1>3 DEF Take, Goto, Shape, Holding, Inside
  <2>3. Contract!Take(w, d)
      BY <1>3, <2>1, <2>2 DEF Take, history, Contract!Take
  <2> QED BY <2>3 DEF Contract!Step
<1>4. ASSUME NEW w \in Workers, Leave(w)
      PROVE  Contract!Step(w)
  <2>1. w \notin Leaving /\ Leaving' = Leaving \union {w}
      BY <1>1, <1>4, SameSpawned, InRun DEF Leave, Goto, Leaving, DirInv, TypeOK
  <2>2. Contract!Leave(w)
      BY <1>4, <2>1 DEF Leave, local, history, Contract!Leave
  <2> QED BY <2>2 DEF Contract!Step
<1>5. ASSUME NEW w \in Workers, OpenFails(w)
      PROVE  Contract!Step(w)
  <2>1. Leaving' = Leaving
      BY <1>1, <1>5, StillIn DEF OpenFails, DirInv
  <2>2. cur[w] # NoDir
      BY <1>1, <1>5 DEF OpenFails, Goto, Shape, Holding
  <2>3. Contract!Finish(w, {})
      BY <1>5, <2>1, <2>2 DEF OpenFails, Contract!Finish
  <2> QED BY <2>3 DEF Contract!Step
<1>6. ASSUME NEW w \in Workers, Publish(w)
      PROVE  Contract!Step(w)
  <2>1. Leaving' = Leaving
      BY <1>1, <1>6, StillIn DEF Publish, DirInv
  <2>2. at[w] \in Inside /\ cur[w] # NoDir /\ rest[w] = <<>>
      BY <1>1, <1>6 DEF Publish, Goto, Shape, Holding, Inside
  <2>3. Range(kids[w]) \subseteq Children(cur[w])
      BY <1>1, <2>2 DEF Reading
  <2>4. Range(kids[w]) \subseteq Dirs /\ Range(kids[w]) \intersect found = {}
      BY <1>1, <2>2, <2>3, Unread, ChildrenFacts
  <2>5. Contract!Finish(w, Range(kids[w]))
      BY <1>6, <2>1, <2>2, <2>4 DEF Publish, Contract!Finish
  <2> QED BY <2>4, <2>5 DEF Contract!Step
<1>7. ASSUME NEW w \in Workers, Open(w)
      PROVE  UNCHANGED <<todo, cur, found, Leaving>>
  <2>1. Leaving' = Leaving
      BY <1>1, <1>7, StillIn DEF Open, DirInv
  <2> QED BY <1>7, <2>1 DEF Open
<1>8. ASSUME NEW w \in Workers, NEW e \in Entries, EntryStep(w, e)
      PROVE  UNCHANGED <<todo, cur, found, Leaving>>
  <2>1. Leaving' = Leaving
      BY <1>1, <1>8, SameSpawned DEF EntryStep, Leaving, DirInv, TypeOK
  <2> QED BY <1>8, <2>1 DEF EntryStep
<1>9. ASSUME DirIdle
      PROVE  UNCHANGED <<todo, cur, found, Leaving>>
  <2>1. Leaving' = Leaving
      BY <1>1, <1>9, SameSpawned DEF DirIdle, Alike, Leaving, Inside
  <2> QED BY <1>9, <2>1 DEF DirIdle
<1> QED BY <1>1, <1>2, <1>3, <1>4, <1>5, <1>6, <1>7, <1>8, <1>9, Kinds

(* The walker keeps the contract with the pool for every tree and whatever *)
(* goes wrong: it finishes each directory it took exactly once, also the   *)
(* one it could not open, never pushes a directory a second time, and a    *)
(* worker only leaves when nothing can come (walker.rs:55-61, 178-189).    *)
THEOREM ContractCorrect == Safe => ContractSafe
<1>1. Init => Contract!Init
    BY DEF Init, Fresh, Spawn, Spawned, Contract!Init, Leaving
<1>2. WalkInv /\ [Next]_vars => [Contract!Next]_(Contract!wvars)
    BY ContractStep DEF Contract!wvars
<1> QED BY <1>1, <1>2, WalkInvAlways, PTL DEF Safe, ContractSafe, Contract!Safe

-------------------------------------------------------------------------------
(* A run that ends normally.                                               *)

Ended == exit = "ok" => \A w \in Workers : at[w] = "done"

(* The only step to the normal end is Return.                              *)
LEMMA OkStep ==
  ASSUME [Next]_vars, exit' = "ok"
  PROVE  Return \/ UNCHANGED vars
<1>1. CASE UNCHANGED vars
    BY <1>1
<1>2. CASE Running /\ exit' \in {"running", "pipe", "error", "panic"}
    BY <1>2
<1>3. ASSUME NEW w \in Workers, NEW from, NEW to, Flush(w, from, to)
      PROVE  Running /\ exit' \in {"running", "pipe", "error", "panic"}
    BY <1>3 DEF Flush, Goto, Running
<1>4. ASSUME NEW w \in Workers, NEW e \in Entries, Returns(w, e)
      PROVE  Running /\ exit' \in {"running", "pipe", "error", "panic"}
    BY <1>4 DEF Returns, Running, output
<1>5. ASSUME NEW w \in Workers, Worker(w)
      PROVE  Running /\ exit' \in {"running", "pipe", "error", "panic"}
  <2>1. CASE \E d \in Dirs : Take(w, d)
      BY <2>1 DEF Take, Goto, Running, output
  <2>2. CASE Leave(w) \/ OpenFails(w) \/ Open(w) \/ Publish(w)
      BY <2>2 DEF Leave, OpenFails, Open, Publish, Goto, Running, output
  <2>3. CASE \E e \in Entries : Returns(w, e)
      BY <2>3, <1>4
  <2>4. CASE FlushFull(w) \/ FlushFinal(w)
      BY <2>4, <1>3 DEF FlushFull, FlushFinal, Goto, Running, output
  <2>5. CASE AddCount(w) \/ AddSize(w)
      BY <2>5 DEF AddCount, AddSize, Goto, Running, output
  <2>6. ASSUME NEW e \in Entries,
               EntryFails(w, e) \/ CountFile(w, e) \/ SkipDir(w, e)
                 \/ ChildDir(w, e) \/ File(w, e) \/ Ignore(w, e)
        PROVE  Returns(w, e)
      BY <2>6 DEF EntryFails, CountFile, SkipDir, ChildDir, File, Ignore, Passes,
             Records, Tallies, WriteMatch
  <2> QED BY <1>5, <2>1, <2>2, <2>3, <2>4, <2>5, <2>6 DEF Worker
<1>6. CASE PrintSummary
    BY <1>6, <1>2 DEF PrintSummary, AllJoined, Running
<1>7. CASE Return
    BY <1>7
<1>8. CASE Reader
    BY <1>8, <1>2 DEF Reader, Fill, Empty, Close, Running, output
<1> QED BY <1>1, <1>2, <1>5, <1>6, <1>7, <1>8 DEF Next, Exited

(* The workers of a run that ended normally are done.                      *)
LEMMA EndedStep ==
  ASSUME Ended, [Next]_vars
  PROVE  Ended'
<1> SUFFICES ASSUME exit' = "ok" PROVE \A w \in Workers : at'[w] = "done"
    BY DEF Ended
<1>1. CASE Return
    BY <1>1 DEF Return, AllJoined
<1>2. CASE UNCHANGED vars
    BY <1>2 DEF vars, Ended, output
<1> QED BY <1>1, <1>2, OkStep

(* After the end of a run there is nothing left to walk.                   *)
LEMMA AllWalked ==
  ASSUME WalkInv, Ended, exit = "ok"
  PROVE  found = walked /\ listed \subseteq walked
<1>1. 0 \in Workers /\ 0 \in Spawned
    BY SizeAssumption DEF Workers, Spawned
<1>2. todo = {} /\ \A w \in Workers : cur[w] = NoDir /\ at[w] \notin Inside
    BY <1>1 DEF Ended, WalkInv, DirInv, Shape, Leaving, Inside
<1>3. \A d \in found : d # NoDir
    BY ListingAssumption DEF WalkInv, DirInv, TypeOK
<1>4. found = walked
    BY <1>2, <1>3 DEF WalkInv, DirInv, Places
<1> QED BY <1>2, <1>4 DEF WalkInv, DirInv, Opened

(* Nothing below a directory on the skip list is ever opened, pushed or    *)
(* printed, and a run that ends normally has been through every other one  *)
(* (walker.rs:110-112, 178-189).                                           *)
THEOREM PrunedCorrect == Safe => []Pruned
<1>1. Init => Ended
    BY DEF Init, Fresh, Ended
<1>2. WalkInv /\ Ended => Pruned
  <2> SUFFICES ASSUME WalkInv, Ended PROVE Pruned
      OBVIOUS
  <2> DEFINE expected == {Root} \union UNION {Children(d) : d \in listed}
  <2>1. found \subseteq expected /\ listed \subseteq found
      BY DEF WalkInv, DirInv, FoundExact, Opened
  <2>2. ASSUME exit = "ok" PROVE walked = expected
    <3>1. found = walked /\ listed \intersect walked = listed
        BY <2>2, AllWalked
    <3> QED BY <3>1 DEF WalkInv, DirInv, FoundExact
  <2> QED BY <2>1, <2>2 DEF Pruned
<1>3. Ended /\ [Next]_vars => Ended'
    BY EndedStep
<1> QED BY <1>1, <1>2, <1>3, WalkInvAlways, PTL DEF Safe

-------------------------------------------------------------------------------
(* The matches.                                                            *)

Late == {"sum", "size", "done"}

(* What the iterators have returned and no error has hidden.               *)
Returned == (UNION {Range(Contents[d]) : d \in listed})
              \ (failed \union UNION {Range(rest[w]) : w \in Workers})

Tallied == UNION {tally[w] : w \in Workers}

(* The workers whose count has been added to the total.                    *)
Summed == {w \in Workers : at[w] \in {"size", "done"}}

TallyExact == Tallied = {e \in Returned : Qualifies(e)}

TallyDisjoint == \A v, w \in Workers : v # w => tally[v] \intersect tally[w] = {}

(* The counters hold the number of the entries they stand for.             *)
Counted ==
  /\ \A w \in Workers \ Summed : count[w] = Cardinality(tally[w])
  /\ matched = Cardinality(UNION {tally[w] : w \in Summed})

(* The process was ended in the middle of a write.                         *)
Cut == exit \in {"pipe", "error"}

(* A match is on standard output or in the buffer of the worker that found *)
(* it, once.                                                               *)
Buffered ==
  \A w \in Workers :
    /\ IsInjective(out[w]) /\ Range(out[w]) \subseteq tally[w] \ Range(stdout)
    /\ at[w] \in Late => out[w] = <<>>

Somewhere ==
  \A e \in Tallied : e \in Range(stdout) \/ \E w \in Workers : e \in Range(out[w])

Lines ==
  /\ IsInjective(stdout) /\ Range(stdout) \subseteq Tallied
  /\ ~Cut => Buffered /\ (~opts.count_only => Somewhere)

Printed == exit = "ok" => report = Summary

MatchInv == TallyExact /\ TallyDisjoint /\ Counted /\ Lines /\ Printed

-------------------------------------------------------------------------------
(* Steps by what they do to the matches.                                   *)

(* Nothing is found, written or added up.                                  *)
MatchIdle ==
  /\ UNCHANGED <<opts, tally, out, count, stdout, matched>>
  /\ Returned' = Returned /\ Summed' = Summed /\ (Cut' <=> Cut)
  /\ \A w \in Workers : at'[w] \in Late => at[w] \in Late \/ out[w] = <<>>

(* A buffer is written and cleared.                                        *)
Written(w) ==
  /\ Running /\ Running'
  /\ stdout' = stdout \o out[w]
  /\ out' = [out EXCEPT ![w] = <<>>]
  /\ UNCHANGED <<opts, tally, count, matched>>
  /\ Returned' = Returned /\ Summed' = Summed
  /\ \A u \in Workers \ {w} : at'[u] = at[u]

(* A part of a buffer is written, and the process ends.                    *)
CutShort(w) ==
  /\ Running /\ Cut'
  /\ \E n \in 0 .. Len(out[w]) - 1 : stdout' = stdout \o SubSeq(out[w], 1, n)
  /\ UNCHANGED <<opts, tally, out, count, matched>>
  /\ Returned' = Returned /\ Summed' = Summed

(* What has been returned depends on the directories only.                 *)
LEMMA ReturnedSame ==
  ASSUME UNCHANGED <<rest, listed, failed>>
  PROVE  Returned' = Returned
BY DEF Returned

(* A successful write, a failed write, or nothing to write.                *)
LEMMA FlushKinds ==
  ASSUME TypeOK, NEW w \in Workers, NEW from, NEW to,
         from \notin {"size", "done"}, to \notin {"size", "done"}, Flush(w, from, to)
  PROVE  Written(w) \/ CutShort(w)
<1>1. CASE /\ Goto(w, from, to)
           /\ stdout' = stdout \o out[w]
           /\ out' = [out EXCEPT ![w] = <<>>]
           /\ UNCHANGED <<opts, todo, cur, rest, kids, count, size, totals, exit, report,
                          pipe, history>>
  <2>1. Summed' = Summed
      BY <1>1 DEF Goto, Summed, TypeOK
  <2>2. Returned' = Returned
      BY <1>1, ReturnedSame DEF history
  <2>3. \A u \in Workers \ {w} : at'[u] = at[u]
      BY <1>1 DEF Goto, TypeOK
  <2>4. Running /\ Running'
      BY <1>1 DEF Goto, Running
  <2> QED BY <1>1, <2>1, <2>2, <2>3, <2>4 DEF Written, totals, history
<1>2. CASE /\ Running /\ at[w] = from /\ out[w] # <<>> /\ pipe # "full"
           /\ \E n \in 0 .. Len(out[w]) - 1 : stdout' = stdout \o SubSeq(out[w], 1, n)
           /\ exit' = IF pipe = "closed" THEN "pipe" ELSE "error"
           /\ UNCHANGED <<opts, todo, at, local, totals, report, pipe, history>>
  <2>1. Summed' = Summed /\ Returned' = Returned
      BY <1>2, ReturnedSame DEF Summed, history, local
  <2>2. Cut'
      BY <1>2 DEF Cut
  <2> QED BY <1>2, <2>1, <2>2 DEF CutShort, totals, history, local
<1> QED BY <1>1, <1>2 DEF Flush

(* A worker that goes on within the walk changes nothing of the matches.   *)
LEMMA GotoIdle ==
  ASSUME TypeOK, NEW w \in Workers, NEW from, NEW to, Goto(w, from, to),
         UNCHANGED <<opts, tally, out, count, stdout, matched, exit>>, Returned' = Returned,
         from \in {"size", "done"} <=> to \in {"size", "done"},
         to \in Late => from \in Late \/ out[w] = <<>>
  PROVE  MatchIdle
<1>1. /\ at[w] = from /\ at'[w] = to
      /\ \A u \in Workers \ {w} : at'[u] = at[u]
    BY DEF Goto, TypeOK
<1>2. Summed' = Summed
    BY <1>1 DEF Summed
<1> QED BY <1>1, <1>2 DEF MatchIdle, Cut

(* A directory that is opened has all its entries in the iterator.         *)
LEMMA OpenReturned ==
  ASSUME DirInv, NEW w \in Workers, Open(w)
  PROVE  Returned' = Returned
<1>1. /\ at[w] = "open" /\ listed' = listed \union {cur[w]} /\ failed' = failed
      /\ rest' = [rest EXCEPT ![w] = Contents[cur[w]]]
    BY DEF Open, Goto
<1>2. /\ cur[w] # NoDir /\ cur[w] \in Dirs /\ cur[w] \notin listed /\ rest[w] = <<>>
    BY <1>1, Unopened, Unread DEF DirInv, Shape, Inside
<1>3. /\ rest'[w] = Contents[cur[w]]
      /\ \A u \in Workers \ {w} : rest'[u] = rest[u]
    BY <1>1 DEF DirInv, TypeOK
<1>4. \A d \in listed : Range(Contents[d]) \intersect Range(Contents[cur[w]]) = {}
    BY <1>2, ChildrenFacts DEF DirInv, TypeOK
<1>5. Range(rest[w]) = {}
    BY <1>2 DEF Range
<1>6. \A e : e \in Returned' <=> e \in Returned
  <2> SUFFICES ASSUME NEW e PROVE e \in Returned' <=> e \in Returned
      OBVIOUS
  <2> DEFINE In(d) == e \in Range(Contents[d])
             Rest(u) == e \in Range(rest[u])
  <2>1. e \in Returned <=> /\ \E d \in listed : e \in Range(Contents[d])
                           /\ e \notin failed /\ \A u \in Workers : e \notin Range(rest[u])
      BY DEF Returned
  <2>2. e \in Returned' <=> /\ \E d \in listed' : e \in Range(Contents[d])
                            /\ e \notin failed' /\ \A u \in Workers : e \notin Range(rest'[u])
      BY DEF Returned
  <2> QED BY <1>1, <1>3, <1>4, <1>5, <2>1, <2>2
<1> QED BY <1>6

(* What a step does to the matches.                                        *)
LEMMA MatchKinds ==
  ASSUME WalkInv, [Next]_vars
  PROVE  \/ \E w \in Workers : \/ \E e \in Entries : EntryStep(w, e)
                               \/ Written(w) \/ CutShort(w) \/ AddCount(w)
         \/ MatchIdle
<1>0. Base /\ Reading /\ DirInv /\ TypeOK
    BY DEF WalkInv, DirInv, Base
<1>1. ASSUME NEW w \in Workers, \E d \in Dirs : Take(w, d)
      PROVE  MatchIdle
  <2>1. Goto(w, "idle", "open") /\ UNCHANGED <<opts, rest, out, count, totals, output, history>>
      BY <1>1 DEF Take
  <2>2. Returned' = Returned
      BY <2>1, ReturnedSame DEF history
  <2> QED BY <1>0, <2>1, <2>2, GotoIdle DEF Late, totals, output, history
<1>2. ASSUME NEW w \in Workers, Leave(w)
      PROVE  MatchIdle
  <2>1. Goto(w, "idle", "final") /\ UNCHANGED <<opts, local, totals, output, history>>
      BY <1>2 DEF Leave
  <2>2. Returned' = Returned
      BY <2>1, ReturnedSame DEF history, local
  <2> QED BY <1>0, <2>1, <2>2, GotoIdle DEF Late, local, totals, output, history
<1>3. ASSUME NEW w \in Workers, OpenFails(w)
      PROVE  MatchIdle
  <2>1. /\ Goto(w, "open", "idle")
        /\ UNCHANGED <<opts, rest, out, count, totals, output, listed, failed, tally>>
      BY <1>3 DEF OpenFails
  <2>2. Returned' = Returned
      BY <2>1, ReturnedSame
  <2> QED BY <1>0, <2>1, <2>2, GotoIdle DEF Late, totals, output
<1>4. ASSUME NEW w \in Workers, Open(w)
      PROVE  MatchIdle
  <2>1. Goto(w, "open", "loop") /\ UNCHANGED <<opts, out, count, totals, output, tally>>
      BY <1>4 DEF Open
  <2>2. Returned' = Returned
      BY <1>0, <1>4, OpenReturned
  <2> QED BY <1>0, <2>1, <2>2, GotoIdle DEF Late, totals, output
<1>5. ASSUME NEW w \in Workers, Publish(w)
      PROVE  MatchIdle
  <2>1. /\ Goto(w, "loop", "idle")
        /\ UNCHANGED <<opts, rest, out, count, totals, output, listed, failed, tally>>
      BY <1>5 DEF Publish
  <2>2. Returned' = Returned
      BY <2>1, ReturnedSame
  <2> QED BY <1>0, <2>1, <2>2, GotoIdle DEF Late, totals, output
<1>6. ASSUME NEW w \in Workers, FlushFull(w) \/ FlushFinal(w)
      PROVE  Written(w) \/ CutShort(w) \/ MatchIdle
  <2>1. CASE Flush(w, "flush", "loop") \/ Flush(w, "final", "sum")
      BY <1>0, <2>1, FlushKinds
  <2>2. CASE /\ out[w] = <<>> /\ Goto(w, "final", "sum")
             /\ UNCHANGED <<opts, todo, local, totals, output, pipe, history>>
    <3>1. Returned' = Returned
        BY <2>2, ReturnedSame DEF history, local
    <3> QED BY <1>0, <2>2, <3>1, GotoIdle DEF Late, local, totals, output, history
  <2> QED BY <1>6, <2>1, <2>2 DEF FlushFull, FlushFinal
<1>7. ASSUME NEW w \in Workers, AddSize(w)
      PROVE  MatchIdle
  <2>1. /\ Goto(w, "size", "done")
        /\ UNCHANGED <<opts, rest, out, count, matched, output, history>>
      BY <1>7 DEF AddSize
  <2>2. Returned' = Returned
      BY <2>1, ReturnedSame DEF history
  <2> QED BY <1>0, <2>1, <2>2, GotoIdle DEF Late, output, history
<1>8. ASSUME UNCHANGED <<opts, at, local, totals, stdout, history>>, Cut' <=> Cut
      PROVE  MatchIdle
  <2>1. Returned' = Returned /\ Summed' = Summed
      BY <1>8, ReturnedSame DEF history, local, Summed
  <2> QED BY <1>8, <2>1 DEF MatchIdle, local, totals, history
<1>9. CASE PrintSummary \/ Return \/ Reader \/ Exited \/ UNCHANGED vars
  <2>1. UNCHANGED <<opts, at, local, totals, stdout, history>>
      BY <1>9 DEF PrintSummary, Return, Reader, Fill, Empty, Close, Exited, vars, output
  <2>2. Cut' <=> Cut
      BY <1>9 DEF PrintSummary, Return, Reader, Fill, Empty, Close, Exited, vars, output, AllJoined, Running, Cut
  <2> QED BY <1>8, <2>1, <2>2
<1>10. ASSUME NEW w \in Workers, NEW e \in Entries,
              EntryFails(w, e) \/ CountFile(w, e) \/ SkipDir(w, e)
                \/ ChildDir(w, e) \/ File(w, e) \/ Ignore(w, e)
       PROVE  EntryStep(w, e)
    BY <1>0, <1>10, EntryStepKind
<1>11. ASSUME NEW w \in Workers, Worker(w)
       PROVE  \/ \E e \in Entries : EntryStep(w, e)
              \/ Written(w) \/ CutShort(w) \/ AddCount(w) \/ MatchIdle
    BY <1>1, <1>2, <1>3, <1>4, <1>5, <1>6, <1>7, <1>10, <1>11 DEF Worker
<1> QED BY <1>9, <1>11 DEF Next

-------------------------------------------------------------------------------
(* The invariant.                                                          *)

(* The counters do not wrap: there are no more entries than a u64 counts.  *)
LEMMA AddExact ==
  ASSUME NEW x \in Nat, NEW n \in Nat, x + n <= U64Max
  PROVE  Add(x, n) = x + n
BY SizeAssumption DEF Add

(* What has been counted are entries, a finite number of them.             *)
LEMMA EntriesCounted ==
  ASSUME TypeOK, NEW S \in SUBSET Entries
  PROVE  IsFiniteSet(S) /\ Cardinality(S) \in Nat /\ Cardinality(S) <= U64Max
<1>1. IsFiniteSet(Entries) /\ Cardinality(Entries) <= U64Max
    BY ListingAssumption
<1>2. IsFiniteSet(S) /\ Cardinality(S) <= Cardinality(Entries)
    BY <1>1, FS_Subset
<1>3. Cardinality(S) \in Nat /\ Cardinality(Entries) \in Nat
    BY <1>1, <1>2, FS_CardinalityType
<1> QED BY <1>1, <1>2, <1>3, SizeAssumption

(* Nothing is counted before the first step.                               *)
LEMMA MatchInit == Init => MatchInv
<1> SUFFICES ASSUME Init PROVE MatchInv
    OBVIOUS
<1> USE DEF Init, Fresh
<1>1. Tallied = {} /\ Returned = {}
    BY DEF Tallied, Returned
<1>2. TallyExact /\ TallyDisjoint
    BY <1>1 DEF TallyExact, TallyDisjoint
<1>3. Counted
  <2>1. UNION {tally[w] : w \in Summed} = {}
      BY DEF Summed
  <2> QED BY <2>1, FS_EmptySet DEF Counted
<1>4. Lines
  <2>1. IsInjective(<<>>) /\ Range(<<>>) = {}
      BY DEF IsInjective, Range
  <2> QED BY <1>1, <2>1 DEF Lines, Buffered, Somewhere, Late
<1>5. Printed
    BY DEF Printed
<1> QED BY <1>2, <1>3, <1>4, <1>5 DEF MatchInv

(* The summary is printed before the process ends normally.                *)
LEMMA PrintedStep ==
  ASSUME Printed, [Next]_vars
  PROVE  Printed'
<1> SUFFICES ASSUME exit' = "ok" PROVE report' = Summary'
    BY DEF Printed
<1>1. CASE Return
    BY <1>1 DEF Return, Summary, totals
<1>2. CASE UNCHANGED vars
    BY <1>2 DEF vars, Printed, Summary, totals, output
<1> QED BY <1>1, <1>2, OkStep

(* Steps that leave the matches alone.                                     *)
LEMMA MatchIdleKeeps ==
  ASSUME MatchInv, MatchIdle
  PROVE  TallyExact' /\ TallyDisjoint' /\ Counted' /\ Lines'
<1> USE DEF MatchInv, MatchIdle
<1>1. \A e : Qualifies(e)' <=> Qualifies(e)
    BY DEF Qualifies, NameMatches, SizeFits
<1>2. Tallied' = Tallied
    BY DEF Tallied
<1>3. TallyExact'
    BY <1>1, <1>2 DEF TallyExact
<1>4. TallyDisjoint' /\ Counted'
    BY DEF TallyDisjoint, Counted
<1>5. Lines'
    BY <1>2 DEF Lines, Buffered, Somewhere
<1> QED BY <1>3, <1>4, <1>5

(* An entry that is counted has not been counted before, by nobody.        *)
LEMMA MatchEntry ==
  ASSUME WalkInv, MatchInv, NEW w \in Workers, NEW e \in Entries, EntryStep(w, e)
  PROVE  TallyExact' /\ TallyDisjoint' /\ Counted' /\ Lines'
<1>1. /\ at[w] = "loop" /\ rest[w] # <<>> /\ e = Head(rest[w]) /\ Running
      /\ rest' = [rest EXCEPT ![w] = Tail(@)]
      /\ UNCHANGED <<opts, listed, matched, stdout, exit>>
      /\ failed' = failed \/ failed' = failed \union {e}
      /\ tally' = [tally EXCEPT ![w] = IF Counts(e) THEN @ \union {e} ELSE @]
      /\ count' = [count EXCEPT ![w] = IF Counts(e) THEN Add(@, 1) ELSE @]
      /\ out' = [out EXCEPT ![w] = IF Counts(e) /\ ~opts.count_only THEN Append(@, e) ELSE @]
    BY DEF EntryStep, totals, output
<1>2. /\ at'[w] \notin Late /\ w \notin Summed /\ Summed' = Summed
      /\ rest'[w] = Tail(rest[w])
      /\ tally'[w] = IF Counts(e) THEN tally[w] \union {e} ELSE tally[w]
      /\ count'[w] = IF Counts(e) THEN Add(count[w], 1) ELSE count[w]
      /\ out'[w] = IF Counts(e) /\ ~opts.count_only THEN Append(out[w], e) ELSE out[w]
      /\ \A u \in Workers \ {w} : /\ at'[u] = at[u] /\ rest'[u] = rest[u] /\ tally'[u] = tally[u]
                                  /\ count'[u] = count[u] /\ out'[u] = out[u]
    BY <1>1 DEF EntryStep, WalkInv, DirInv, TypeOK, Late, Summed
<1>3. at[w] \in Inside /\ cur[w] # NoDir /\ cur[w] \in listed
    BY <1>1 DEF Inside, Holding, WalkInv, DirInv, Shape, Opened
<1>4. /\ IsInjective(rest[w]) /\ Range(rest[w]) \subseteq Range(Contents[cur[w]])
      /\ Range(rest[w]) \intersect failed = {}
    BY <1>3 DEF WalkInv, DirInv, Reading
<1>5. e \in Range(rest[w]) /\ Range(Tail(rest[w])) = Range(rest[w]) \ {e}
    BY <1>1, <1>4, TailRange DEF WalkInv, DirInv, TypeOK
<1>6. e \notin Returned /\ e \notin Tallied
    BY <1>5 DEF Returned, MatchInv, TallyExact
<1>7. \A u \in Workers \ {w} : e \notin Range(rest[u])
  <2> SUFFICES ASSUME NEW u \in Workers \ {w}, e \in Range(rest[u]) PROVE FALSE
      OBVIOUS
  <2>1. at[u] \in Inside
    <3>1. rest[u] # <<>>
        BY DEF Range
    <3> QED BY <3>1 DEF WalkInv, DirInv, Shape
  <2>2. cur[u] # NoDir /\ cur[u] \in Dirs /\ cur[w] \in Dirs /\ cur[u] # cur[w]
      BY <1>3, <2>1 DEF WalkInv, DirInv, Shape, Holding, Places, TypeOK
  <2>3. e \in Range(Contents[cur[u]]) /\ e \in Range(Contents[cur[w]])
      BY <1>4, <1>5, <2>1 DEF WalkInv, DirInv, Reading
  <2> QED BY <2>2, <2>3, ChildrenFacts
<1>8. Returned' = Returned \union ({e} \ failed')
  <2> SUFFICES ASSUME NEW x
               PROVE  x \in Returned' <=> x \in Returned \/ (x = e /\ e \notin failed')
      OBVIOUS
  <2>1. x \in Returned <=> /\ \E d \in listed : x \in Range(Contents[d])
                           /\ x \notin failed /\ \A u \in Workers : x \notin Range(rest[u])
      BY DEF Returned
  <2>2. x \in Returned' <=> /\ \E d \in listed : x \in Range(Contents[d])
                            /\ x \notin failed' /\ \A u \in Workers : x \notin Range(rest'[u])
      BY <1>1 DEF Returned
  <2>3. CASE x = e
    <3>1. \A u \in Workers : e \notin Range(rest'[u])
        BY <1>2, <1>5, <1>7
    <3> QED BY <1>3, <1>4, <1>5, <1>6, <2>2, <2>3, <3>1
  <2>4. CASE x # e
    <3>1. \A u \in Workers : x \in Range(rest'[u]) <=> x \in Range(rest[u])
        BY <1>2, <1>5, <2>4
    <3> QED BY <1>1, <2>1, <2>2, <2>4, <3>1
  <2> QED BY <2>3, <2>4
<1>9. Tallied' = Tallied \union (IF Counts(e) THEN {e} ELSE {})
    BY <1>2 DEF Tallied
<1>10. TallyExact'
  <2>1. \A x : Qualifies(x)' <=> Qualifies(x)
      BY <1>1 DEF Qualifies, NameMatches, SizeFits
  <2>2. Tallied = {x \in Returned : Qualifies(x)}
      BY DEF MatchInv, TallyExact
  <2>3. Counts(e) <=> Qualifies(e) /\ e \notin failed'
      BY DEF Counts
  <2>4. Tallied' = {x \in Returned' : Qualifies(x)}
      BY <1>8, <1>9, <2>2, <2>3
  <2> QED BY <2>1, <2>4 DEF TallyExact
<1>11. \A u \in Workers : e \notin tally[u]
    BY <1>6 DEF Tallied
<1>12. TallyDisjoint'
    BY <1>2, <1>11 DEF MatchInv, TallyDisjoint
<1>13. Counted'
  <2>1. matched' = Cardinality(UNION {tally'[u] : u \in Summed'})
    <3>1. \A u \in Summed : tally'[u] = tally[u]
        BY <1>2 DEF Summed
    <3>2. {tally'[u] : u \in Summed'} = {tally[u] : u \in Summed}
        BY <1>2, <3>1
    <3> QED BY <1>1, <3>2 DEF MatchInv, Counted
  <2>2. count'[w] = Cardinality(tally'[w])
    <3>1. count[w] = Cardinality(tally[w])
        BY <1>2 DEF MatchInv, Counted
    <3>2. CASE ~Counts(e)
        BY <1>2, <3>1, <3>2
    <3>3. CASE Counts(e)
      <4>1. tally[w] \in SUBSET Entries /\ tally[w] \union {e} \in SUBSET Entries
          BY DEF WalkInv, DirInv, TypeOK
      <4>2. /\ IsFiniteSet(tally[w]) /\ Cardinality(tally[w]) \in Nat
            /\ Cardinality(tally[w] \union {e}) <= U64Max
          BY <4>1, EntriesCounted DEF WalkInv, DirInv
      <4>3. Cardinality(tally[w] \union {e}) = Cardinality(tally[w]) + 1
          BY <1>11, <4>2, FS_AddElement
      <4>4. Add(count[w], 1) = count[w] + 1
          BY <3>1, <4>2, <4>3, AddExact
      <4> QED BY <1>2, <3>1, <3>3, <4>3, <4>4
    <3> QED BY <3>2, <3>3
  <2>3. \A u \in Workers \ Summed' : count'[u] = Cardinality(tally'[u])
      BY <1>2, <2>2 DEF MatchInv, Counted
  <2> QED BY <2>1, <2>3 DEF Counted
<1>14. Lines'
  <2>1. IsInjective(stdout') /\ Range(stdout') \subseteq Tallied'
      BY <1>1, <1>9 DEF MatchInv, Lines
  <2>2. Cut' <=> Cut
      BY <1>1 DEF Cut
  <2>3. ~Cut
      BY <1>1 DEF Cut, Running
  <2>4. Buffered /\ (~opts.count_only => Somewhere)
      BY <2>3 DEF MatchInv, Lines
  <2>5. e \notin Range(stdout) /\ e \notin Range(out[w])
      BY <1>6, <1>11, <2>4 DEF MatchInv, Lines, Buffered
  <2>6. Range(out'[w]) = Range(out[w]) \union (IF Counts(e) /\ ~opts.count_only THEN {e} ELSE {})
          /\ IsInjective(out'[w])
    <3>1. out[w] \in Seq(Entries) /\ IsInjective(out[w])
        BY <2>4 DEF Buffered, WalkInv, DirInv, TypeOK
    <3>2. CASE Counts(e) /\ ~opts.count_only
      <4>1. Range(Append(out[w], e)) = Range(out[w]) \union {e} /\ IsInjective(Append(out[w], e))
          BY <2>5, <3>1, AppendRange
      <4> QED BY <1>2, <3>2, <4>1
    <3>3. CASE ~(Counts(e) /\ ~opts.count_only)
        BY <1>2, <3>1, <3>3
    <3> QED BY <3>2, <3>3
  <2>7. Range(out'[w]) \subseteq tally'[w] \ Range(stdout)
      BY <1>2, <2>4, <2>5, <2>6 DEF Buffered
  <2>8. Buffered'
      BY <1>1, <1>2, <2>4, <2>6, <2>7 DEF Buffered
  <2>9. ASSUME ~opts.count_only PROVE Somewhere'
    <3> SUFFICES ASSUME NEW x \in Tallied'
                 PROVE  x \in Range(stdout') \/ \E u \in Workers : x \in Range(out'[u])
        BY DEF Somewhere
    <3>1. CASE x \in Tallied
      <4>1. x \in Range(stdout) \/ \E u \in Workers : x \in Range(out[u])
          BY <2>4, <2>9, <3>1 DEF Somewhere
      <4> QED BY <1>1, <1>2, <2>6, <4>1
    <3>2. CASE x \notin Tallied
      <4>1. x = e /\ Counts(e)
          BY <1>9, <3>2
      <4> QED BY <2>6, <2>9, <4>1
    <3> QED BY <3>1, <3>2
  <2> QED BY <1>1, <2>1, <2>8, <2>9 DEF Lines
<1> QED BY <1>10, <1>12, <1>13, <1>14

(* Two sequences of different entries, one after the other.                *)
LEMMA ConcatInjective ==
  ASSUME NEW S, NEW s \in Seq(S), NEW t \in Seq(S), IsInjective(s), IsInjective(t),
         Range(s) \intersect Range(t) = {}
  PROVE  IsInjective(s \o t)
<1> DEFINE st == s \o t
<1>1. /\ DOMAIN s = 1 .. Len(s) /\ Len(s) \in Nat
      /\ DOMAIN t = 1 .. Len(t) /\ Len(t) \in Nat
    BY LenProperties
<1>2. /\ DOMAIN st = 1 .. Len(s) + Len(t)
      /\ \A i \in 1 .. Len(s) + Len(t) : st[i] = IF i <= Len(s) THEN s[i] ELSE t[i - Len(s)]
    BY ConcatProperties, LenProperties
<1> HIDE DEF st
<1>3. ASSUME NEW i \in DOMAIN st, NEW j \in DOMAIN st, st[i] = st[j], i < j
      PROVE  FALSE
  <2>1. i \in Nat /\ j \in Nat
      BY <1>1, <1>2
  <2>2. CASE j <= Len(s)
    <3>1. i \in DOMAIN s /\ j \in DOMAIN s /\ s[i] = s[j]
        BY <1>1, <1>2, <1>3, <2>1, <2>2
    <3> QED BY <1>3, <2>1, <3>1 DEF IsInjective
  <2>3. CASE i > Len(s)
    <3>1. /\ i - Len(s) \in DOMAIN t /\ j - Len(s) \in DOMAIN t
          /\ t[i - Len(s)] = t[j - Len(s)]
        BY <1>1, <1>2, <1>3, <2>1, <2>3
    <3>2. i - Len(s) = j - Len(s)
        BY <3>1 DEF IsInjective
    <3> QED BY <1>1, <1>3, <2>1, <3>2
  <2>4. CASE i <= Len(s) /\ j > Len(s)
    <3>1. /\ i \in DOMAIN s /\ j - Len(s) \in DOMAIN t /\ s[i] = t[j - Len(s)]
        BY <1>1, <1>2, <1>3, <2>1, <2>4
    <3> QED BY <3>1 DEF Range
  <2> QED BY <1>1, <2>1, <2>2, <2>3, <2>4
<1>4. \A i, j \in DOMAIN st : st[i] = st[j] => i = j
  <2> SUFFICES ASSUME NEW i \in DOMAIN st, NEW j \in DOMAIN st, st[i] = st[j] PROVE i = j
      OBVIOUS
  <2>1. i \in Nat /\ j \in Nat
      BY <1>1, <1>2
  <2> QED BY <1>3, <2>1
<1> QED BY <1>4 DEF IsInjective, st

(* A prefix of a sequence of different entries.                            *)
LEMMA PrefixInjective ==
  ASSUME NEW S, NEW s \in Seq(S), IsInjective(s), NEW n \in 0 .. Len(s) - 1
  PROVE  /\ SubSeq(s, 1, n) \in Seq(S) /\ IsInjective(SubSeq(s, 1, n))
         /\ Range(SubSeq(s, 1, n)) \subseteq Range(s)
<1> DEFINE p == SubSeq(s, 1, n)
<1>1. DOMAIN s = 1 .. Len(s) /\ Len(s) \in Nat /\ \A i \in 1 .. Len(s) : s[i] \in S
    BY LenProperties, ElementOfSeq
<1>2. p \in Seq(S) /\ Len(p) = n /\ \A i \in 1 .. n : p[i] = s[i]
    BY <1>1, SubSeqProperties
<1>3. DOMAIN p = 1 .. n
    BY <1>2, LenProperties
<1> HIDE DEF p
<1>4. IsInjective(p) /\ Range(p) \subseteq Range(s)
    BY <1>1, <1>2, <1>3 DEF IsInjective, Range
<1> QED BY <1>2, <1>4 DEF p

(* What becomes of the tallies when nothing is found.                      *)
LEMMA TallySame ==
  ASSUME MatchInv, UNCHANGED <<opts, tally>>, Returned' = Returned
  PROVE  TallyExact' /\ TallyDisjoint' /\ Tallied' = Tallied
<1>1. \A e : Qualifies(e)' <=> Qualifies(e)
    BY DEF Qualifies, NameMatches, SizeFits
<1>2. Tallied' = Tallied
    BY DEF Tallied
<1> QED BY <1>1, <1>2 DEF MatchInv, TallyExact, TallyDisjoint

(* A buffer goes to standard output as a whole.                            *)
LEMMA MatchWritten ==
  ASSUME WalkInv, MatchInv, NEW w \in Workers, Written(w)
  PROVE  TallyExact' /\ TallyDisjoint' /\ Counted' /\ Lines'
<1> USE DEF Written
<1>1. TallyExact' /\ TallyDisjoint' /\ Tallied' = Tallied
    BY TallySame
<1>2. Counted'
    BY DEF MatchInv, Counted
<1>3. Lines'
  <2>1. ~Cut
      BY DEF Running, Cut
  <2>2. Buffered /\ (~opts.count_only => Somewhere) /\ IsInjective(stdout)
        /\ Range(stdout) \subseteq Tallied
      BY <2>1 DEF MatchInv, Lines
  <2>3. out[w] \in Seq(Entries) /\ stdout \in Seq(Entries)
      BY DEF WalkInv, DirInv, TypeOK
  <2>4. Range(stdout') = Range(stdout) \union Range(out[w])
      BY <2>3, RangeConcatenation
  <2>5. IsInjective(out[w]) /\ Range(out[w]) \subseteq tally[w] \ Range(stdout)
      BY <2>2 DEF Buffered
  <2>6. IsInjective(stdout')
      BY <2>2, <2>3, <2>5, ConcatInjective
  <2>7. Range(stdout') \subseteq Tallied'
      BY <1>1, <2>2, <2>4, <2>5 DEF Tallied
  <2>8. out'[w] = <<>> /\ \A u \in Workers \ {w} : out'[u] = out[u]
      BY DEF WalkInv, DirInv, TypeOK
  <2>9. Buffered'
    <3>1. IsInjective(out'[w]) /\ Range(out'[w]) = {}
        BY <2>8 DEF IsInjective, Range
    <3>2. ASSUME NEW u \in Workers \ {w}
          PROVE  /\ IsInjective(out'[u]) /\ Range(out'[u]) \subseteq tally'[u] \ Range(stdout')
                 /\ at'[u] \in Late => out'[u] = <<>>
      <4>1. tally[u] \intersect tally[w] = {}
          BY <3>2 DEF MatchInv, TallyDisjoint
      <4>2. /\ IsInjective(out[u]) /\ Range(out[u]) \subseteq tally[u] \ Range(stdout)
            /\ at[u] \in Late => out[u] = <<>>
          BY <2>2 DEF Buffered
      <4> QED BY <2>4, <2>5, <2>8, <4>1, <4>2
    <3> QED BY <2>8, <3>1, <3>2 DEF Buffered
  <2>10. ASSUME ~opts.count_only PROVE Somewhere'
    <3> SUFFICES ASSUME NEW x \in Tallied'
                 PROVE  x \in Range(stdout') \/ \E u \in Workers : x \in Range(out'[u])
        BY DEF Somewhere
    <3>1. x \in Range(stdout) \/ \E u \in Workers : x \in Range(out[u])
        BY <1>1, <2>2, <2>10 DEF Somewhere
    <3> QED BY <2>4, <2>8, <3>1
  <2> QED BY <2>6, <2>7, <2>9, <2>10 DEF Lines
<1> QED BY <1>1, <1>2, <1>3

(* A write that fails leaves no line twice and none of a stranger.         *)
LEMMA MatchCutShort ==
  ASSUME WalkInv, MatchInv, NEW w \in Workers, CutShort(w)
  PROVE  TallyExact' /\ TallyDisjoint' /\ Counted' /\ Lines'
<1> USE DEF CutShort
<1>1. TallyExact' /\ TallyDisjoint' /\ Tallied' = Tallied
    BY TallySame
<1>2. Counted'
    BY DEF MatchInv, Counted
<1>3. Lines'
  <2>1. Buffered /\ IsInjective(stdout) /\ Range(stdout) \subseteq Tallied
      BY DEF Running, Cut, MatchInv, Lines
  <2>2. PICK n \in 0 .. Len(out[w]) - 1 : stdout' = stdout \o SubSeq(out[w], 1, n)
      OBVIOUS
  <2>3. out[w] \in Seq(Entries) /\ stdout \in Seq(Entries)
      BY DEF WalkInv, DirInv, TypeOK
  <2>4. IsInjective(out[w]) /\ Range(out[w]) \subseteq tally[w] \ Range(stdout)
      BY <2>1 DEF Buffered
  <2>5. /\ SubSeq(out[w], 1, n) \in Seq(Entries) /\ IsInjective(SubSeq(out[w], 1, n))
        /\ Range(SubSeq(out[w], 1, n)) \subseteq Range(out[w])
      BY <2>3, <2>4, PrefixInjective
  <2>6. IsInjective(stdout') /\ Range(stdout') = Range(stdout) \union Range(SubSeq(out[w], 1, n))
    <3> DEFINE part == SubSeq(out[w], 1, n)
    <3>1. part \in Seq(Entries) /\ IsInjective(part) /\ Range(stdout) \intersect Range(part) = {}
        BY <2>4, <2>5
    <3> HIDE DEF part
    <3>2. IsInjective(stdout \o part)
        BY <2>1, <2>3, <3>1, ConcatInjective
    <3>3. Range(stdout \o part) = Range(stdout) \union Range(part)
        BY <2>3, <3>1, RangeConcatenation
    <3> QED BY <2>2, <3>2, <3>3 DEF part
  <2>7. Range(stdout') \subseteq Tallied'
      BY <1>1, <2>1, <2>4, <2>5, <2>6 DEF Tallied
  <2> QED BY <2>6, <2>7 DEF Lines
<1> QED BY <1>1, <1>2, <1>3

(* The count of a worker joins the total.                                  *)
LEMMA MatchAddCount ==
  ASSUME WalkInv, MatchInv, NEW w \in Workers, AddCount(w)
  PROVE  TallyExact' /\ TallyDisjoint' /\ Counted' /\ Lines'
<1>1. /\ at[w] = "sum" /\ at' = [at EXCEPT ![w] = "size"]
      /\ matched' = Add(matched, count[w]) /\ count' = [count EXCEPT ![w] = 0]
      /\ UNCHANGED <<opts, rest, out, stdout, exit, listed, failed, tally>>
    BY DEF AddCount, Goto, output, history
<1>2. TallyExact' /\ TallyDisjoint' /\ Tallied' = Tallied
    BY <1>1, TallySame, ReturnedSame
<1>3. Counted'
  <2>1. w \notin Summed /\ Summed' = Summed \union {w}
      BY <1>1 DEF Summed, WalkInv, DirInv, TypeOK
  <2> DEFINE before == UNION {tally[u] : u \in Summed}
             after == UNION {tally[u] : u \in Summed \union {w}}
  <2>2. matched = Cardinality(before) /\ count[w] = Cardinality(tally[w])
      BY <2>1 DEF MatchInv, Counted
  <2>3. before \intersect tally[w] = {}
    <3>1. \A u \in Summed : tally[u] \intersect tally[w] = {}
        BY <2>1 DEF Summed, MatchInv, TallyDisjoint
    <3> QED BY <3>1
  <2>4. after = before \union tally[w]
      OBVIOUS
  <2>5. before \in SUBSET Entries /\ tally[w] \in SUBSET Entries /\ after \in SUBSET Entries
    <3>1. \A u \in Workers : tally[u] \subseteq Entries
        BY DEF WalkInv, DirInv, TypeOK
    <3> QED BY <3>1, <2>4 DEF Summed
  <2> HIDE DEF before, after
  <2>6. /\ IsFiniteSet(before) /\ IsFiniteSet(tally[w])
        /\ Cardinality(before) \in Nat /\ Cardinality(tally[w]) \in Nat
        /\ Cardinality(after) <= U64Max
      BY <2>5, EntriesCounted DEF WalkInv, DirInv
  <2>7. Cardinality(after) = Cardinality(before) + Cardinality(tally[w])
    <3>1. Cardinality(before \union tally[w])
            = Cardinality(before) + Cardinality(tally[w]) - Cardinality(before \intersect tally[w])
        BY <2>6, FS_Union
    <3>2. Cardinality(before \intersect tally[w]) = 0
        BY <2>3, FS_EmptySet
    <3> QED BY <2>4, <2>6, <3>1, <3>2
  <2>8. matched' = Cardinality(after)
      BY <1>1, <2>2, <2>6, <2>7, AddExact
  <2>9. \A u \in Workers \ Summed' : count'[u] = Cardinality(tally'[u])
    <3>1. \A u \in Workers \ {w} : count'[u] = count[u]
        BY <1>1 DEF WalkInv, DirInv, TypeOK
    <3> QED BY <1>1, <2>1, <3>1 DEF MatchInv, Counted
  <2>10. UNION {tally'[u] : u \in Summed'} = after
      BY <1>1, <2>1 DEF after
  <2> QED BY <2>8, <2>9, <2>10 DEF Counted
<1>4. Lines'
  <2>1. \A u \in Workers : at'[u] \in Late => at[u] \in Late
      BY <1>1 DEF Late, WalkInv, DirInv, TypeOK
  <2> QED BY <1>1, <1>2, <2>1 DEF MatchInv, Lines, Buffered, Somewhere, Cut
<1> QED BY <1>2, <1>3, <1>4

(* The invariant is kept by every step.                                    *)
LEMMA MatchInvStep ==
  ASSUME WalkInv, MatchInv, [Next]_vars
  PROVE  MatchInv'
<1>1. TallyExact' /\ TallyDisjoint' /\ Counted' /\ Lines'
    BY MatchKinds, MatchIdleKeeps, MatchEntry, MatchWritten, MatchCutShort, MatchAddCount
<1>2. Printed'
    BY PrintedStep DEF MatchInv
<1> QED BY <1>1, <1>2 DEF MatchInv

(* The invariant holds of every run.                                       *)
LEMMA MatchInvAlways == Safe => [](WalkInv /\ Ended /\ MatchInv)
<1>1. Init => Ended /\ MatchInv
    BY MatchInit DEF Init, Fresh, Ended
<1>2. WalkInv /\ Ended /\ MatchInv /\ [Next]_vars => (Ended /\ MatchInv)'
    BY EndedStep, MatchInvStep
<1> QED BY <1>1, <1>2, WalkInvAlways, PTL DEF Safe

-------------------------------------------------------------------------------
(* What follows.                                                           *)

(* What has been counted is wanted, and at the end all that is wanted has  *)
(* been.                                                                   *)
LEMMA TalliedWanted ==
  ASSUME WalkInv, Ended, MatchInv
  PROVE  Tallied \subseteq Wanted /\ (exit = "ok" => Tallied = Wanted)
<1>1. Tallied = {e \in Returned : Qualifies(e)}
    BY DEF MatchInv, TallyExact
<1>2. ASSUME exit = "ok"
      PROVE  Returned = (UNION {Range(Contents[d]) : d \in listed}) \ failed
  <2>1. \A w \in Workers : rest[w] = <<>>
      BY <1>2 DEF Ended, WalkInv, DirInv, Shape, Inside
  <2>2. UNION {Range(rest[w]) : w \in Workers} = {}
      BY <2>1 DEF Range
  <2> QED BY <2>2 DEF Returned
<1> QED BY <1>1, <1>2 DEF Wanted, Returned

(* For every tree, every command line, every number of workers and every   *)
(* fault of the file system or of the output: no line is printed twice or  *)
(* for an entry nobody asked for, and a run that ends normally has printed *)
(* them all (walker.rs:192-195, 268-284).                                  *)
THEOREM EachMatchOnceCorrect == Safe => []EachMatchOnce
<1>1. WalkInv /\ Ended /\ MatchInv => EachMatchOnce
  <2> SUFFICES ASSUME WalkInv, Ended, MatchInv PROVE EachMatchOnce
      OBVIOUS
  <2>1. IsInjective(stdout) /\ Range(stdout) \subseteq Wanted
      BY TalliedWanted DEF MatchInv, Lines
  <2>2. ASSUME exit = "ok", ~opts.count_only PROVE Wanted \subseteq Range(stdout)
    <3>1. Buffered /\ Somewhere
        BY <2>2 DEF MatchInv, Lines, Cut
    <3>2. \A w \in Workers : Range(out[w]) = {}
        BY <2>2, <3>1 DEF Ended, Buffered, Late, Range
    <3> QED BY <2>2, <3>1, <3>2, TalliedWanted DEF Somewhere
  <2> QED BY <2>1, <2>2 DEF EachMatchOnce
<1> QED BY <1>1, MatchInvAlways, PTL

(* The number -c prints is the number of those entries, each worker's      *)
(* share included once and no counter having wrapped (walker.rs:89-97, 149,*)
(* 196-203, 222).                                                          *)
THEOREM CountCorrect == Safe => []CountExact
<1>1. WalkInv /\ Ended /\ MatchInv => CountExact
  <2> SUFFICES ASSUME WalkInv, Ended, MatchInv, exit = "ok" PROVE
                 /\ matched = Cardinality(Wanted)
                 /\ opts.count_only => report[1] = matched
      BY DEF CountExact
  <2>1. Summed = Workers
      BY DEF Ended, Summed
  <2>2. matched = Cardinality(Wanted)
      BY <2>1, TalliedWanted DEF MatchInv, Counted, Tallied
  <2>3. ASSUME opts.count_only PROVE report[1] = matched
    <3> DEFINE second == IF opts.sum_size THEN <<total>> ELSE <<>>
    <3>1. <<matched>> \in Seq(Nat) /\ second \in Seq(Nat)
      <4>1. matched \in Nat /\ total \in Nat
          BY SizeAssumption DEF WalkInv, DirInv, TypeOK
      <4>2. <<matched>> \in Seq(Nat) /\ <<total>> \in Seq(Nat) /\ <<>> \in Seq(Nat)
          BY <4>1
      <4> QED BY <4>2
    <3>2. Summary = <<matched>> \o second
        BY <2>3 DEF Summary
    <3> HIDE DEF second
    <3>3. (<<matched>> \o second)[1] = matched
      <4>1. Len(<<matched>>) = 1 /\ Len(second) \in Nat
          BY <3>1
      <4> QED BY <3>1, <4>1, ConcatProperties
    <3> QED BY <3>2, <3>3 DEF MatchInv, Printed
  <2> QED BY <2>2, <2>3
<1> QED BY <1>1, MatchInvAlways, PTL

-------------------------------------------------------------------------------
(* Sums of sizes.                                                          *)

SumOf(S) == MapThenSumSet(LAMBDA e : Bytes[e], S)

(* The recursion by which the library adds up the elements of S.           *)
IsSum(f, S) ==
  f = [s \in SUBSET S |-> IF s = {} THEN 0
                          ELSE LET x == CHOOSE x \in s : TRUE IN Bytes[x] + f[s \ {x}]]

(* A set of sets of entries has one that includes no other of them.        *)
LEMMA SmallestSet ==
  ASSUME NEW C \in SUBSET (SUBSET Entries), C # {}
  PROVE  \E s \in C : \A t \in C : ~(t \subseteq s /\ t # s)
<1>1. FiniteSubsetsOf(Entries) = SUBSET Entries
    BY ListingAssumption, FS_FiniteSubsetsOfFinite
<1>2. PICK s \in C : \A t \in C : ~(<<t, s>> \in StrictSubsetOrdering(Entries))
    BY <1>1, FS_StrictSubsetOrderingWellFounded, WFMin
<1>3. ASSUME NEW t \in C, t \subseteq s, t # s PROVE FALSE
  <2>1. <<t, s>> \in StrictSubsetOrdering(Entries)
      BY <1>3 DEF StrictSubsetOrdering
  <2> QED BY <2>1, <1>2
<1> QED BY <1>3

(* The sum over a set does not depend on the set the recursion starts from.*)
LEMMA SumUnique ==
  ASSUME NEW T \in SUBSET Entries, NEW S \in SUBSET T, NEW f, NEW g, IsSum(f, S), IsSum(g, T)
  PROVE  \A s \in SUBSET S : f[s] = g[s]
<1> DEFINE Bad == {s \in SUBSET S : f[s] # g[s]}
<1> SUFFICES ASSUME Bad # {} PROVE FALSE
    OBVIOUS
<1>1. PICK s \in Bad : \A t \in Bad : ~(t \subseteq s /\ t # s)
  <2>1. Bad \in SUBSET (SUBSET Entries)
      OBVIOUS
  <2> HIDE DEF Bad
  <2> QED BY <2>1, SmallestSet
<1> DEFINE c == CHOOSE c \in s : TRUE
<1>2. f[s] = IF s = {} THEN 0 ELSE Bytes[c] + f[s \ {c}]
    BY DEF IsSum
<1>3. g[s] = IF s = {} THEN 0 ELSE Bytes[c] + g[s \ {c}]
    BY DEF IsSum
<1>4. s # {}
    BY <1>2, <1>3
<1>5. c \in s
    BY <1>4
<1>6. s \ {c} \in SUBSET S /\ s \ {c} # s
    BY <1>5
<1>7. f[s \ {c}] = g[s \ {c}]
    BY <1>1, <1>6
<1> QED BY <1>2, <1>3, <1>7

(* Every set of entries has a sum.                                         *)
LEMMA SumExists == \A T \in SUBSET Entries : \E f : IsSum(f, T)
<1> DEFINE Bad == {T \in SUBSET Entries : ~\E f : IsSum(f, T)}
<1> SUFFICES ASSUME Bad # {} PROVE FALSE
    OBVIOUS
<1>1. PICK T \in Bad : \A t \in Bad : ~(t \subseteq T /\ t # T)
  <2>1. Bad \in SUBSET (SUBSET Entries)
      OBVIOUS
  <2> HIDE DEF Bad
  <2> QED BY <2>1, SmallestSet
<1> DEFINE sum(s) == (CHOOSE f : IsSum(f, s))[s]
           c(s) == CHOOSE x \in s : TRUE
           top == IF T = {} THEN 0 ELSE Bytes[c(T)] + sum(T \ {c(T)})
           h == [s \in SUBSET T |-> IF s = T THEN top ELSE sum(s)]
<1>2. ASSUME NEW s \in SUBSET T, s # T PROVE IsSum(CHOOSE f : IsSum(f, s), s)
  <2>1. s \in SUBSET Entries /\ s \notin Bad
      BY <1>1, <1>2
  <2> QED BY <2>1
<1>3. ASSUME NEW s \in SUBSET T, s # T
      PROVE  sum(s) = IF s = {} THEN 0 ELSE Bytes[c(s)] + sum(s \ {c(s)})
  <2> DEFINE f == CHOOSE f : IsSum(f, s)
             g == CHOOSE g : IsSum(g, s \ {c(s)})
  <2>1. IsSum(f, s)
      BY <1>2, <1>3
  <2>2. CASE s = {}
      BY <2>1, <2>2 DEF IsSum
  <2>3. CASE s # {}
    <3>1. c(s) \in s
        BY <2>3
    <3>2. s \ {c(s)} \in SUBSET s /\ s \ {c(s)} \in SUBSET T /\ s \ {c(s)} # T
        BY <3>1
    <3>3. IsSum(g, s \ {c(s)})
        BY <1>2, <3>2
    <3> HIDE DEF f, g
    <3>4. g[s \ {c(s)}] = f[s \ {c(s)}]
      <4>1. s \in SUBSET Entries
          OBVIOUS
      <4> QED BY <2>1, <3>2, <3>3, <4>1, SumUnique
    <3>5. f[s] = Bytes[c(s)] + f[s \ {c(s)}]
        BY <2>1, <2>3 DEF IsSum
    <3> QED BY <2>3, <3>4, <3>5 DEF f, g
  <2> QED BY <2>2, <2>3
<1>4. ASSUME NEW s \in SUBSET T
      PROVE  h[s] = IF s = {} THEN 0 ELSE Bytes[c(s)] + h[s \ {c(s)}]
  <2>1. CASE s = {}
      BY <1>3, <2>1
  <2>2. CASE s # {}
    <3>1. c(s) \in s
        BY <2>2
    <3>2. s \ {c(s)} \in SUBSET T /\ s \ {c(s)} # T
        BY <3>1
    <3> HIDE DEF c, sum
    <3>3. h[s \ {c(s)}] = sum(s \ {c(s)})
        BY <3>2
    <3> QED BY <1>3, <2>2, <3>3
  <2> QED BY <2>1, <2>2
<1>5. h = [s \in SUBSET T |-> IF s = {} THEN 0 ELSE Bytes[c(s)] + h[s \ {c(s)}]]
  <2>1. h = [s \in SUBSET T |-> h[s]]
      OBVIOUS
  <2> HIDE DEF h
  <2> QED BY <1>4, <2>1
<1>6. IsSum(h, T)
  <2> HIDE DEF h
  <2> QED BY <1>5 DEF IsSum
<1> HIDE DEF h
<1> QED BY <1>1, <1>6

(* A sum, by the element the library takes first.                          *)
LEMMA SumFirst ==
  ASSUME NEW S \in SUBSET Entries
  PROVE  /\ S = {} => SumOf(S) = 0
         /\ S # {} => \E x \in S : SumOf(S) = Bytes[x] + SumOf(S \ {x})
<1>1. \A s \in SUBSET Entries : SumOf(s) = (CHOOSE f : IsSum(f, s))[s]
    BY DEF SumOf, IsSum, MapThenSumSet, MapThenFoldSet
<1>2. PICK f : IsSum(f, Entries)
    BY SumExists
<1>3. ASSUME NEW s \in SUBSET Entries PROVE SumOf(s) = f[s]
  <2> DEFINE g == CHOOSE g : IsSum(g, s)
  <2>1. IsSum(g, s)
      BY SumExists
  <2> HIDE DEF g
  <2>2. g[s] = f[s]
      BY <1>2, <2>1, SumUnique
  <2> QED BY <1>1, <2>2 DEF g
<1> DEFINE c == CHOOSE x \in S : TRUE
<1>4. f[S] = IF S = {} THEN 0 ELSE Bytes[c] + f[S \ {c}]
    BY <1>2 DEF IsSum
<1>5. S # {} => c \in S /\ S \ {c} \in SUBSET Entries
    OBVIOUS
<1> HIDE DEF c
<1> QED BY <1>3, <1>4, <1>5

(* A sum is a number.                                                      *)
LEMMA SumType == \A S \in SUBSET Entries : SumOf(S) \in Nat
<1> DEFINE Bad == {S \in SUBSET Entries : SumOf(S) \notin Nat}
<1> SUFFICES ASSUME Bad # {} PROVE FALSE
    OBVIOUS
<1>1. PICK S \in Bad : \A t \in Bad : ~(t \subseteq S /\ t # S)
  <2>1. Bad \in SUBSET (SUBSET Entries)
      OBVIOUS
  <2> HIDE DEF Bad
  <2> QED BY <2>1, SmallestSet
<1>2. S # {}
    BY SumFirst
<1>3. PICK x \in S : SumOf(S) = Bytes[x] + SumOf(S \ {x})
    BY <1>2, SumFirst
<1>4. SumOf(S \ {x}) \in Nat
    BY <1>1
<1>5. Bytes[x] \in Nat
    BY BytesAssumption
<1> QED BY <1>3, <1>4, <1>5

(* A sum, by any of its elements.                                          *)
LEMMA SumRemove ==
  \A S \in SUBSET Entries : \A x \in S : SumOf(S) = Bytes[x] + SumOf(S \ {x})
<1> DEFINE Bad == {S \in SUBSET Entries : \E x \in S : SumOf(S) # Bytes[x] + SumOf(S \ {x})}
<1> SUFFICES ASSUME Bad # {} PROVE FALSE
    OBVIOUS
<1>1. PICK S \in Bad : \A t \in Bad : ~(t \subseteq S /\ t # S)
  <2>1. Bad \in SUBSET (SUBSET Entries)
      OBVIOUS
  <2> HIDE DEF Bad
  <2> QED BY <2>1, SmallestSet
<1>2. PICK x \in S : SumOf(S) # Bytes[x] + SumOf(S \ {x})
    OBVIOUS
<1>3. PICK c \in S : SumOf(S) = Bytes[c] + SumOf(S \ {c})
    BY SumFirst
<1>4. x # c
    BY <1>2, <1>3
<1>5. SumOf(S \ {c}) = Bytes[x] + SumOf((S \ {c}) \ {x})
  <2>1. S \ {c} \notin Bad
      BY <1>1
  <2>2. S \ {c} \in SUBSET Entries /\ x \in S \ {c}
      BY <1>4
  <2> QED BY <2>1, <2>2
<1>6. SumOf(S \ {x}) = Bytes[c] + SumOf((S \ {x}) \ {c})
  <2>1. S \ {x} \notin Bad
      BY <1>1
  <2>2. S \ {x} \in SUBSET Entries /\ c \in S \ {x}
      BY <1>4
  <2> QED BY <2>1, <2>2
<1>7. (S \ {c}) \ {x} = (S \ {x}) \ {c}
    OBVIOUS
<1>8. Bytes[x] \in Nat /\ Bytes[c] \in Nat /\ SumOf((S \ {x}) \ {c}) \in Nat
    BY BytesAssumption, SumType
<1>9. Bytes[c] + SumOf(S \ {c}) = Bytes[x] + SumOf(S \ {x})
    BY <1>5, <1>6, <1>7, <1>8
<1> HIDE DEF Bad
<1> QED BY <1>2, <1>3, <1>9

(* The sum over a set and one more entry.                                  *)
LEMMA SumAdd ==
  ASSUME NEW S \in SUBSET Entries, NEW x \in Entries \ S
  PROVE  SumOf(S \union {x}) = SumOf(S) + Bytes[x]
<1>1. (S \union {x}) \ {x} = S /\ S \union {x} \in SUBSET Entries /\ x \in S \union {x}
    OBVIOUS
<1>2. SumOf(S \union {x}) = Bytes[x] + SumOf(S)
    BY <1>1, SumRemove
<1>3. Bytes[x] \in Nat /\ SumOf(S) \in Nat
    BY BytesAssumption, SumType
<1> QED BY <1>2, <1>3

(* The sum over two sets that have nothing in common.                      *)
LEMMA SumUnion ==
  ASSUME NEW A \in SUBSET Entries
  PROVE  \A B \in SUBSET (Entries \ A) : SumOf(A \union B) = SumOf(A) + SumOf(B)
<1> DEFINE Bad == {B \in SUBSET (Entries \ A) : SumOf(A \union B) # SumOf(A) + SumOf(B)}
<1> SUFFICES ASSUME Bad # {} PROVE FALSE
    OBVIOUS
<1>1. PICK B \in Bad : \A t \in Bad : ~(t \subseteq B /\ t # B)
  <2>1. Bad \in SUBSET (SUBSET Entries)
      OBVIOUS
  <2> HIDE DEF Bad
  <2> QED BY <2>1, SmallestSet
<1>2. B # {}
  <2>1. SumOf({}) = 0 /\ SumOf(A) \in Nat /\ A \union {} = A
      BY SumFirst, SumType
  <2> QED BY <2>1
<1>3. PICK x \in B : TRUE
    BY <1>2
<1> DEFINE C == B \ {x}
<1>4. C \in SUBSET (Entries \ A) /\ C \notin Bad /\ B = C \union {x} /\ x \notin A \union C
        /\ x \in Entries
    BY <1>1
<1>5. SumOf(A \union C) = SumOf(A) + SumOf(C)
    BY <1>4
<1> HIDE DEF C
<1>6. SumOf(B) = SumOf(C) + Bytes[x]
    BY <1>4, SumAdd
<1>7. SumOf(A \union B) = SumOf(A \union C) + Bytes[x]
  <2>1. A \union B = (A \union C) \union {x} /\ A \union C \in SUBSET Entries
      BY <1>4
  <2> QED BY <2>1, <1>4, SumAdd
<1>8. Bytes[x] \in Nat /\ SumOf(A) \in Nat /\ SumOf(C) \in Nat
    BY <1>4, BytesAssumption, SumType
<1>9. SumOf(A \union B) = SumOf(A) + SumOf(B)
    BY <1>5, <1>6, <1>7, <1>8
<1> QED BY <1>9

(* Division with remainder.                                                *)
LEMMA Remainder ==
  ASSUME NEW M \in Nat \ {0}, NEW q \in Nat, NEW r \in 0 .. M - 1
  PROVE  (q * M + r) % M = r
<1> DEFINE x == q * M + r
           d == x \div M
           m == x % M
<1>1. q * M \in Nat /\ x \in Nat
    OBVIOUS
<1> HIDE DEF x
<1>2. d \in Nat /\ m \in 0 .. M - 1 /\ x = M * d + m
    BY <1>1
<1> HIDE DEF d, m
<1>3. ASSUME q > d PROVE FALSE
  <2>1. q = d + 1 + (q - d - 1) /\ q - d - 1 \in Nat
      BY <1>2, <1>3
  <2>2. PICK k \in Nat : q = d + 1 + k
      BY <2>1
  <2>3. q * M = M * d + M + k * M /\ k * M \in Nat /\ M * d \in Nat
      BY <2>2, <1>2
  <2>4. x >= M * d + M
      BY <2>3, <1>1 DEF x
  <2> QED BY <2>3, <2>4, <1>2
<1>4. ASSUME d > q PROVE FALSE
  <2>1. d = q + 1 + (d - q - 1) /\ d - q - 1 \in Nat
      BY <1>2, <1>4
  <2>2. PICK k \in Nat : d = q + 1 + k
      BY <2>1
  <2>3. M * d = q * M + M + k * M /\ k * M \in Nat
      BY <2>2, <1>2
  <2>4. x >= q * M + M
      BY <2>3, <1>1, <1>2
  <2> QED BY <2>4, <1>1 DEF x
<1>5. q = d
    BY <1>2, <1>3, <1>4
<1>6. m = r
    BY <1>1, <1>2, <1>5 DEF x
<1> QED BY <1>6 DEF m, x

(* A counter that wraps holds the sum modulo its width.                    *)
LEMMA AddWraps ==
  ASSUME NEW a \in Nat, NEW n \in Nat
  PROVE  /\ Add(a % (U64Max + 1), n) = (a + n) % (U64Max + 1)
         /\ Add(n, a % (U64Max + 1)) = (a + n) % (U64Max + 1)
<1> DEFINE M == U64Max + 1
<1>1. M \in Nat \ {0}
    BY SizeAssumption
<1> HIDE DEF M
<1> DEFINE i == a \div M
           x == a % M
           k == (x + n) \div M
           z == (x + n) % M
<1>2. i \in Nat /\ x \in 0 .. M - 1 /\ a = M * i + x
    BY <1>1
<1> HIDE DEF i, x
<1>3. k \in Nat /\ z \in 0 .. M - 1 /\ x + n = M * k + z
    BY <1>1, <1>2
<1> HIDE DEF k, z
<1>4. a + n = (i + k) * M + z
    BY <1>1, <1>2, <1>3
<1>5. (a + n) % M = z
  <2>1. i + k \in Nat
      BY <1>2, <1>3
  <2>2. ((i + k) * M + z) % M = z
      BY <2>1, <1>1, <1>3, Remainder
  <2> QED BY <2>2, <1>4
<1>6. Add(x, n) = z /\ Add(n, x) = z
  <2>1. x + n = n + x
      BY <1>2
  <2> QED BY <2>1 DEF Add, M, z
<1>7. Add(x, n) = (a + n) % M /\ Add(n, x) = (a + n) % M
    BY <1>5, <1>6
<1> QED BY <1>7 DEF M, x

-------------------------------------------------------------------------------
(* The total of the sizes.                                                 *)

(* The workers whose size has been added to the total.                     *)
Joined == {w \in Workers : at[w] = "done"}

(* The counters of sizes hold the sum of what they stand for, modulo their *)
(* width.                                                                  *)
Measured ==
  /\ sizeless \subseteq Tallied
  /\ need_size =>
       /\ \A w \in Workers \ Joined : size[w] = SumOf(tally[w] \ sizeless) % (U64Max + 1)
       /\ total = SumOf((UNION {tally[w] : w \in Joined}) \ sizeless) % (U64Max + 1)

(* The worker w counts e, with its size or without.                        *)
Measures(w, e) ==
  /\ at[w] = "loop" /\ rest[w] # <<>> /\ e = Head(rest[w])
  /\ UNCHANGED <<opts, total>> /\ Joined' = Joined
  /\ tally' = [tally EXCEPT ![w] = @ \union {e}]
  /\ IF need_size
     THEN \/ size' = [size EXCEPT ![w] = Add(@, Bytes[e])] /\ UNCHANGED sizeless
          \/ sizeless' = sizeless \union {e} /\ UNCHANGED size
     ELSE UNCHANGED sizeless

SumIdle == UNCHANGED <<opts, tally, size, sizeless, total>> /\ Joined' = Joined

(* A worker that moves, but not to its end, joins nobody.                  *)
LEMMA GotoJoins ==
  ASSUME TypeOK, NEW w \in Workers, NEW from, NEW to, Goto(w, from, to),
         from # "done", to # "done"
  PROVE  Joined' = Joined
BY DEF Goto, Joined, TypeOK

(* What Records does to the sizes.                                         *)
LEMMA RecordsMeasures ==
  ASSUME TypeOK, NEW w \in Workers, NEW e \in Entries, NEW sized \in BOOLEAN,
         Records(w, e, sized),
         IF need_size THEN (sized /\ UNCHANGED sizeless)
                             \/ (~sized /\ sizeless' = sizeless \union {e})
         ELSE UNCHANGED sizeless
  PROVE  Measures(w, e)
<1>1. /\ at[w] = "loop" /\ rest[w] # <<>> /\ e = Head(rest[w])
      /\ UNCHANGED <<opts, total>> /\ tally' = [tally EXCEPT ![w] = @ \union {e}]
      /\ size' = [size EXCEPT ![w] = IF sized THEN Add(@, Bytes[e]) ELSE @]
    BY DEF Records, Tallies, Returns, totals
<1>2. Joined' = Joined
  <2>1. PICK to \in {"flush", "loop"} : at' = [at EXCEPT ![w] = to]
    <3>1. at' = [at EXCEPT ![w] = IF ~opts.count_only /\ Len(out'[w]) >= FlushAt
                                  THEN "flush" ELSE "loop"]
        BY DEF Records, Tallies
    <3> QED BY <3>1
  <2> QED BY <1>1, <2>1 DEF Joined, TypeOK
<1>3. ~sized => size' = size
    BY <1>1 DEF TypeOK
<1> QED BY <1>1, <1>2, <1>3 DEF Measures

(* What an entry does to the sizes.                                        *)
LEMMA EntryMeasures ==
  ASSUME TypeOK, NEW w \in Workers, NEW e \in Entries,
         EntryFails(w, e) \/ CountFile(w, e) \/ SkipDir(w, e)
           \/ ChildDir(w, e) \/ File(w, e) \/ Ignore(w, e)
  PROVE  Measures(w, e) \/ SumIdle
<1>1. ASSUME Passes(w, e) PROVE SumIdle
    BY <1>1 DEF Passes, Returns, totals, SumIdle, Joined
<1>2. need_size \in BOOLEAN
    BY DEF need_size
<1>3. CASE CountFile(w, e)
  <2>1. ~need_size
      BY <1>3 DEF CountFile, need_file_name
  <2>2. Joined' = Joined
      BY <1>3 DEF CountFile, Joined
  <2> QED BY <2>1, <2>2, <1>3 DEF CountFile, Returns, totals, Measures
<1>4. CASE ChildDir(w, e)
  <2>1. CASE opts.match_dirs /\ NameMatches(e)
    <3>1. \/ Records(w, e, need_size) /\ UNCHANGED sizeless
          \/ need_size /\ Records(w, e, FALSE) /\ sizeless' = sizeless \union {e}
        BY <1>4, <2>1, WriteMatchRecords DEF ChildDir
    <3> QED BY <3>1, <1>2, RecordsMeasures
  <2>2. CASE ~(opts.match_dirs /\ NameMatches(e))
      BY <1>4, <2>2 DEF ChildDir, Returns, totals, SumIdle, Joined
  <2> QED BY <2>1, <2>2
<1>5. CASE File(w, e)
  <2>1. CASE Passes(w, e)
      BY <1>1, <2>1
  <2>2. CASE Records(w, e, need_size) /\ UNCHANGED sizeless
      BY <1>2, <2>2, RecordsMeasures
  <2> QED BY <1>5, <2>1, <2>2 DEF File
<1> QED BY <1>1, <1>3, <1>4, <1>5 DEF EntryFails, SkipDir, Ignore

(* What a step does to the sizes.                                          *)
LEMMA SumKinds ==
  ASSUME TypeOK, [Next]_vars
  PROVE  \/ \E w \in Workers : AddSize(w) \/ \E e \in Entries : Measures(w, e)
         \/ SumIdle
<1>1. ASSUME UNCHANGED <<opts, at, local, totals, history>> PROVE SumIdle
    BY <1>1 DEF SumIdle, Joined, local, totals, history
<1>2. ASSUME NEW w \in Workers, NEW from, NEW to, Goto(w, from, to), from # "done", to # "done",
             UNCHANGED <<opts, size, total, tally, sizeless>>
      PROVE  SumIdle
    BY <1>2, GotoJoins DEF SumIdle
<1>3. ASSUME NEW w \in Workers, NEW from \in {"flush", "final"}, NEW to \in {"loop", "sum"},
             Flush(w, from, to)
      PROVE  SumIdle
  <2>1. CASE UNCHANGED at
      BY <1>1, <1>3, <2>1 DEF Flush, local, totals, history, SumIdle, Joined
  <2>2. CASE Goto(w, from, to)
      BY <1>2, <1>3, <2>2 DEF Flush, local, totals, history
  <2> QED BY <1>3, <2>1, <2>2 DEF Flush
<1>4. ASSUME NEW w \in Workers, Worker(w)
      PROVE  AddSize(w) \/ (\E e \in Entries : Measures(w, e)) \/ SumIdle
  <2>1. ASSUME NEW d \in Dirs, Take(w, d) PROVE SumIdle
      BY <1>2, <2>1 DEF Take, totals, history
  <2>2. CASE Leave(w)
      BY <1>2, <2>2 DEF Leave, local, totals, history
  <2>3. CASE OpenFails(w)
      BY <1>2, <2>3 DEF OpenFails, totals
  <2>4. CASE Open(w)
      BY <1>2, <2>4 DEF Open, totals
  <2>5. CASE Publish(w)
      BY <1>2, <2>5 DEF Publish, totals
  <2>6. CASE FlushFull(w)
      BY <1>3, <2>6 DEF FlushFull
  <2>7. CASE FlushFinal(w)
      BY <1>2, <1>3, <2>7 DEF FlushFinal, local, totals, history
  <2>8. CASE AddCount(w)
      BY <1>2, <2>8 DEF AddCount, history
  <2> QED BY <1>4, <2>1, <2>2, <2>3, <2>4, <2>5, <2>6, <2>7, <2>8, EntryMeasures DEF Worker
<1>5. CASE PrintSummary \/ Return \/ Reader \/ Exited \/ UNCHANGED vars
    BY <1>1, <1>5 DEF PrintSummary, Return, Reader, Fill, Empty, Close, Exited, vars
<1> QED BY <1>4, <1>5 DEF Next

(* An entry the iterator returns has been counted by nobody.               *)
LEMMA NotYetTallied ==
  ASSUME WalkInv, MatchInv, NEW w \in Workers, at[w] = "loop", rest[w] # <<>>
  PROVE  Head(rest[w]) \in Entries /\ Head(rest[w]) \notin Tallied
<1>1. Head(rest[w]) \in Range(rest[w]) /\ Head(rest[w]) \in Entries
    BY TailRange DEF WalkInv, DirInv, TypeOK
<1> QED BY <1>1 DEF Returned, MatchInv, TallyExact

(* Nothing is measured before the first step.                              *)
LEMMA MeasuredInit == Init => Measured
<1> SUFFICES ASSUME Init PROVE Measured
    OBVIOUS
<1> USE DEF Init, Fresh
<1>1. UNION {tally[w] : w \in Joined} = {}
    BY DEF Joined
<1>2. \A w \in Workers : tally[w] \ sizeless = {} /\ size[w] = 0
    OBVIOUS
<1>3. SumOf({}) = 0 /\ 0 % (U64Max + 1) = 0
  <2>1. 0 * (U64Max + 1) + 0 = 0 /\ 0 \in 0 .. (U64Max + 1) - 1 /\ U64Max + 1 \in Nat \ {0}
      BY SizeAssumption
  <2> QED BY <2>1, Remainder, SumFirst
<1>4. {} \ sizeless = {} /\ total = 0 /\ sizeless = {}
    OBVIOUS
<1> QED BY <1>1, <1>2, <1>3, <1>4 DEF Measured

(* One more entry, with its size or among those without.                   *)
LEMMA MeasuredEntry ==
  ASSUME WalkInv, MatchInv, Measured, NEW w \in Workers, NEW e \in Entries, Measures(w, e)
  PROVE  Measured'
<1>1. /\ at[w] = "loop" /\ UNCHANGED <<opts, total>> /\ Joined' = Joined /\ e \notin Tallied
      /\ tally' = [tally EXCEPT ![w] = @ \union {e}]
    BY NotYetTallied DEF Measures
<1>2. /\ w \notin Joined /\ (need_size' <=> need_size) /\ e \notin sizeless
      /\ \A u \in Workers : e \notin tally[u] /\ tally[u] \in SUBSET Entries
      /\ tally'[w] = tally[w] \union {e}
      /\ \A u \in Workers \ {w} : tally'[u] = tally[u]
    BY <1>1 DEF Joined, need_size, Measured, Tallied, WalkInv, DirInv, TypeOK
<1>3. Tallied' = Tallied \union {e}
    BY <1>2 DEF Tallied
<1>4. sizeless' \subseteq Tallied' /\ (sizeless' = sizeless \/ sizeless' = sizeless \union {e})
    BY <1>3 DEF Measured, Measures
<1>5. ASSUME need_size
      PROVE  /\ \A u \in Workers \ Joined : size'[u] = SumOf(tally'[u] \ sizeless') % (U64Max + 1)
             /\ total = SumOf((UNION {tally'[u] : u \in Joined}) \ sizeless') % (U64Max + 1)
  <2>1. \A u \in Workers \ {w} : tally'[u] \ sizeless' = tally[u] \ sizeless
      BY <1>2, <1>4
  <2>2. (UNION {tally'[u] : u \in Joined}) \ sizeless' = (UNION {tally[u] : u \in Joined}) \ sizeless
    <3>1. \A u \in Joined : u \in Workers \ {w}
        BY <1>2 DEF Joined
    <3> QED BY <2>1, <3>1
  <2>3. \A u \in Workers \ {w} : size'[u] = size[u]
      BY <1>5 DEF Measures, WalkInv, DirInv, TypeOK
  <2>4. size'[w] = SumOf(tally'[w] \ sizeless') % (U64Max + 1)
    <3> DEFINE A == tally[w] \ sizeless
    <3>1. size[w] = SumOf(A) % (U64Max + 1) /\ A \in SUBSET Entries /\ e \notin A
        BY <1>2, <1>5 DEF Measured
    <3>2. SumOf(A) \in Nat /\ Bytes[e] \in Nat
        BY <3>1, SumType, BytesAssumption
    <3>3. CASE size' = [size EXCEPT ![w] = Add(@, Bytes[e])] /\ UNCHANGED sizeless
      <4>1. tally'[w] \ sizeless' = A \union {e}
          BY <1>2, <3>3
      <4>2. size'[w] = Add(SumOf(A) % (U64Max + 1), Bytes[e])
          BY <3>1, <3>3 DEF WalkInv, DirInv, TypeOK
      <4>3. SumOf(A \union {e}) = SumOf(A) + Bytes[e]
          BY <3>1, SumAdd
      <4>4. Add(SumOf(A) % (U64Max + 1), Bytes[e]) = (SumOf(A) + Bytes[e]) % (U64Max + 1)
          BY <3>2, AddWraps
      <4> HIDE DEF A
      <4> QED BY <4>1, <4>2, <4>3, <4>4
    <3>4. CASE sizeless' = sizeless \union {e} /\ UNCHANGED size
      <4>1. tally'[w] \ sizeless' = A
          BY <1>2, <3>4
      <4> QED BY <3>1, <3>4, <4>1
    <3> QED BY <3>3, <3>4, <1>5 DEF Measures
  <2>5. total = SumOf((UNION {tally[u] : u \in Joined}) \ sizeless) % (U64Max + 1)
      BY <1>5 DEF Measured
  <2> QED BY <2>1, <2>2, <2>3, <2>4, <2>5, <1>5 DEF Measured
<1> QED BY <1>1, <1>2, <1>4, <1>5 DEF Measured

(* The size of a worker joins the total.                                   *)
LEMMA MeasuredJoin ==
  ASSUME WalkInv, MatchInv, Measured, NEW w \in Workers, AddSize(w)
  PROVE  Measured'
<1>1. /\ at[w] = "size" /\ at' = [at EXCEPT ![w] = "done"]
      /\ total' = Add(total, size[w]) /\ size' = [size EXCEPT ![w] = 0]
      /\ UNCHANGED <<opts, tally, sizeless>>
    BY DEF AddSize, Goto, history
<1>2. w \notin Joined /\ Joined' = Joined \union {w} /\ (need_size' <=> need_size)
        /\ Tallied' = Tallied
    BY <1>1 DEF Joined, need_size, Tallied, WalkInv, DirInv, TypeOK
<1>3. \A u \in Workers \ {w} : size'[u] = size[u]
    BY <1>1 DEF WalkInv, DirInv, TypeOK
<1>4. ASSUME need_size
      PROVE  total' = SumOf((UNION {tally[u] : u \in Joined \union {w}}) \ sizeless) % (U64Max + 1)
  <2> DEFINE A == (UNION {tally[u] : u \in Joined}) \ sizeless
             B == tally[w] \ sizeless
             AB == (UNION {tally[u] : u \in Joined \union {w}}) \ sizeless
  <2>1. \A u \in Workers : tally[u] \subseteq Entries
      BY DEF WalkInv, DirInv, TypeOK
  <2>2. AB = A \union B
      OBVIOUS
  <2>3. A \in SUBSET Entries
      BY <2>1 DEF Joined
  <2>4. B \in SUBSET (Entries \ A)
    <3>1. \A u \in Joined : tally[u] \intersect tally[w] = {}
        BY <1>2 DEF Joined, MatchInv, TallyDisjoint
    <3> QED BY <2>1, <3>1
  <2>5. total = SumOf(A) % (U64Max + 1) /\ size[w] = SumOf(B) % (U64Max + 1)
      BY <1>2, <1>4 DEF Measured
  <2> HIDE DEF A, B, AB
  <2>6. SumOf(A) \in Nat /\ SumOf(B) \in Nat /\ SumOf(AB) = SumOf(A) + SumOf(B)
      BY <2>2, <2>3, <2>4, SumType, SumUnion
  <2>7. size[w] \in Nat
      BY SizeAssumption DEF WalkInv, DirInv, TypeOK
  <2>8. total' = (SumOf(A) + size[w]) % (U64Max + 1)
      BY <1>1, <2>5, <2>6, <2>7, AddWraps
  <2>9. Add(SumOf(A), size[w]) = (SumOf(B) + SumOf(A)) % (U64Max + 1)
      BY <2>5, <2>6, AddWraps
  <2>10. SumOf(B) + SumOf(A) = SumOf(AB)
      BY <2>6
  <2>11. total' = SumOf(AB) % (U64Max + 1)
      BY <2>8, <2>9, <2>10 DEF Add
  <2> QED BY <2>11 DEF AB
<1> QED BY <1>1, <1>2, <1>3, <1>4 DEF Measured

(* The counters of sizes are right after every step.                       *)
LEMMA MeasuredStep ==
  ASSUME WalkInv, MatchInv, Measured, [Next]_vars
  PROVE  Measured'
<1>1. CASE SumIdle
  <2>1. (need_size' <=> need_size) /\ Tallied' = Tallied
      BY <1>1 DEF SumIdle, need_size, Tallied
  <2> QED BY <1>1, <2>1 DEF SumIdle, Measured
<1>2. TypeOK
    BY DEF WalkInv, DirInv
<1> QED BY <1>1, <1>2, SumKinds, MeasuredEntry, MeasuredJoin

(* The total -s prints is the sum of the sizes of the entries asked for,   *)
(* modulo the width of a u64, for every tree and number of workers and in  *)
(* whatever order they finish; a directory whose size could not be read    *)
(* counts for nothing (walker.rs:149-152, 196-203).                        *)
THEOREM TotalCorrect == Safe => []TotalExact
<1>1. Init => Measured
    BY MeasuredInit
<1>2. WalkInv /\ MatchInv /\ Measured /\ [Next]_vars => Measured'
    BY MeasuredStep
<1>3. WalkInv /\ Ended /\ MatchInv /\ Measured => TotalExact
  <2> SUFFICES ASSUME WalkInv, Ended, MatchInv, Measured, exit = "ok", need_size
               PROVE  total = SumOf(Wanted \ sizeless) % (U64Max + 1)
      BY DEF TotalExact, SumOf
  <2>1. Joined = Workers
      BY DEF Ended, Joined
  <2>2. UNION {tally[w] : w \in Joined} = Wanted
      BY <2>1, TalliedWanted DEF Tallied
  <2> QED BY <2>2 DEF Measured
<1> QED BY <1>1, <1>2, <1>3, MatchInvAlways, PTL DEF Safe

-------------------------------------------------------------------------------
(* What is reached, and what is not printed.                               *)

(* S holds the root and, with a directory, those in it that no rule skips. *)
Closed(S) ==
  /\ Root \in S
  /\ \A d \in S : (Range(Contents[d]) \intersect Dirs) \ opts.skips \subseteq S

(* Nothing is found but what a path from the root leads to.  FoundExact    *)
(* alone is also true of directories found through one another.            *)
Reached == \A S \in SUBSET Dirs : Closed(S) => found \subseteq S

(* -c prints no entry.                                                     *)
Silent == opts.count_only => stdout = <<>> /\ \A w \in Workers : out[w] = <<>>

(* A step publishes the children of a directory that was found.            *)
LEMMA ReachedStep ==
  ASSUME WalkInv, Reached, [Next]_vars
  PROVE  Reached'
<1>1. Base /\ Shape /\ Reading /\ DirInv
    BY DEF WalkInv, DirInv, Base
<1>2. CASE UNCHANGED <<opts, found>>
    BY <1>2 DEF Reached, Closed
<1>3. ASSUME NEW w \in Workers, Publish(w) PROVE Reached'
  <2>1. /\ at[w] = "loop" /\ rest[w] = <<>> /\ opts' = opts
        /\ found' = found \union Range(kids[w])
      BY <1>3 DEF Publish, Goto
  <2>2. cur[w] \in found /\ Range(kids[w]) \subseteq Children(cur[w])
      BY <1>1, <2>1 DEF DirInv, Shape, Holding, Inside, Places, Reading
  <2>3. Range(kids[w]) \subseteq (Range(Contents[cur[w]]) \intersect Dirs) \ opts.skips
      BY <2>2 DEF Children
  <2>4. ASSUME NEW S \in SUBSET Dirs, Closed(S) PROVE found' \subseteq S
    <3>1. found \subseteq S
        BY <2>4 DEF Reached
    <3> QED BY <2>1, <2>2, <2>3, <2>4, <3>1 DEF Closed
  <2> QED BY <2>1, <2>4 DEF Reached, Closed
<1>4. ASSUME NEW w \in Workers,
             \/ \E d \in Dirs : Take(w, d)
             \/ Leave(w) \/ OpenFails(w) \/ Open(w)
             \/ \E e \in Entries : EntryStep(w, e)
      PROVE  UNCHANGED <<opts, found>>
    BY <1>4 DEF Take, Leave, OpenFails, Open, EntryStep, history
<1>5. ASSUME DirIdle PROVE UNCHANGED <<opts, found>>
    BY <1>5 DEF DirIdle
<1> QED BY <1>1, <1>2, <1>3, <1>4, <1>5, Kinds

(* With -c no line gets into a buffer.                                     *)
LEMMA SilentStep ==
  ASSUME WalkInv, Silent, [Next]_vars
  PROVE  Silent'
<1>0. TypeOK
    BY DEF WalkInv, DirInv
<1>1. ASSUME NEW w \in Workers, NEW e \in Entries, EntryStep(w, e) PROVE Silent'
    BY <1>0, <1>1 DEF EntryStep, Silent, TypeOK, output
<1>2. ASSUME NEW w \in Workers, Written(w) PROVE Silent'
  <2>1. opts' = opts /\ stdout' = stdout \o out[w] /\ out' = [out EXCEPT ![w] = <<>>]
      BY <1>2 DEF Written
  <2> QED BY <1>0, <2>1 DEF Silent, TypeOK
<1>3. ASSUME NEW w \in Workers, CutShort(w) PROVE Silent'
  <2>1. out[w] # <<>> /\ UNCHANGED <<opts, out>>
    <3>1. UNCHANGED <<opts, out>>
        BY <1>3 DEF CutShort
    <3>2. PICK n \in 0 .. Len(out[w]) - 1 : stdout' = stdout \o SubSeq(out[w], 1, n)
        BY <1>3 DEF CutShort
    <3>3. out[w] \in Seq(Entries)
        BY <1>0 DEF TypeOK
    <3>4. Len(<<>>) = 0
        OBVIOUS
    <3> QED BY <3>1, <3>2, <3>3, <3>4
  <2> QED BY <2>1 DEF Silent
<1>4. ASSUME NEW w \in Workers, AddCount(w) PROVE Silent'
    BY <1>4 DEF AddCount, Silent, output
<1>5. ASSUME MatchIdle PROVE Silent'
    BY <1>5 DEF MatchIdle, Silent
<1> QED BY <1>1, <1>2, <1>3, <1>4, <1>5, MatchKinds

(* Both hold of every run.                                                 *)
LEMMA ReachedAlways == Safe => [](Reached /\ Silent)
<1>1. Init => Reached /\ Silent
    BY DEF Init, Fresh, Reached, Closed, Silent
<1>2. WalkInv /\ Reached /\ Silent /\ [Next]_vars => (Reached /\ Silent)'
    BY ReachedStep, SilentStep
<1> QED BY <1>1, <1>2, WalkInvAlways, PTL DEF Safe
===============================================================================
