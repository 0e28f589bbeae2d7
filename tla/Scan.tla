--------------------------------- MODULE Scan ---------------------------------
(***************************************************************************)
(* What the workers do with the directories the pool hands them: walk_one, *)
(* write_match, flush_out and flush_worker_final of src/walker.rs, and the *)
(* summary Scheduler::run prints when all workers have returned.           *)
(*                                                                         *)
(* The pool is seen through the contract of module Worklist, which         *)
(* WorkPool provides: a set of directories from which a worker takes any,  *)
(* and which a worker leaves only when it is empty and nobody is walking.  *)
(*                                                                         *)
(* A name counts only by whether the filters accept it, a size by its      *)
(* number of bytes, and a line of output by the entry it is for.  Standard *)
(* output is a pipe or a file: at any moment its reader can fall behind,   *)
(* catch up, or leave, and a write can fail.                               *)
(***************************************************************************)
EXTENDS Integers, Sequences, FiniteSets, Functions, FiniteSetsExt

CONSTANTS
  N,          (* the most workers considered                               *)
  Dirs,       (* the directories, the root included                        *)
  Files,      (* regular files                                             *)
  Others,     (* symbolic links, sockets, ...                              *)
  Root,
  NoDir,      (* "no directory in hand"                                    *)
  Contents,   (* Contents[d]: the entries of d in the order of read_dir    *)
  Bytes,      (* the length metadata() reports for an entry                *)
  Options,    (* FilterConfig, OutputConfig and the number of threads of   *)
              (* the command lines considered; hits are the entries whose  *)
              (* name the filters accept, skips the directories on the     *)
              (* skip list                                                 *)
  NoBound,    (* "no --min-size", "no --max-size"                          *)
  FlushAt,    (* OUT_FLUSH_BYTES, in lines                                 *)
  U64Max      (* largest value of the u64 counters                         *)

Entries == Dirs \union Files \union Others

ASSUME SizeAssumption == N \in Nat \ {0} /\ FlushAt \in Nat \ {0} /\ U64Max \in Nat

ASSUME BytesAssumption == Bytes \in [Entries -> Nat]

(* Every entry is of one kind and, but for the root, is listed once, by one*)
(* directory.  There are no more of them than a u64 counts.                *)
ASSUME ListingAssumption ==
  /\ IsFiniteSet(Entries) /\ Cardinality(Entries) <= U64Max
  /\ Root \in Dirs /\ NoDir \notin Dirs
  /\ Dirs \intersect Files = {} /\ (Dirs \union Files) \intersect Others = {}
  /\ Contents \in [Dirs -> Seq(Entries \ {Root})]
  /\ \A d \in Dirs : IsInjective(Contents[d])
  /\ \A c, d \in Dirs : c # d => Range(Contents[c]) \intersect Range(Contents[d]) = {}

ASSUME OptionsAssumption ==
  \A o \in Options :
    /\ {o.count_only, o.sum_size, o.long_format, o.match_dirs, o.named} \subseteq BOOLEAN
    /\ {o.min_size, o.max_size} \subseteq Nat \union {NoBound}
    /\ o.hits \subseteq Entries /\ o.skips \subseteq Dirs
    /\ o.threads \in 0 .. N

Workers == 0 .. N - 1

VARIABLES
  opts,     (* FilterConfig, OutputConfig and effective_threads            *)
  todo,     (* directories the pool holds                                  *)
  at,       (* where each worker is                                        *)
  cur,      (* the directory it walks                                      *)
  rest,     (* what its ReadDir iterator has not returned yet              *)
  kids,     (* WorkerState.child_dirs                                      *)
  out,      (* WorkerState.out, a line per entry                           *)
  count,    (* WorkerState.local_count                                     *)
  size,     (* WorkerState.local_size                                      *)
  matched, total,  (* the totals of Scheduler::run                         *)
  stdout,   (* lines written so far                                        *)
  pipe,     (* standard output: a write completes ("open"), waits for the  *)
            (* reader ("full"), or finds it gone ("closed")                *)
  exit,     (* how the process ended                                       *)
  report,   (* the numbers of the summary                                  *)
  found, walked, listed,  (* history: directories published, finished, and *)
                          (* opened                                        *)
  failed,   (* history: entries an I/O error hid                           *)
  tally,    (* history: the entries each worker has counted                *)
  sizeless  (* history: directories recorded without their size            *)

local == <<cur, rest, kids, out, count, size>>
totals == <<matched, total>>
output == <<stdout, exit, report>>
history == <<found, walked, listed, failed, tally, sizeless>>
vars == <<opts, todo, at, local, totals, output, pipe, history>>

(* Faulty: the sum is not cut to the width of the counter.                 *)
AddWide(x, n) == x + n

(* usize and u64 additions wrap in a release build.                        *)
Add(x, n) == (x + n) % (U64Max + 1)

need_size == opts.sum_size \/ opts.long_format
               \/ opts.min_size # NoBound \/ opts.max_size # NoBound
(* Faulty: the fast path forgets the size filters.                         *)
need_file_name_short == ~opts.count_only \/ opts.named

need_file_name == ~opts.count_only \/ opts.named \/ need_size

(* name_matches: no filter accepts every name.                             *)
NameMatches(e) == opts.named => e \in opts.hits

SizeFits(e) ==
  /\ opts.min_size # NoBound => Bytes[e] >= opts.min_size
  /\ opts.max_size # NoBound => Bytes[e] <= opts.max_size

(* Nothing done yet.                                                       *)
Fresh ==
  /\ todo = {Root}
  /\ cur = [w \in Workers |-> NoDir]
  /\ rest = [w \in Workers |-> <<>>]
  /\ kids = [w \in Workers |-> <<>>]
  /\ out = [w \in Workers |-> <<>>]
  /\ count = [w \in Workers |-> 0]
  /\ size = [w \in Workers |-> 0]
  /\ matched = 0 /\ total = 0
  /\ stdout = <<>> /\ pipe = "open" /\ exit = "running" /\ report = <<>>
  /\ found = {Root} /\ walked = {} /\ listed = {} /\ failed = {} /\ sizeless = {}
  /\ tally = [w \in Workers |-> {}]

(* Faulty: as many workers as asked for, none if need be.                  *)
SpawnedAsAsked == {w \in Workers : w < opts.threads}

(* The workers of this run, at least one.                                  *)
Spawned == {w \in Workers : w = 0 \/ w < opts.threads}

(* The others are taken for workers that have returned.                    *)
Spawn == at = [w \in Workers |-> IF w \in Spawned THEN "idle" ELSE "done"]

Init == opts \in Options /\ Spawn /\ Fresh

Running == exit = "running"

Goto(w, from, to) ==
  /\ Running
  /\ at[w] = from
  /\ at' = [at EXCEPT ![w] = to]

-------------------------------------------------------------------------------
(* The pool, as walk_one sees it.                                          *)

Take(w, d) ==
  /\ Goto(w, "idle", "open")
  /\ d \in todo
  /\ todo' = todo \ {d}
  /\ cur' = [cur EXCEPT ![w] = d]
  /\ UNCHANGED <<opts, rest, kids, out, count, size, totals, output, pipe, history>>

Leave(w) ==
  /\ Goto(w, "idle", "final")
  /\ todo = {}
  /\ \A v \in Workers : cur[v] = NoDir
  /\ UNCHANGED <<opts, todo, local, totals, output, pipe, history>>

-------------------------------------------------------------------------------
(* walk_one.                                                               *)

(* Faulty: a directory that cannot be opened is tried again.               *)
OpenFailsRetry(w) ==
  /\ Goto(w, "open", "idle")
  /\ todo' = todo \union {cur[w]}
  /\ cur' = [cur EXCEPT ![w] = NoDir]
  /\ UNCHANGED <<opts, rest, kids, out, count, size, totals, output, pipe, history>>

OpenFails(w) ==
  /\ Goto(w, "open", "idle")
  /\ cur' = [cur EXCEPT ![w] = NoDir]
  /\ walked' = walked \union {cur[w]}
  /\ UNCHANGED <<opts, todo, rest, kids, out, count, size, totals, output, pipe,
                 found, listed, failed, tally, sizeless>>

Open(w) ==
  /\ Goto(w, "open", "loop")
  /\ rest' = [rest EXCEPT ![w] = Contents[cur[w]]]
  /\ kids' = [kids EXCEPT ![w] = <<>>]
  /\ listed' = listed \union {cur[w]}
  /\ UNCHANGED <<opts, todo, cur, out, count, size, totals, output, pipe,
                 found, walked, failed, tally, sizeless>>

(* The iterator returns e.                                                 *)
Returns(w, e) ==
  /\ Running
  /\ at[w] = "loop"
  /\ rest[w] # <<>>
  /\ e = Head(rest[w])
  /\ rest' = [rest EXCEPT ![w] = Tail(@)]
  /\ UNCHANGED <<opts, todo, cur, totals, output, pipe, found, walked, listed>>

(* continue.                                                               *)
Passes(w, e) ==
  /\ Returns(w, e)
  /\ UNCHANGED <<at, kids, out, count, size, tally, sizeless>>

EntryFails(w, e) ==
  /\ Passes(w, e)
  /\ failed' = failed \union {e}

(* One more match: its size is added if it is known, and its line goes to  *)
(* the buffer.                                                             *)
Tallies(w, e, sized) ==
  /\ Returns(w, e)
  /\ count' = [count EXCEPT ![w] = Add(@, 1)]
  /\ tally' = [tally EXCEPT ![w] = @ \union {e}]
  /\ size' = [size EXCEPT ![w] = IF sized THEN Add(@, Bytes[e]) ELSE @]
  /\ out' = [out EXCEPT ![w] = IF opts.count_only THEN @ ELSE Append(@, e)]

(* A file that matches; the buffer is flushed as soon as it is full.       *)
Records(w, e, sized) ==
  /\ Tallies(w, e, sized)
  /\ at' = [at EXCEPT ![w] = IF ~opts.count_only /\ Len(out'[w]) >= FlushAt
                             THEN "flush" ELSE "loop"]

(* Faulty: the buffer is not looked at.                                    *)
WriteMatchForgets(w, e) ==
  /\ \/ Tallies(w, e, need_size) /\ UNCHANGED sizeless
     \/ need_size /\ Tallies(w, e, FALSE) /\ sizeless' = sizeless \union {e}
  /\ UNCHANGED at

(* write_match, for a directory: a size that cannot be read is taken for   *)
(* absent, the bounds are not looked at, and the test of the buffer is one *)
(* of its own.                                                             *)
WriteMatch(w, e) ==
  /\ \/ Tallies(w, e, need_size) /\ UNCHANGED sizeless
     \/ need_size /\ Tallies(w, e, FALSE) /\ sizeless' = sizeless \union {e}
  /\ at' = [at EXCEPT ![w] = IF ~opts.count_only /\ Len(out'[w]) >= FlushAt
                             THEN "flush" ELSE "loop"]

(* count_only and no filter: not even the name is fetched.                 *)
CountFile(w, e) ==
  /\ e \in Files /\ ~opts.match_dirs /\ ~need_file_name
  /\ Returns(w, e)
  /\ count' = [count EXCEPT ![w] = Add(@, 1)]
  /\ tally' = [tally EXCEPT ![w] = @ \union {e}]
  /\ UNCHANGED <<at, kids, out, size, failed, sizeless>>

SkipDir(w, e) ==
  /\ e \in Dirs \intersect opts.skips
  /\ Passes(w, e)
  /\ UNCHANGED failed

(* Faulty: the skip list is not consulted.                                 *)
ChildDirAny(w, e) ==
  /\ e \in Dirs
  /\ kids' = [kids EXCEPT ![w] = Append(@, e)]
  /\ IF opts.match_dirs /\ NameMatches(e)
     THEN WriteMatch(w, e)
     ELSE Returns(w, e) /\ UNCHANGED <<at, out, count, size, tally, sizeless>>
  /\ UNCHANGED failed

ChildDir(w, e) ==
  /\ e \in Dirs \ opts.skips
  /\ kids' = [kids EXCEPT ![w] = Append(@, e)]
  /\ IF opts.match_dirs /\ NameMatches(e)
     THEN WriteMatch(w, e)
     ELSE Returns(w, e) /\ UNCHANGED <<at, out, count, size, tally, sizeless>>
  /\ UNCHANGED failed

File(w, e) ==
  /\ e \in Files /\ ~opts.match_dirs /\ need_file_name
  /\ \/ /\ ~NameMatches(e) \/ ~SizeFits(e)
        /\ Passes(w, e)
        /\ UNCHANGED failed
     \/ /\ NameMatches(e) /\ need_size
        /\ Passes(w, e)
        /\ failed' = failed \union {e}
     \/ /\ NameMatches(e) /\ SizeFits(e)
        /\ Records(w, e, need_size)
        /\ UNCHANGED <<kids, failed, sizeless>>

Ignore(w, e) ==
  /\ e \in Others \/ (e \in Files /\ opts.match_dirs)
  /\ Passes(w, e)
  /\ UNCHANGED failed

(* Faulty: child_dirs is cleared before it is pushed.                      *)
PublishNothing(w) ==
  /\ Goto(w, "loop", "idle")
  /\ rest[w] = <<>>
  /\ found' = found \union Range(kids[w])
  /\ walked' = walked \union {cur[w]}
  /\ cur' = [cur EXCEPT ![w] = NoDir]
  /\ kids' = [kids EXCEPT ![w] = <<>>]
  /\ UNCHANGED <<opts, todo, rest, out, count, size, totals, output, pipe, listed, failed,
                 tally, sizeless>>

(* The end of the loop: child_dirs to the pool, then sub_dirs.             *)
Publish(w) ==
  /\ Goto(w, "loop", "idle")
  /\ rest[w] = <<>>
  /\ todo' = todo \union Range(kids[w])
  /\ found' = found \union Range(kids[w])
  /\ walked' = walked \union {cur[w]}
  /\ cur' = [cur EXCEPT ![w] = NoDir]
  /\ kids' = [kids EXCEPT ![w] = <<>>]
  /\ UNCHANGED <<opts, rest, out, count, size, totals, output, pipe, listed, failed,
                 tally, sizeless>>

-------------------------------------------------------------------------------
(* Output.                                                                 *)

(* Faulty: a write error is dropped with the lines.                        *)
FlushIgnores(w, from, to) ==
  /\ Goto(w, from, to)
  /\ pipe # "full"
  /\ stdout' = IF pipe = "closed" THEN stdout ELSE stdout \o out[w]
  /\ out' = [out EXCEPT ![w] = <<>>]
  /\ UNCHANGED <<opts, todo, cur, rest, kids, count, size, totals, exit, report,
                 pipe, history>>

(* flush_out under the lock of stdout: everything is written and the       *)
(* buffer cleared, or a prefix is and the process ends, with status 0 when *)
(* the pipe is closed and 1 on any other error.  A full pipe holds the     *)
(* worker up for as long as nobody reads.                                  *)
Flush(w, from, to) ==
  \/ /\ pipe = "open"
     /\ Goto(w, from, to)
     /\ stdout' = stdout \o out[w]
     /\ out' = [out EXCEPT ![w] = <<>>]
     /\ UNCHANGED <<opts, todo, cur, rest, kids, count, size, totals, exit, report,
                    pipe, history>>
  \/ /\ Running /\ at[w] = from /\ out[w] # <<>> /\ pipe # "full"
     /\ \E n \in 0 .. Len(out[w]) - 1 : stdout' = stdout \o SubSeq(out[w], 1, n)
     /\ exit' = IF pipe = "closed" THEN "pipe" ELSE "error"
     /\ UNCHANGED <<opts, todo, at, local, totals, report, pipe, history>>

FlushFull(w) == Flush(w, "flush", "loop")

(* Faulty: a worker leaves with lines in its buffer.                       *)
FlushFinalNothing(w) ==
  /\ Goto(w, "final", "sum")
  /\ UNCHANGED <<opts, todo, local, totals, output, pipe, history>>

(* flush_worker_final.                                                     *)
FlushFinal(w) ==
  \/ out[w] # <<>> /\ Flush(w, "final", "sum")
  \/ /\ out[w] = <<>>
     /\ Goto(w, "final", "sum")
     /\ UNCHANGED <<opts, todo, local, totals, output, pipe, history>>

AddCount(w) ==
  /\ Goto(w, "sum", "size")
  /\ matched' = Add(matched, count[w])
  /\ count' = [count EXCEPT ![w] = 0]
  /\ UNCHANGED <<opts, todo, cur, rest, kids, out, size, total, output, pipe, history>>

(* Faulty: store for fetch_add.                                            *)
AddSizeStores(w) ==
  /\ Goto(w, "size", "done")
  /\ total' = size[w]
  /\ size' = [size EXCEPT ![w] = 0]
  /\ UNCHANGED <<opts, todo, cur, rest, kids, out, count, matched, output, pipe, history>>

AddSize(w) ==
  /\ Goto(w, "size", "done")
  /\ total' = Add(total, size[w])
  /\ size' = [size EXCEPT ![w] = 0]
  /\ UNCHANGED <<opts, todo, cur, rest, kids, out, count, matched, output, pipe, history>>

(* The summary, a println! a line, which panics when it cannot write,      *)
(* whatever the reason.                                                    *)
Summary == (IF opts.count_only THEN <<matched>> ELSE <<>>)
             \o (IF opts.sum_size THEN <<total>> ELSE <<>>)

AllJoined == Running /\ \A w \in Workers : at[w] = "done"

PrintSummary ==
  /\ AllJoined
  /\ Len(report) < Len(Summary)
  /\ \/ pipe = "open" /\ report' = Append(report, Summary[Len(report) + 1]) /\ UNCHANGED exit
     \/ pipe # "full" /\ exit' = "panic" /\ UNCHANGED report
  /\ UNCHANGED <<opts, todo, at, local, totals, stdout, pipe, history>>

Return ==
  /\ AllJoined
  /\ report = Summary
  /\ exit' = "ok"
  /\ UNCHANGED <<opts, todo, at, local, totals, stdout, report, pipe, history>>

(* The reader of standard output falls behind, ...                         *)
Fill ==
  /\ Running /\ pipe = "open"
  /\ pipe' = "full"
  /\ UNCHANGED <<opts, todo, at, local, totals, output, history>>

(* ... catches up, ...                                                     *)
Empty ==
  /\ Running /\ pipe = "full"
  /\ pipe' = "open"
  /\ UNCHANGED <<opts, todo, at, local, totals, output, history>>

(* ... or goes away.                                                       *)
Close ==
  /\ Running /\ pipe # "closed"
  /\ pipe' = "closed"
  /\ UNCHANGED <<opts, todo, at, local, totals, output, history>>

Reader == Fill \/ Empty \/ Close

Exited == ~Running /\ UNCHANGED vars

Worker(w) ==
  \/ \E d \in Dirs : Take(w, d)
  \/ Leave(w) \/ OpenFails(w) \/ Open(w) \/ Publish(w)
  \/ \E e \in Entries :
       \/ EntryFails(w, e) \/ CountFile(w, e) \/ SkipDir(w, e)
       \/ ChildDir(w, e) \/ File(w, e) \/ Ignore(w, e)
  \/ FlushFull(w) \/ FlushFinal(w) \/ AddCount(w) \/ AddSize(w)

Next == (\E w \in Workers : Worker(w)) \/ PrintSummary \/ Return \/ Reader \/ Exited

Safe == Init /\ [][Next]_vars

(* Threads that can run do.  Nothing obliges the reader to read, or to     *)
(* leave.                                                                  *)
Spec == Safe /\ (\A w \in Workers : WF_vars(Worker(w))) /\ WF_vars(PrintSummary \/ Return)
-------------------------------------------------------------------------------
(* The values the variables take.                                          *)
TypeOK ==
  /\ opts \in Options
  /\ todo \subseteq Dirs
  /\ at \in [Workers -> {"idle", "open", "loop", "flush", "final", "sum", "size", "done"}]
  /\ cur \in [Workers -> Dirs \union {NoDir}]
  /\ rest \in [Workers -> Seq(Entries)] /\ kids \in [Workers -> Seq(Dirs)]
  /\ out \in [Workers -> Seq(Entries)] /\ stdout \in Seq(Entries)
  /\ count \in [Workers -> 0 .. U64Max] /\ size \in [Workers -> 0 .. U64Max]
  /\ matched \in 0 .. U64Max /\ total \in 0 .. U64Max /\ report \in Seq(0 .. U64Max)
  /\ pipe \in {"open", "full", "closed"}
  /\ exit \in {"running", "ok", "pipe", "error", "panic"}
  /\ found \union walked \union listed \union sizeless \subseteq Dirs
  /\ failed \subseteq Entries /\ tally \in [Workers -> SUBSET Entries]

(* The entries the command line asks for, ...                              *)
Qualifies(e) ==
  /\ NameMatches(e)
  /\ IF opts.match_dirs THEN e \in Dirs \ opts.skips ELSE e \in Files /\ SizeFits(e)

(* ... of the directories that could be opened and without those an I/O    *)
(* error hid.                                                              *)
Wanted == {e \in (UNION {Range(Contents[d]) : d \in listed}) \ failed : Qualifies(e)}

(* A line is never written twice and never for an entry nobody asked for,  *)
(* even when the process ends early; a run that ends normally has written  *)
(* every line: none is left in the buffer of a worker that has returned    *)
(* (walker.rs:192-195, 268-284).                                           *)
EachMatchOnce ==
  /\ IsInjective(stdout) /\ Range(stdout) \subseteq Wanted
  /\ exit = "ok" /\ ~opts.count_only => Range(stdout) = Wanted

(* The number printed by -c is the number of lines the same command line   *)
(* prints without -c, whichever of the paths through the loop counted them *)
(* (walker.rs:89-97, 149, 222).                                            *)
CountExact ==
  exit = "ok" =>
    /\ matched = Cardinality(Wanted)
    /\ opts.count_only => report[1] = matched

(* The total printed by -s is the sum of the sizes of those entries, modulo*)
(* the width of a u64, each worker's share included once (walker.rs:196-203*)
(* and 150-152).                                                           *)
TotalExact ==
  exit = "ok" /\ need_size =>
    total = MapThenSumSet(LAMBDA e : Bytes[e], Wanted \ sizeless) % (U64Max + 1)

(* A buffer never holds a full batch beyond the entry that filled it.      *)
BufferBounded ==
  \A w \in Workers :
    Len(out[w]) < FlushAt \/ (Len(out[w]) = FlushAt /\ at[w] = "flush")

(* The skip list prunes: nothing below a skipped directory is opened or    *)
(* printed, and every other directory whose parent was opened is finished  *)
(* by a run that ends normally.                                            *)
Children(d) == (Range(Contents[d]) \intersect Dirs) \ (opts.skips \union failed)
Pruned ==
  LET expected == {Root} \union UNION {Children(d) : d \in listed}
  IN  /\ found \union listed \subseteq expected
      /\ exit = "ok" => walked = expected

(* A pipe that is closed by its reader never makes the program fail        *)
(* (walker.rs:273-277).                                                    *)
ClosedIsNoFailure == pipe = "closed" => exit \notin {"error", "panic"}

(* Every run ends whose reader does not keep it waiting for ever: it       *)
(* catches up in the end, for what a walk writes is finite, or it leaves   *)
(* (walker.rs:265-284; write_all has no other way out of a full pipe).     *)
Termination == <>[](pipe # "full") => <>~Running

(* With a closed pipe a walk that still has lines to write does not go to  *)
(* its end: the process exits as soon as a buffer is flushed.              *)
ClosedPipeEnds ==
  pipe = "closed" /\ Running /\ (\E w \in Workers : out[w] # <<>>) ~> exit \in {"pipe", "error"}

(* The walker keeps its side of the contract with the pool: a directory is *)
(* finished exactly once, whatever goes wrong with it, and what is pushed  *)
(* has not been pushed before (walker.rs:55-61, 178-189).                  *)
Leaving == {w \in Spawned : at[w] \in {"final", "sum", "size", "done"}}
Contract == INSTANCE Worklist WITH hold <- cur, known <- found, gone <- Leaving
ContractSafe == Contract!Safe
===============================================================================
