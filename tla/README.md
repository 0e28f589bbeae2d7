# Specifications of pfind

TLA+ modules for `pfind`, a parallel directory walker in Rust, with the TLC
configurations that check them on small instances and TLAPS proofs of the
results that matter most. File names below are relative to the repository;
`queue.rs:156` is line 156 of `src/queue.rs` there (the paths of `PROJECT.json`
start one directory further up).

## The system

| part | state it keeps | operations |
|---|---|---|
| work-stealing pool, `src/queue.rs` | a LIFO deque, a parker and a stealer per worker; `dir_pending`, `parked_count`, `shutdown` | `add_dirs`, `sub_dirs`, `maybe_unpark`, `try_steal`, `signal_shutdown`, `worker_loop` |
| scheduler, `src/scheduler.rs` | the totals `matched` and `total_size` | `Scheduler::run`: seed the root, spawn, join, print the summary |
| walker, `src/walker.rs` | per worker: output buffer, local count, local size, `child_dirs` | `walk_one`, `write_match`, `flush_out`, `flush_worker_final` |
| name filters, `src/process.rs` and the end of `src/walker.rs` | none | `glob_match`, `name_matches_extension`, `should_skip_dir_bytes` |
| command line, `src/cli.rs` | none | `filter_config`, `output_config`, `all_extensions`, `skip_dirs`, `parse_size` |
| configuration, `src/config.rs`; entry point, `src/main.rs` | none | number of threads; `main` |
| `benchmark.py` | none | times the program, not part of it |

The scheduler counts and pushes the root onto the deque of worker 0, spawns the
workers and joins them. A worker pops its own deque, else steals from its peers,
else announces itself in `parked_count`, sweeps its peers once more, and then
either finds `dir_pending = 0`, sets `shutdown` and wakes everybody, or parks.
Every directory that it gets is handed to `walk_one`, which lists it, records
what matches, counts the subdirectories in `dir_pending`, pushes them on the
worker's own deque, wakes sleepers and takes the directory itself out of
`dir_pending`. The workers share nothing but the pool, standard output and, at
their end, the totals.

What is hard: there is no lock, and no worker knows the state of the others. The
end of the walk is inferred from one counter; sleep and wake-up race with pushes
that other cores may see late; errors, a closed pipe and I/O failures cut every
operation short; and the answer has to be the same under each interleaving. The
list with line numbers is under `hazards` in `PROJECT.json`.

`pfind_paper_unpublished.pdf` in the root of the repository describes an older
two-stage design that the code no longer has; it is not a source here.

## The modules

| module | what it is | code |
|---|---|---|
| `Traversal` | what the walk of the directories promises, without threads: every directory discovered is visited once, and the walk halts when none is left | abstract specification |
| `Worklist` | the contract between pool and walker: each directory that is published is handed to one worker, once, and nobody leaves while there is one | abstract specification |
| `WorkPool` | the pool, the scheduler's threads and the skeleton of `walk_one` | `queue.rs`, `scheduler.rs:14-51`, `walker.rs:55-61, 178-190` |
| `Scan` | the entries, the filters, the output buffers, the closed pipe, the totals and the summary | `walker.rs`, `scheduler.rs:15, 25-60` |
| `Overlooked` | `WorkPool` with a history variable: which directories a worker could not see when it looked for the last time before it sleeps | `queue.rs:87-95, 150-154` |
| `Filters` | the name filters without a loop of their own, and what a pattern means | `process.rs:34-53`, `walker.rs:286-302` |
| `Names` | `glob_match` turn by turn | `process.rs:7-32` |
| `SizeTexts` | the arithmetic of `parse_size`, and what a size is | `cli.rs:260-282` |
| `Sizes` | `parse_size` branch by branch | `cli.rs:260-282` |
| `Arguments` | extensions, skip list, bounds, number of threads | `cli.rs:173-258, 284-296`, `config.rs` |
| `Program` | `Arguments`, `Filters` and `Scan` put together, and what the options are documented to mean | `main.rs`, `cli.rs:14-98`, `walker.rs:242-263` |
| `MCWorkPool`, `MCOverlooked`, `MCScan`, `MCNames`, `MCSizes`, `MCProgram` | instances for TLC | |
| `BasicLemmas` | sets of numbers; what push, pop and steal do to the set of entries of a deque | lemmas |
| `FilterLemmas` | what the patterns without a loop of their own mean | lemmas |
| `WorkPoolProofs` | the inductive invariant of `WorkPool` (types, counting, no directory twice), what `dir_pending = 0` means, and the refinements of `Traversal` and `Worklist` | theorems |
| `WorkPoolSleep` | on top of it and of `Overlooked`: announcements, owners, sleepers, wake-ups, the order on a deque | theorems |
| `ScanProofs` | the inductive invariants of `Scan` (directories, matches, sizes, what is reached) and the refinement of `Worklist` | theorems |
| `NamesProofs` | theorems about `Names` and `Filters` | theorems |
| `SizesProofs` | theorems about `Sizes` and `SizeTexts` | theorems |
| `ProgramProofs` | on top of `ScanProofs` and `FilterLemmas`: the whole program against its documentation | theorems |

How they fit: `WorkPool` leaves out what a directory contains, `Scan` leaves out how
the pool finds work. Both are shown to refine `Worklist` (`PoolKeepsContract`,
`ContractCorrect`), with the same four variables: what is to be handed out, who holds
what, what has been published, who has left. `Names` shows that `glob_match` computes
`Matches`, and `Sizes` that `parse_size` computes `SizeOf`; `Program` uses these
meanings in the place of the loops. Where a name has a star in it `glob_match` is not
`Matches`; there `Program` takes whatever `glob_match` returns (the constant `Glob`).

### WorkPool

The variables are those of `Pool` under short names (`pending` is `dir_pending`,
`parked` is `parked_count`, `permit` the token of a `Parker`), one program counter
per thread, and the thread-local data that survives from one shared access to the
next: the directory in hand (`cur`), what is left of `child_dirs` (`kids`) and the
index of the loop a worker is in (`cursor`). `found` and `walked` are history.

One action is one access to shared memory with the local work that follows it.
`worker_loop` is `PopHit`/`PopMiss`, `StealHit`/`StealMiss`, `Announce`,
`RestealHit`/`RestealMiss`, `Retract`, `CheckPending`, `Quit`, `Signal`,
`Broadcast`, `Park`, `Woken`, `CheckShutdown`, in the order of the source;
`walk_one` is `ReadDir`/`ReadDirFails`, `AddDirs`, `Push`, `MaybeUnpark`, `Wake`,
`SubDirs`. A sweep over the peers takes one step per peer, so a directory pushed
behind the back of a sweep is missed by it, as in the code. `Steal::Retry` leaves
everything as it was and is a stuttering step. The counters wrap at `UsizeMax`.

Memory order. `Worker::push` publishes with a plain release store, and
`maybe_unpark` loads `parked_count` right behind it. On x86 such a load may
overtake the store. `hidden[w]` counts the pushes of `w` that are still in its
store buffer: `w` sees them, thieves do not. Every read-modify-write and every
successful `Worker::pop` (which holds a `SeqCst` fence) empties the buffer first.
All other shared variables are written by read-modify-writes, except `shutdown`,
whose store is followed at once by the read-modify-writes of the unparks and
gains no behaviour from a delay. Weaker machines are not modelled. `DelayedStores` is
`TRUE` in every run; the theorems hold for both of its values.

`Overlooked` adds one history variable to this specification and changes nothing else:
when the second sweep of a worker passes a peer that is not on its way to unparking it,
`overlooked` takes in what that peer still has in its store buffer, and it is emptied
when the worker withdraws its announcement.

What a directory contains is the constant `Readings`: the lists of children that a
pass over it may give, which makes unreadable entries and skipped directories a
matter of the instance.

### Scan

The pool is the set `todo`, from which a worker takes any directory and which it
leaves only when the set is empty and nobody walks: the contract `Worklist`, which
`WorkPool` is shown to provide. A worker takes one entry per step. `CountFile` is the hot path
of `-c` without a filter, `SkipDir`, `ChildDir`, `File`, `Ignore` the branches of
the loop, `EntryFails` the two errors that `continue`. `Tallies` counts a match and
appends its line; `Records` (files) and `WriteMatch` (directories, `write_match`) each
follow it with their own copy of the test for a full buffer. `Flush` is `flush_out`: it
writes the buffer whole, or a prefix of it and ends the process. Standard output is
`pipe`: a write to it completes when it is `"open"`, waits when it is `"full"`, and finds
the reader gone when it is `"closed"`; `Fill`, `Empty` and `Close` are the reader falling
behind, catching up and leaving, at any moment. A write can also fail for another reason
(a full disk): `flush_out` exits with 1 and the `println!` of the summary panics, which it
does on any error. Sizes are small numbers, names count by whether the filters accept them,
a line of output is the entry it is for.

### Names and Filters

`pi`, `si`, `star`, `match_si` are the variables of `glob_match`; each branch of its
two loops is an action. `Matches` says what a pattern means without an algorithm:
there is a way to cut the name so that every character of the pattern gets the
part it stands for. The extension and the skip tests, which are loops over
slices, are operators. `name_matches`, which calls `glob_match`, is `NameAccepted` in `Program`.

### Sizes

A text is a sequence of tokens: letters, spaces, and numerals that stand for whatever
`f64::from_str` reads as one number. `Normalise` is `trim` and `to_uppercase`,
`InPrefix`, `InByte`, `NoUnit` the chain of `ends_with`, `ChopLong` and `ChopShort` one
turn each of the two `trim_end_matches`, `Read` the rest. `SizeOf` says what a size is:
a numeral, spaces, a unit, and any number of repetitions of it, which the code takes
off too. A number is counted in a unit that is finer than every `f64` and of which
every numeral is a whole number, so that decimals such as 0.1, which no `f64` is equal
to, have a place; a byte is `Fine` of these units and the least `f64`, 2^-1074, is `Least`.
`Nearest` is what `f64::from_str` reads: the nearest `f64`, ties to even, at every
magnitude. `Spacing` is the distance of neighbouring `f64`: `Least` as long as the
mantissa holds the number without an exponent, then doubling as the number does. `Round`
goes to the nearest multiple of it. `ToSize` is the saturating `as u64`. That one byte
and 1024 are powers of two, so that the product of a multiplier and an `f64` needs no
rounding, is `PowersAssumption`; that an `f64` without an exponent is less than a byte
even in G is `FinestAssumption`.

### Arguments and Program

A command line is a record with the fields of `Cli`; the parser itself is clap's.
`all_extensions`, `skip_dirs`, `filter_config`, `output_config`, `effective_threads` are
operators under their names. The extensions of a preset are two constants, `Presets` for
the table of the code (`cli.rs:105-132`) and `Documented` for the comment that `--help`
prints (`cli.rs:70-98`), because the two differ. `ToLowercase`, the Unicode
folding of the command line, is a parameter beside `Lower`, the ASCII folding of
the names, because the code uses both. `Configure` applies the filters to the names of
the entries and gives the options that `Scan` takes for constants, the number of threads
among them. `Scan` starts that many workers and at least one (`Spawned`); the others count
as returned.

`Asked` says, from the documentation of each option, which entries a command line is
after. It works with `Documented`, not with `Presets`; with the end of a name behind a
dot, not with the code's comparison; and with `Describes`, in which a question mark is a
character of UTF-8 and not a byte (`Continuing` are the bytes that no character begins
with). It shares with the code's model the stripping of leading dots from an extension
(`StripDots`), the ASCII folding (`LowerCase`), and `SizeOf`, which `Sizes` shows to be what
`parse_size` computes and whose accuracy is the subject of `Accurate`.

## What the runs check

| run | instance | shows |
|---|---|---|
| `safety` | 3 workers, 5 directories in a tree of depth 3, delayed pushes | `PendingExact`, `NoDuplicate`, `SafeShutdown`, `ParkedExact`, `OwnerAwake`, `DepthFirst`, `NoneStranded`, `QuiescenceStable`; `OnlyOverlooked`: the only wake-up that is missed is the one to a push that was not visible yet |
| `live` | 2 workers, any entry may fail | `Termination`; `AbstractSpec`: the pool implements `Traversal`; `ContractSpec`: it implements `Worklist` |
| `missed` | 2 workers, delayed pushes | violates `NoMissedWake`, see below |
| `last` | 2 workers | violates `ShutdownByLast`, see below |
| `walk` | 2 workers, 6 configurations, 8 entries below the root, failures everywhere, totals that wrap at 10 | `EachMatchOnce`, `CountExact`, `TotalExact`, `BufferBounded`, `Pruned`; `ContractSafe`: the walker keeps its side of `Worklist`; `Termination`, `ClosedPipeEnds` |
| `panic` | as `walk` | violates `ClosedIsNoFailure`, see below |
| `names` | all patterns (and skip entries, and extensions) of at most 4 characters over `* ? . a`, all names of at most 3 over `. a A` | `NoMatchLost`, `Correct`, `Quadratic`, `SkipAgrees`, `ExtensionAgrees` |
| `star` | names with a star in them | violates `StarIsAnyRun`, see below |
| `sizes` | all texts of at most 5 tokens over a numeral, `K M G B g` and the space; 50 numerals (decimals such as 0.1 and 1.1 among them) at the boundaries of a 3-bit mantissa and a 7-bit result, without a unit, in K, in G | `SizeMeaning`: the texts accepted are the sizes, each with its own unit; `OrderKept`, `Accurate` |
| `asked` | 11 command lines, 2 workers, a tree of 4 directories and 6 other entries | `AsAsked`: what an undisturbed walk prints, counts and sums is what was asked for |
| `mistake` | `--min-size "1 1"` | violates `BoundsHonoured`, see below |
| `preset` | `-t` with a preset whose table has an extension that its help text has not | violates `PresetAsDocumented`, see below |

`safety`, `walk`, `names` and `sizes` also check the module's `TypeOK`; `safety` runs on
`Overlooked`, whose behaviours are those of `WorkPool`. The module of `asked` assumes
(`AllUnderstood`) that none of its command lines is of a kind that `AsAsked` says nothing
of. `PROJECT.json` gives, for every property of a passing run, a mutant
of the code's model (an operator called "Faulty" in the module) under which the property
fails, so none of them holds whatever the code does.

### Why the bounds are enough

Two workers are needed for a thief, three for a thief that robs a thief and for
two sleepers with one producer. The tree has two branches with a directory below
each, so that a thief can produce work of its own while its victim still does, and
a leaf ends every branch, so that every worker runs out of work before the end.
`UsizeMax = 7` is above the five directories, as a `usize` is above every number of
objects in memory, and low enough for an underflow to leave its type visibly.
`FlushAt = 2` lets a buffer fill, flush and be left half-full at the end.
In `Scan` `U64Max = 9` is below the sum of the sizes, so the wrap-around of the totals
happens, and no smaller than the number of entries, which a `u64` always counts. Four
characters of a pattern hold two stars with something between and behind them, and
three of a name give each of them something to take, which is where `glob_match`
goes back. Five tokens hold a numeral, a space and the three letters
that show how a pass of `trim_end_matches` ends and the next begins. A mantissa of 3
bits and a result of 7 put every boundary of the arithmetic (a tie, a change of
spacing, saturation) within reach; all that the properties use of 53 and 64 is that
they are some precision and some width. A byte is 5120 units and the least `f64` 5 of
them, so that the sums of halves are `f64`, tenths are not, and `PowersAssumption` and
`FinestAssumption` hold as they do of the real numbers. The command lines of
`asked` use every option, alone and with one that it could get in the way of, on a
tree with a name for each: an extension in the wrong case, a name without a dot, a
directory and a link with an extension, a junk directory with a match in it. The
theorems below are free of these bounds.

### Fairness

`WorkPool` has weak fairness for the main thread and for each worker: a thread that
can run does so in the end. A worker blocked in `park` has no enabled step and needs
none. The drain of a store buffer belongs to the worker's fairness: hardware writes
its buffers back. `Scan` has weak fairness for each worker and for the summary, none
for the reader of the pipe, who may stop reading for ever or leave at any moment. A
worker in `write_all` on a full pipe is then blocked and fairness asks nothing of it;
`Termination` of the walk therefore has a premise, `<>[](pipe # "full")`: the reader
does not keep the program waiting for ever. `ClosedPipeEnds` needs no premise, since a
write to a closed pipe returns. `Names`, `Sizes` and `Program` have none: the bound on
the turns of `glob_match` is a safety property, and the walk of `Program` is that of `Scan`.

## What the runs found

* **A wake-up can be missed** (`missed`). `queue.rs:143-146` claims that the fence of
  the announcement pairs with the producer's push and unpark, so that a push before
  the re-check is visible to it. The producer has no fence between the push and the
  load of `parked_count`. A worker can go to sleep over a directory whose producer
  saw nobody to wake. The walk is still complete, because the producer walks its own
  deque (`OwnerAwake`) and it ends (`Termination`); the sleeper's share of the
  parallelism is lost. `OnlyOverlooked` (run `safety`, and proved) says that this is
  the only way: a worker asleep without a permit can miss a directory of a peer that is
  not about to wake it only if that very push was in the peer's store buffer when the
  sleeper looked. A fence between the push and the load would rule it out.
* **The last worker is not the last** (`last`). `queue.rs:8-10` and `README.md:78-80`
  say that all workers are parked when the last to see quiescence sets `shutdown`.
  The code asks only for `dir_pending = 0`; others may be awake, or not yet started,
  and may broadcast again. This is harmless (`SafeShutdown`).
* **A star in a file name** (`star`). `process.rs:12` compares for equality before it
  looks for a star, so a star in a name uses up the star of the pattern: `*` rejects a
  file called `**` (the trace), or `*a`.
* **The summary panics on a closed pipe** (`panic`). `flush_out` ends quietly when the
  reader has gone (`walker.rs:273-277`); the `println!` of the summary aborts, as it does
  on any other error.
* **A bound that is no size is no bound** (`mistake`). `parse_size` prepares an error
  message, `.ok()` (`cli.rs:288, 295`) drops it, and everything is printed.
* **A preset finds more than its help text says** (`preset`). `--help` prints the doc
  comments of `FileType` (`cli.rs:70-98`). That of `models` lists nine extensions, the
  table (`cli.rs:105-118`) has `hdf5`, `model` and `weights` as well, and seven of the
  other presets have more than their comments say. Only `checkpoints` and `logs` agree.

Three more places where the code and its comments part, which follow from reading the
model and have no run of their own. A question mark is one byte where `process.rs:3`
says "one char", so the name of one accented letter needs two (`Describes`, which is
about characters, and `Matches`, which is about bytes, differ there). `cli.rs:200` folds an
extension by all of Unicode, `process.rs:48` folds the name by ASCII only, and
`process.rs:35` relies on an ASCII extension that nobody checks for, so an extension
typed with a capital outside ASCII selects nothing. `config.rs:7-8` promises two
threads on macOS, `config.rs:44` gives four, and `cli.rs:54` speaks of the number of
CPUs.

## What is proved

All theorems hold for every value of the constants that satisfies the named
assumptions of the modules: at least one worker; a finite tree in which each
directory but the root is listed by one parent and no list repeats an entry; entries
of one kind each; numbers of directories, workers and entries that fit their
counters; for the filters, that the special characters are different bytes and that
no other byte has the dot for its lower case; for the sizes, that the upper case of a
letter is a letter and the four letters of the units are their own, that `B` is
no prefix, that a byte and 1024 are powers of two (`PowersAssumption`) and that the `f64`
without an exponent are less than a byte in G (`FinestAssumption`); for the program, that
a command line has the fields of `Cli` with values of their types, that the options made
of it are among those `Scan` is instantiated for (`OptionsSuffice`), and that `glob_match`
is `Matches` for names without a star (`GlobAssumption`, which is `GlobCorrect` of
`NamesProofs`; names may have stars, and of those nothing is assumed). TLC evaluates these
assumptions in the passing runs; for `GlobAssumption` it computes `glob_match` itself
(`MCGlob`).

About the pool, with pushes that may be seen late:

| theorem | module | states |
|---|---|---|
| `TypeCorrect` | `WorkPoolProofs` | `Safe => []TypeOK` |
| `PendingCorrect` | `WorkPoolProofs` | `Safe => []PendingExact` |
| `NoDuplicateCorrect` | `WorkPoolProofs` | `Safe => []NoDuplicate` |
| `ShutdownCorrect` | `WorkPoolProofs` | `Safe => []SafeShutdown` |
| `QuiescenceCorrect` | `WorkPoolProofs` | `Safe => QuiescenceStable` |
| `PoolImplementsTraversal` | `WorkPoolProofs` | `Safe => AbstractSafe` |
| `PoolKeepsContract` | `WorkPoolProofs` | `Safe => ContractSafe` |
| `ParkedCorrect` | `WorkPoolSleep` | `Safe => []ParkedExact` |
| `OwnerCorrect` | `WorkPoolSleep` | `Safe => []OwnerAwake` |
| `NoneStrandedCorrect` | `WorkPoolSleep` | `Safe => []NoneStranded` |
| `OnlyOverlookedCorrect` | `WorkPoolSleep` | `OverlookedSafe => []OnlyOverlooked` |
| `DepthFirstCorrect` | `WorkPoolSleep` | `Safe => []DepthFirst` |

The argument. None of the invariants is inductive alone. `Shape` says which program
counters go with a directory in hand, with children left to push, with an index
inside its loop. `Distinct` and `Known` restate `NoDuplicate` through the sets of
entries of the deques and add what makes it inductive: a directory is known (`found`)
as soon as it is in a list, and the children of a directory that has not been read
are not, because every directory has one parent. With these `dir_pending` can be
followed exactly: every step either leaves the counted set alone or adds or removes
what it adds to or subtracts from the counter, and the set is never larger than a
`usize`, so the arithmetic does not wrap (`PoolInv`). When the counter is zero the
set is empty, every known directory has been walked, and no step can discover
another: `QuietInv` carries this from the worker that read the zero to its return,
and from there to the refinement. Steps are first sorted by what they do to the
directories (`StepKinds`), so that the many steps that only move a thread are treated
once. For the sleepers, a step that neither parks, returns nor signals strands nobody
(`SleepMove`); a worker that parks has read a counter above zero, so by `PendingExact`
a directory is on a deque, whose owner is awake by `OwnerAwake`, or in somebody's
hands (`SomeoneAwake`); and once the flag is up the broadcast passes a worker only
after its permit (`SleepBroadcast`). That is `NoneStranded`, strengthened only by
`Signalled`: who broadcasts has raised the flag.

`OnlyOverlooked` is about two workers, a sleeper and the owner of a deque, and becomes
inductive when it is started earlier (`WakeInv`): from the moment a worker looks away
from a peer for the last time (it is past that peer in its second sweep, or past the
sweep, without a permit) either that peer is still on its way through `maybe_unpark`, or
all that is on its deque was overlooked. The peer cannot leave that way by reading zero,
because the other has announced and `ParkedExact` counts it. The sweep does not look at
itself and at nobody twice (`SweepMeetsAll`); when it passes a peer with nothing visible,
the whole deque is in the store buffer and goes into `overlooked` (`WakeResteal`). What is
overlooked stays so until the announcement is withdrawn (`StillOverlooked`), pops and
thefts only shorten a deque (`FewerDirs`), and a push starts a new way through
`maybe_unpark`. With stores that are seen at once nothing is ever overlooked, and the
theorem says what the comment at `queue.rs:143-146` claims.

`DepthFirst` needs what the next pushes will be: a worker's deque lies beside or above
the directory in its hands, whose children they are (`BelowHand`, `KidsOfHand`). A pop
takes the newest entry, whose way up leads past all the others (`StackPop`); a thief's
own deque is empty by `OwnerAwake`, so the foreign directory comes onto an empty stack
(`StackSteal`). The way up (`AncestorsOrSelf`) is defined as what every set closed
under `Parent` contains, and not by recursion, so that two facts about it (`WayUp`)
are enough.

For `Worklist` the list is what is queued, what is about to be pushed and the root
before it is seeded, so that `add_dirs`, and not the push, is the step that publishes
the children; a directory is in hand until then. A pop or a steal takes
(`ObtainsContract`), the read of a directory without children or `add_dirs` finishes
(`ReadContract`, `AddContract`), pushes and `sub_dirs` change nothing the walker can see,
and a worker leaves with the zero or the flag it has seen, when `QuietInv` says that
nothing is left (`LeaveContract`).

About the walker, for any options, any I/O errors and a reader that may leave at any
moment:

| theorem | module | states |
|---|---|---|
| `ScanTypeCorrect` | `ScanProofs` | `Safe => []TypeOK` |
| `BufferCorrect` | `ScanProofs` | `Safe => []BufferBounded` |
| `ContractCorrect` | `ScanProofs` | `Safe => ContractSafe` |
| `PrunedCorrect` | `ScanProofs` | `Safe => []Pruned` |
| `EachMatchOnceCorrect` | `ScanProofs` | `Safe => []EachMatchOnce` |
| `CountCorrect` | `ScanProofs` | `Safe => []CountExact` |
| `TotalCorrect` | `ScanProofs` | `Safe => []TotalExact` |

The argument. `DirInv` says where each directory can be: on the list, in the hands of
one worker, in one worker's `child_dirs`, or finished (`Places`), that only the children
of opened directories have been met (`Opened`), that what the iterator has not returned
has not been met (`Reading`), and that what is published is what was found among the
entries read (`FoundExact`). Most steps move no directory and are treated once
(`DirIdleKeeps`); `BufferBounded` goes along, because the type of the next buffer
depends on it. `WalkInv` is both, and gives `Pruned` and the contract at once. On top of it
`MatchInv` says that each worker's tally holds the qualifying entries that its
iterators have returned and no error has hidden, that tallies are disjoint, that
`local_count` is the size of the tally (so it cannot wrap: there are no more entries
than a `u64` counts), and that the lines written and buffered are exactly the tallies,
each once. At a normal end all iterators are empty and all buffers flushed, which
makes the union of the tallies `Wanted`.

The sizes come last (`Measured`): when a size is needed, the local size of a worker that
has not handed it over is the sum over its tally, modulo the width of a `u64`, and the
total is the sum over the tallies of the workers that have. Four kinds of steps matter
(`SumKinds`): an entry that is measured, one whose size cannot be read, a worker that
joins the total, and the rest. An entry is added to a sum it was not part of because
tallies are disjoint and lists have no repetitions (`NotYetTallied`), and wrapping at each
addition is wrapping once at the end (`AddWraps`). The sum over a set is the library's
recursive fold, which takes an element of the set that it chooses itself. That it exists,
does not depend on the set the recursion starts from (`SumUnique`) and may begin with any
element (`SumRemove`) is shown by the smallest counterexample: among the sets of entries
that refute the claim one includes no other (`SmallestSet`), because strict inclusion of
finite sets is well-founded. `SumUnion` then splits a sum over disjoint sets.

`NamesProofs`:

| theorem | states |
|---|---|
| `NamesTypeCorrect` | `Safe => []TypeOK`: no index out of bounds |
| `QuadraticCorrect` | `Safe => []Quadratic` |
| `NoMatchLostCorrect` | `Safe => []NoMatchLost` |
| `GlobCorrect` | `Safe => []Correct`: the answer is right for every pattern and every name without a star |
| `SkipCorrect` | `Safe => []SkipAgrees` |
| `ExtensionCorrect` | `Safe => []ExtensionAgrees` |

The argument. The part of the pattern behind the last star has been laid over the
name without a gap (`Positions`), and holds no star (`Stretch`). A cut of the name can
be followed to any later position (`FollowCut`) and extended backwards over a
character that fits, or over a star by any length (`ExtendCut`). So laying one
character keeps the set of possible matches, a new star subsumes the older ones, a
mismatch leaves only the later starts of the last star, and the end of the name
leaves only the present position. `Cuts` compares positions pairwise, which keeps
induction over the pattern out of the proof. The bound on the turns comes from
charging each to a step of `pi` or, once per `|pattern| + 1` turns, of `match_si`.

`SizesProofs`:

| theorem | states |
|---|---|
| `SizesTypeCorrect` | `Safe => []TypeOK`: the result is an error or fits in a `u64` |
| `SizeCorrect` | `Safe => []SizeMeaning`: a text is accepted if and only if it is a size, and with the multiplier of its own unit |
| `OrderCorrect` | `Safe => []OrderKept`: two sizes are in bytes in the order they were written in |
| `AccurateCorrect` | `Safe => []Accurate`: a result that fits is off by at most one part in the precision, which is the rounding of the numeral, and less than a byte; whole numbers of bytes, kilos, megas and gigas that the mantissa holds are exact |

The argument. What is left of the text is always a prefix of the trimmed text, and
what has been taken off is pairs of the unit's letter and `B` behind single letters, as
far as the present loop goes (`UnitsOff` in `SizesInv`). A loop ends where its suffix
ends, so at the end either everything behind the numeral and its spaces is gone, or
something is left that belongs to no spelling of the unit (`LoopsStop`). A text ends
in one unit only (`OneEnd`), so the branch that is taken is the only one in which the
text can be a size (`NumberDecides`). The rest is about `Trim`, whose first and last
inked places exist because a nonempty set of indices has a least and a greatest member
(`LeastNumber`, `GreatestNumber`, by the well-foundedness of strict inclusion between
finite sets), and about prefixes (`PrefixReads`).

The other three are about the arithmetic. `Spacing` is a recursive function on all
numbers; that it satisfies its recursion (`SpacingUnfolds`) is shown by the least number
for which it would not. From it follow, again by least counterexamples, that the spacing
keeps the number to the precision and not to less (`SpacingBounds`), is a multiple of
every spacing below it (`SpacingGrows`, `SpacingMultiple`) and doubles with the number
(`SpacingDoubles`). Rounding to multiples of one spacing keeps the order
(`RoundKeepsOrder`), and where two numbers have different spacings the precision times
the smaller one lies between the two results (`NearestKeepsOrderNat`). Above the numbers
that need no exponent rounding and the product with a power of two can be exchanged
(`NearestScales`), and so rounding and the product with a unit (`NearestMultiplies`); the
numbers below are no whole byte in any unit (`InBytesSmall`). So two sizes in different
units can be compared as numbers of bytes (`InBytesKeepsOrder`). A size is rounded by one
part in the precision before it is multiplied (`NearestAccurate`), and the product adds
nothing but the fraction of a byte that `as u64` cuts off (`InBytesAccurate`). The result
can be too large: a decimal just below a number of gigabytes may be read as that number.
Only for whole bytes is there nothing to round (`WholeBytes`).

`ProgramProofs`:

| theorem | states |
|---|---|
| `AsAskedCorrect` | `ProgramSafe => []AsAsked`: from the arguments to the output, a run that nothing disturbs does what the options are documented to do, where `Understood` holds |

`Understood` names the command lines, and the trees, for which the code follows its
documentation to the letter. Each of its clauses is needed:

* The table of the preset is what its comment says (finding `preset`).
* The bounds are sizes. One that is not is dropped (finding `mistake`).
* Folding an extension by all of Unicode gives the same as folding it by ASCII. Otherwise
  the filter compares with an extension no name can have (see above).
* An entry of the skip list that starts with a star has no other star and no question
  mark. The code compares what follows the star byte by byte (`walker.rs:295-297`), while a
  pattern that is written with a star is read as one.
* With `-n`, no name has a star (finding `star`), and if the pattern has a question mark
  no name has a character of several bytes. Without `-n` names may be of any bytes.

Every command line of run `asked` meets them (`AllUnderstood`), and so do, in a tree of
names without stars, all with `-t logs` or `-t checkpoints` or no preset, with bounds that
are sizes, ASCII extensions, names or `*.ext` in their skip list, and patterns of letters
and stars.

The argument. `Completed`, the two loops that append what a list lacks, is a recursive
function on the turns; it exists (`CompletionExists`) and has the elements of either list
(`CompletedRange`), so order and repetitions do not matter. The extension test finds the
end of the name where the dot of the extension would have to be, which is the end behind some dot
(`ExtensionMeaning`); a skip entry is a name or a star and a suffix (`EntryAsked`, with
`SkipMeaning` of `FilterLemmas`). A pattern means the same in bytes and in characters if it
has no question mark or the name no long character (`DescribesMeaning`), and `glob_match`
computes the former (`GlobAssumption`). Hence the options that `Scan` works with are what the
command line asks (`NameAsked`, `SkipAsked`, `SizeAsked`). Which directories are listed takes
more than `FoundExact`: that equation is also true of directories found only through one
another, so it bounds `found` from below. `Reached` bounds it from above: `found` is part of
every set that holds the root and, with a directory, its directories that are not skipped.
It is inductive beside `WalkInv`, because a directory publishes its children only after it
was found itself. Both together make `found` at the end `AskedDirs` (`FoundAsked`), and
`Wanted` is `Asked` (`WantedAsked`). `Silent`, also inductive, says that `-c` writes no line.
The outcome then is what `EachMatchOnce`, `CountExact` and `TotalExact` say of `Wanted`.

### Only model-checked

Liveness: `Termination` of the pool and of the walk, `ClosedPipeEnds`, and the fairness
halves of `AbstractSpec` and `ContractSpec`, whose safety halves are
`PoolImplementsTraversal` and `PoolKeepsContract`. The prover has no rules for fairness
and `ENABLED`. Every other property of a passing run is stated by a theorem.

### Not modelled

`benchmark.py`, which is no part of the program. Within the modelled parts: the
parser that clap generates, the tables of presets and of junk directories (constants,
of which the instances take one of each kind), the bytes of paths and lines, the
initial capacities of buffers (`Config::dir_batch_size` is one), the internals of
crossbeam and the standard library (taken by their contract), memory orders weaker than
store buffering, panics of the allocator, the panic of `s.spawn` (`scheduler.rs:40`) when
the system refuses a thread, and a tree that is changed while it is walked in a way that
moves a directory to a second parent or puts a symbolic link in its place.

## What could come next

1. The abstract `Worklist` composed with the pool inside `Scan`, so that the two
   refinements need not be joined by hand.
2. A variant for `Termination` of the pool, as far as it can be said without fairness.
3. A weaker memory model for `WorkPool`, with delayed loads.
