------------------------------ MODULE Arguments ------------------------------
(***************************************************************************)
(* What the command line is turned into before the walk: src/cli.rs and    *)
(* src/config.rs.                                                          *)
(*                                                                         *)
(* A command line is a record with the fields of Cli.  The root, which no  *)
(* decision depends on, is left out.                                       *)
(***************************************************************************)
EXTENDS Filters, SizeTexts

CONSTANTS
  Presets,         (* FileType::extensions of each preset                  *)
  Documented,      (* the extensions that --help lists for it              *)
  Defaults,        (* DEFAULTS, the junk directories                       *)
  ToLowercase(_),  (* str::to_lowercase: all of Unicode, on UTF-8          *)
  None,
  Macos,           (* the program was built for macOS                      *)
  Cpus             (* num_cpus::get()                                      *)

ASSUME ArgumentsAssumption ==
  /\ \A t \in DOMAIN Presets : {Presets[t], Documented[t]} \subseteq Seq(Seq(Chars))
  /\ Defaults \in Seq(Seq(Chars)) /\ None \notin DOMAIN Presets
  /\ Macos \in BOOLEAN /\ Cpus \in Nat \ {0}

(* trim_start_matches('.')                                                 *)
StripDots(e) ==
  LET dots == {n \in 0 .. Len(e) : \A i \in 1 .. n : e[i] = Dot}
  IN  SubSeq(e, Max(dots) + 1, Len(e))

(* The user's list, and behind it what it lacks of the program's: the loop *)
(* after i turns.                                                          *)
Completed(own, given) ==
  LET list[i \in 0 .. Len(given)] ==
        IF i = 0 THEN own
        ELSE IF given[i] \in Range(list[i - 1]) THEN list[i - 1] ELSE Append(list[i - 1], given[i])
  IN  list[Len(given)]

(* Faulty: the user's extensions keep their case.                          *)
all_extensions_as_typed(cli) ==
  Completed([i \in DOMAIN cli.ext |-> StripDots(cli.ext[i])],
            IF cli.file_type = None THEN <<>> ELSE Presets[cli.file_type])

all_extensions(cli) ==
  Completed([i \in DOMAIN cli.ext |-> ToLowercase(StripDots(cli.ext[i]))],
            IF cli.file_type = None THEN <<>> ELSE Presets[cli.file_type])

skip_dirs(cli) ==
  Completed(cli.skip, IF cli.no_skip_defaults THEN <<>> ELSE Defaults)

(* A size that does not parse is dropped.                                  *)
SizeArgument(text) ==
  IF text = None \/ SizeOf(text) = Invalid THEN None ELSE SizeOf(text)

filter_config(cli) ==
  [extensions |-> all_extensions(cli), skip_dirs |-> skip_dirs(cli),
   min_size |-> SizeArgument(cli.min_size), max_size |-> SizeArgument(cli.max_size),
   name_pattern |-> cli.name, match_dirs |-> cli.dirs]

output_config(cli) ==
  [count_only |-> cli.count, sum_size |-> cli.sum_size, long_format |-> cli.long]

(* num_threads is -j as it is given.                                       *)
effective_threads(cli) ==
  IF cli.threads # None THEN cli.threads ELSE IF Macos THEN 4 ELSE Cpus
===============================================================================
