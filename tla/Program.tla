------------------------------- MODULE Program -------------------------------
(***************************************************************************)
(* The whole program: a command line (module Arguments) turned into the    *)
(* configuration of a walk (module Scan) whose entries have names (module  *)
(* Filters), and what its documentation says it finds.                     *)
(***************************************************************************)
EXTENDS Scan, Arguments

CONSTANTS
  CommandLines,  (* the command lines considered                           *)
  NameOf,        (* the names of the entries                               *)
  Continuing,    (* the bytes of UTF-8 that no character begins with       *)
  Glob(_, _)     (* what glob_match returns for a pattern and a name       *)

ASSUME NameAssumption ==
  NameOf \in [Entries -> Seq(Chars)] /\ Continuing \subseteq Chars \ {Star, Query, Dot}

ASSUME CommandLineAssumption ==
  /\ None = NoBound /\ None \notin Nat /\ None \notin Seq(Chars) \union Seq(Tokens)
  /\ CommandLines \subseteq
       [file_type : {None} \union DOMAIN Presets, ext : Seq(Seq(Chars)),
        min_size : {None} \union Seq(Tokens), max_size : {None} \union Seq(Tokens),
        skip : Seq(Seq(Chars)), no_skip_defaults : BOOLEAN, count : BOOLEAN,
        sum_size : BOOLEAN, long : BOOLEAN, threads : {None} \union Nat,
        dirs : BOOLEAN, name : {None} \union Seq(Chars)]

(* What glob_match returns for a name without a star is what the pattern   *)
(* means: GlobCorrect of NamesProofs.  For other names nothing is assumed. *)
ASSUME GlobAssumption ==
  \A c \in CommandLines, e \in Entries :
    c.name # None /\ StarFree(NameOf[e]) =>
      (Glob(c.name, NameOf[e]) <=> Matches(c.name, NameOf[e]))

VARIABLE cli

(* name_matches: one of the extensions if there are any, and the pattern   *)
(* if there is one.                                                        *)
NameAccepted(extensions, patterns, n) ==
  /\ extensions # <<>> => \E e \in Range(extensions) : ExtensionMatches(n, e)
  /\ \A p \in patterns : Glob(p, n)

(* FilterConfig, OutputConfig and effective_threads as Scan sees them.     *)
Configure(c) ==
  LET filters == filter_config(c)
      o == output_config(c)
      patterns == {filters.name_pattern} \ {None}
  IN  [threads |-> effective_threads(c),
       count_only |-> o.count_only, sum_size |-> o.sum_size, long_format |-> o.long_format,
       match_dirs |-> filters.match_dirs, min_size |-> filters.min_size, max_size |-> filters.max_size,
       named |-> filters.extensions # <<>> \/ patterns # {},
       hits |-> {e \in Entries : NameAccepted(filters.extensions, patterns, NameOf[e])},
       skips |-> {d \in Dirs : ShouldSkip(filters.skip_dirs, NameOf[d])}]

Configurations == [c \in CommandLines |-> Configure(c)]

(* Scan is ready for them.                                                 *)
ASSUME OptionsSuffice == \A c \in CommandLines : Configurations[c] \in Options

ProgramInit ==
  /\ cli \in CommandLines
  /\ opts = Configurations[cli]
  /\ Spawn
  /\ Fresh

ProgramNext == Next /\ UNCHANGED cli

ProgramSafe == ProgramInit /\ [][ProgramNext]_<<vars, cli>>

-------------------------------------------------------------------------------
(* What the documentation promises of a command line: cli.rs:14-98, which  *)
(* --help prints, and the comments of process.rs.                          *)

(* The extensions asked for, without their dots and in lower case.         *)
AskedExtensions(c) ==
  {LowerCase(StripDots(e)) : e \in Range(c.ext)}
    \union (IF c.file_type = None THEN {} ELSE Range(Documented[c.file_type]))

(* The bytes of n behind the i-th up to the j-th are one character.        *)
IsCharacter(n, i, j) ==
  /\ i < j /\ \A m \in i + 1 .. j : n[m] \in Continuing <=> m > i + 1
  /\ j < Len(n) => n[j + 1] \notin Continuing

(* What a pattern means in characters: a question mark stands for one of   *)
(* them, and a star for any number.                                        *)
Describes(p, n) ==
  \E c \in [0 .. Len(p) -> 0 .. Len(n)] :
    /\ c[0] = 0 /\ c[Len(p)] = Len(n)
    /\ \A k \in 1 .. Len(p) :
         CASE p[k] = Star -> c[k - 1] <= c[k]
           [] p[k] = Query -> IsCharacter(n, c[k - 1], c[k])
           [] OTHER -> c[k] = c[k - 1] + 1 /\ n[c[k]] = p[k]

HasAskedExtension(c, n) ==
  \E k \in DOMAIN n : n[k] = Dot /\ LowerCase(SubSeq(n, k + 1, Len(n))) \in AskedExtensions(c)

AskedName(c, n) ==
  /\ AskedExtensions(c) # {} => HasAskedExtension(c, n)
  /\ c.name # None => Describes(c.name, n)

(* Skipped by name or by a pattern that starts with a star.                *)
AskedSkip(c, n) ==
  \E p \in Range(c.skip) \union (IF c.no_skip_defaults THEN {} ELSE Range(Defaults)) :
    p = n \/ (p # <<>> /\ Head(p) = Star /\ Describes(p, n))

(* The directories on whose path from the root nothing is skipped.         *)
AskedDirs(c) ==
  LET whole(S) == /\ Root \in S
                   /\ \A d \in S : \A e \in Range(Contents[d]) \intersect Dirs :
                        ~AskedSkip(c, NameOf[e]) => e \in S
  IN  {d \in Dirs : \A S \in SUBSET Dirs : whole(S) => d \in S}

(* The size is between the bounds.  A bound that is no size is not met.    *)
WithinBounds(c, e) ==
  /\ c.min_size # None => SizeOf(c.min_size) # Invalid /\ Bytes[e] >= SizeOf(c.min_size)
  /\ c.max_size # None => SizeOf(c.max_size) # Invalid /\ Bytes[e] <= SizeOf(c.max_size)

Asked == [c \in CommandLines |->
  {e \in UNION {Range(Contents[d]) : d \in AskedDirs(c)} :
     /\ AskedName(c, NameOf[e])
     /\ IF c.dirs THEN e \in AskedDirs(c) ELSE e \in Files /\ WithinBounds(c, e)}]

(* Where the code does what its documentation says: for a preset whose     *)
(* comment lists all its extensions, bounds that are sizes, extensions in  *)
(* which only ASCII letters have a case, entries of the skip list with no  *)
(* special character but a leading star, and a pattern in a tree of which  *)
(* no name has a star and, if the pattern has a question mark, a character *)
(* of several bytes.                                                       *)
Understood(c) ==
  /\ c.file_type # None => Range(Presets[c.file_type]) = Range(Documented[c.file_type])
  /\ \A text \in {c.min_size, c.max_size} \ {None} : SizeOf(text) \in Nat
  /\ \A e \in Range(c.ext) : ToLowercase(StripDots(e)) = LowerCase(StripDots(e))
  /\ \A p \in Range(skip_dirs(c)) :
       p # <<>> /\ Head(p) = Star => {Star, Query} \intersect Range(Tail(p)) = {}
  /\ c.name # None =>
       \A e \in Entries :
         /\ StarFree(NameOf[e])
         /\ Query \in Range(c.name) => Range(NameOf[e]) \intersect Continuing = {}

(* Nothing has been hidden by an I/O error.                                *)
Undisturbed == exit = "ok" /\ failed = {} /\ sizeless = {} /\ listed = walked

(* With any number of workers, the run that nothing disturbs prints each   *)
(* entry that the command line asks for once and no other, or their number *)
(* with -c, and the sum of their sizes with -s (cli.rs:14-64), where the   *)
(* code does what its documentation says.                                  *)
AsAsked ==
  Understood(cli) /\ Undisturbed =>
    /\ IF cli.count
       THEN stdout = <<>> /\ report[1] = Cardinality(Asked[cli])
       ELSE IsInjective(stdout) /\ Range(stdout) = Asked[cli]
    /\ cli.sum_size =>
         report[Len(report)] = MapThenSumSet(LAMBDA e : Bytes[e], Asked[cli]) % (U64Max + 1)

(* What is printed with -t has one of the extensions that --help lists for *)
(* the preset (cli.rs:70-98), or one of those given with -e.               *)
PresetAsDocumented ==
  cli.file_type # None => \A e \in Range(stdout) : HasAskedExtension(cli, NameOf[e])

(* A file is printed only if it meets the bounds on the command line.      *)
BoundsHonoured == \A e \in Range(stdout) \intersect Files : WithinBounds(cli, e)
===============================================================================
