------------------------------- MODULE Filters -------------------------------
(***************************************************************************)
(* The name filters of src/process.rs and src/walker.rs without their      *)
(* loops, and what a glob pattern means.                                   *)
(*                                                                         *)
(* Names, patterns, extensions and entries of the skip list are sequences  *)
(* of bytes, as they are in the code (OsStrExt::as_bytes).                 *)
(***************************************************************************)
EXTENDS Integers, Sequences, Functions

CONSTANTS
  Chars,              (* the bytes                                         *)
  Star, Query, Dot,   (* '*', '?' and '.'                                  *)
  Lower               (* to_ascii_lowercase                                *)

ASSUME CharsAssumption ==
  /\ {Star, Query, Dot} \subseteq Chars
  /\ Star # Query /\ Star # Dot /\ Query # Dot
  /\ Lower \in [Chars -> Chars]
  /\ \A c \in Chars : Lower[c] = Dot <=> c = Dot

-------------------------------------------------------------------------------
(* The tests without a loop.                                               *)

(* Faulty: the dot is not looked at.                                       *)
ExtensionEnds(n, ext) ==
  LET dot == Len(n) - Len(ext)
  IN  /\ Len(n) > Len(ext)
      /\ \A i \in DOMAIN ext : Lower[n[dot + i]] = ext[i]

(* name_matches_extension: a dot, then the extension in either case.       *)
ExtensionMatches(n, ext) ==
  LET dot == Len(n) - Len(ext)
  IN  /\ Len(n) > Len(ext)
      /\ n[dot] = Dot
      /\ \A i \in DOMAIN ext : Lower[n[dot + i]] = ext[i]

(* Faulty: the part behind the star must be shorter than the name.         *)
SkipLonger(skip, n) ==
  \/ skip = n
  \/ /\ skip # <<>> /\ Head(skip) = Star
     /\ Len(n) > Len(skip) - 1
     /\ SubSeq(n, Len(n) - Len(skip) + 2, Len(n)) = Tail(skip)

(* should_skip_dir_bytes, for one entry of the list: the name itself, or   *)
(* any name that ends with what follows a leading star.                    *)
SkipMatches(skip, n) ==
  \/ skip = n
  \/ /\ skip # <<>> /\ Head(skip) = Star
     /\ Len(n) >= Len(skip) - 1
     /\ SubSeq(n, Len(n) - Len(skip) + 2, Len(n)) = Tail(skip)

-------------------------------------------------------------------------------
(* What a pattern means: the name can be cut, c[k] characters lying before *)
(* the end of the k-th character of the pattern, so that each character of *)
(* the pattern but a star gets exactly one that it stands for, and a star  *)
(* any number.  Stretches of the pattern without a star are as long as     *)
(* what they match.                                                        *)
Cuts(p, n, i, c) ==
  /\ \A k, l \in i .. Len(p) : k < l =>
       /\ c[k] <= c[l]
       /\ (\A m \in k + 1 .. l : p[m] # Star) => c[l] = c[k] + (l - k)
  /\ \A k \in i + 1 .. Len(p) :
       p[k] # Star /\ p[k] # Query => n[c[k]] = p[k]

(* The rest of p from position i on matches the rest of n from j on.       *)
MatchesFrom(p, n, i, j) ==
  \E c \in [i .. Len(p) -> j .. Len(n)] :
    c[i] = j /\ c[Len(p)] = Len(n) /\ Cuts(p, n, i, c)

Matches(p, n) == MatchesFrom(p, n, 0, 0)

StarFree(n) == Star \notin Range(n)

(* to_ascii_lowercase of every byte.                                       *)
LowerCase(n) == [i \in DOMAIN n |-> Lower[n[i]]]

-------------------------------------------------------------------------------
(* should_skip_dir_bytes.                                                  *)
ShouldSkip(skip_dirs, n) == \E s \in Range(skip_dirs) : SkipMatches(s, n)
===============================================================================
