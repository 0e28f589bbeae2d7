------------------------------ MODULE MCProgram ------------------------------
(***************************************************************************)
(* Instances of Program for TLC.  The tree:                                *)
(*                                                                         *)
(*   r/   a.P  ab  va/   ba.p (a symbolic link)  x.p/   a.b                *)
(*   va/  b.p  ab/ (empty)                                                 *)
(*   x.p/ a.b                                                              *)
(*                                                                         *)
(* All names are ASCII, so that a question mark can be looked for.  The    *)
(* junk directories are called *.p.  Sizes are counted as in MCSizes; the  *)
(* numerals are 1 and 1.5 bytes.                                           *)
(***************************************************************************)
EXTENDS Program, TLC

CONSTANTS r, a, b, s, f, g, h, z, l, i,
          A, B, V, X, p, P,  (* bytes *)
          logs, models       (* presets *)

MCDirs == {r, a, b, s}
MCFiles == {f, g, h, z, i}
MCContents == r :> <<f, a, l, g, s, i>> @@ a :> <<h, b>> @@ b :> <<>> @@ s :> <<z>>
MCBytes == f :> 1 @@ g :> 3 @@ h :> 6 @@ z :> 2 @@ i :> 4 @@ a :> 4 @@ b :> 5 @@ s :> 4
             @@ r :> 4 @@ l :> 1

MCNameOf == r :> <<Dot>> @@ f :> <<A, Dot, P>> @@ g :> <<A, B>> @@ a :> <<V, A>>
  @@ l :> <<B, A, Dot, p>> @@ s :> <<X, Dot, p>> @@ i :> <<A, Dot, B>>
  @@ h :> <<B, Dot, p>> @@ b :> <<A, B>> @@ z :> <<A, Dot, B>>

MCChars == {A, B, V, X, p, P, Dot, Star, Query}
MCLower == [c \in MCChars |-> IF c = P THEN p ELSE c]
MCToLowercase(t) == [n \in DOMAIN t |-> MCLower[t[n]]]

(* One preset is what its comment says, the other has an extension more.   *)
MCPresets == logs :> <<<<p>>, <<B>>>> @@ models :> <<<<p>>, <<B>>>>
MCDocumented == logs :> <<<<p>>, <<B>>>> @@ models :> <<<<p>>>>
MCDefaults == <<<<Star, Dot, p>>, <<B>>>>
MCUpper == Kilo :> Kilo @@ Mega :> Mega @@ Giga :> Giga @@ Byte :> Byte
MCValue == [x \in Numerals |-> x]

(* glob_match from positions pi and si on, with the last star behind star  *)
(* characters of the pattern and match_si of the name.                     *)
RECURSIVE Greedy(_, _, _, _, _, _)
Greedy(pat, n, pi, si, star, match_si) ==
  IF si = Len(n) THEN \A k \in pi + 1 .. Len(pat) : pat[k] = Star
  ELSE IF pi < Len(pat) /\ pat[pi + 1] \in {Query, n[si + 1]}
       THEN Greedy(pat, n, pi + 1, si + 1, star, match_si)
  ELSE IF pi < Len(pat) /\ pat[pi + 1] = Star THEN Greedy(pat, n, pi + 1, si, pi, si)
  ELSE star # -1 /\ Greedy(pat, n, star + 1, match_si + 1, star, match_si + 1)

MCGlob(pat, n) == Greedy(pat, n, 0, 0, -1, 0)

Plain == [file_type |-> None, ext |-> <<>>, min_size |-> None, max_size |-> None,
          skip |-> <<>>, no_skip_defaults |-> FALSE, count |-> FALSE, sum_size |-> FALSE,
          long |-> FALSE, threads |-> None, dirs |-> FALSE, name |-> None]

(* pfind; -e P; -e .p -n a* -j 0; -t logs -c --no-skip-defaults;           *)
(* --skip va -s; --skip *b --no-skip-defaults -d; -j 1 -c -n ?b -s;        *)
(* -c --min-size 1K; --max-size 1.5B -j 2; -d -e P --no-skip-defaults -c;  *)
(* -t logs -e B -n a*                                                      *)
MCCommandLines ==
  {Plain,
   [Plain EXCEPT !.ext = <<<<P>>>>],
   [Plain EXCEPT !.ext = <<<<Dot, p>>>>, !.name = <<A, Star>>, !.threads = 0],
   [Plain EXCEPT !.file_type = logs, !.no_skip_defaults = TRUE, !.count = TRUE],
   [Plain EXCEPT !.skip = <<<<V, A>>>>, !.sum_size = TRUE],
   [Plain EXCEPT !.skip = <<<<Star, B>>>>, !.no_skip_defaults = TRUE, !.dirs = TRUE],
   [Plain EXCEPT !.threads = 1, !.count = TRUE, !.name = <<Query, B>>, !.sum_size = TRUE],
   [Plain EXCEPT !.count = TRUE, !.min_size = <<5120, Kilo>>],
   [Plain EXCEPT !.max_size = <<7680, Byte>>, !.threads = 2],
   [Plain EXCEPT !.dirs = TRUE, !.ext = <<<<P>>>>, !.no_skip_defaults = TRUE, !.count = TRUE],
   [Plain EXCEPT !.file_type = logs, !.ext = <<<<B>>>>, !.name = <<A, Star>>]}

(* --min-size "1 1", which is no size.                                     *)
MCMistaken == {[Plain EXCEPT !.min_size = <<5120, Space, 5120>>]}

(* None of them is of a kind that AsAsked says nothing of.                 *)
ASSUME AllUnderstood == \A c \in MCCommandLines : Understood(c)

(* -t models                                                               *)
MCPresetLine == {[Plain EXCEPT !.file_type = models]}

MCOptions == Range(Configurations)
===============================================================================
