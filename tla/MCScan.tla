-------------------------------- MODULE MCScan --------------------------------
(***************************************************************************)
(* An instance of Scan for TLC: a root with two files, a subdirectory that *)
(* holds a file and a directory, a skipped directory and a symbolic link.  *)
(***************************************************************************)
EXTENDS Scan, TLC

CONSTANTS r, a, b, s, f, g, h, z, l, Hits, Skips

MCDirs == {r, a, b, s}
MCFiles == {f, g, h, z}
MCContents == r :> <<f, a, l, g, s>> @@ a :> <<h, b>> @@ b :> <<>> @@ s :> <<z>>
MCBytes == f :> 1 @@ g :> 3 @@ h :> 7 @@ z :> 2 @@ a :> 4 @@ b :> 5 @@ s :> 4 @@ r :> 4 @@ l :> 1

Plain == [count_only |-> FALSE, sum_size |-> FALSE, long_format |-> FALSE,
          match_dirs |-> FALSE, named |-> FALSE, min_size |-> NoBound, max_size |-> NoBound,
          hits |-> Hits, skips |-> Skips, threads |-> N]

(* pfind; -c; -c -s --min-size 2; -n PAT --min-size 2 --max-size 4; -d;    *)
(* -d -n PAT -s; all with -j N.                                            *)
MCOptions ==
  {Plain,
   [Plain EXCEPT !.count_only = TRUE],
   [Plain EXCEPT !.count_only = TRUE, !.sum_size = TRUE, !.min_size = 2],
   [Plain EXCEPT !.named = TRUE, !.min_size = 2, !.max_size = 4],
   [Plain EXCEPT !.match_dirs = TRUE],
   [Plain EXCEPT !.match_dirs = TRUE, !.named = TRUE, !.sum_size = TRUE]}
===============================================================================
