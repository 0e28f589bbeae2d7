------------------------------- MODULE MCSizes -------------------------------
(***************************************************************************)
(* Instances of Sizes for TLC.  Numbers are counted in 5120ths of a byte;  *)
(* a "kilo" is 4, a u64 has 7 bits, an f64 a mantissa of 3 and no step     *)
(* below 5 / 5120, so that no decimal fraction but a half, a quarter, ...  *)
(* is an f64.                                                              *)
(***************************************************************************)
EXTENDS Sizes, TLC

CONSTANTS lower_g, nan

MCUpper == Kilo :> Kilo @@ Mega :> Mega @@ Giga :> Giga @@ Byte :> Byte @@ lower_g :> Giga
MCValue == [x \in Numerals |-> IF x = nan THEN NaN ELSE x]

(* Each side of every boundary: zero, the least f64, the numbers that are  *)
(* still below a byte in G, 0.1, 1.1, whole bytes and their quarters, the  *)
(* end of each spacing of the f64, ties, and the end of a u64.             *)
MCNumerals ==
  {nan, -3840, 0, 1, 2, 3, 5, 39, 40, 41, 42, 45, 46, 79, 81, 159, 399, 401, 512, 2559, 2561, 5632}
    \union {1280 * q : q \in {1, 4, 6, 7, 8, 9, 11, 13, 14, 15, 20, 31, 32, 33, 34, 35, 36, 37, 39,
                           127, 128, 255, 506, 508, 511, 512, 540, 700}}

(* Every text of at most five tokens in which no two numerals meet, with   *)
(* the numeral two and a quarter: rounded, and above SizeMax with a G.     *)
Spellings ==
  {t \in UNION {[1 .. n -> {11520, Space} \union DOMAIN Upper] : n \in 0 .. 5} :
     \A i \in 1 .. Len(t) - 1 : ~(t[i] \in Numerals /\ t[i + 1] \in Numerals)}

(* Every numeral, without a unit, in K and in g.                           *)
MCTexts ==
  Spellings \union {<<x>> : x \in Numerals} \union {<<x, u>> : x \in Numerals, u \in {Kilo, lower_g}}
===============================================================================
