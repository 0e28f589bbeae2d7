------------------------------ MODULE SizeTexts ------------------------------
(***************************************************************************)
(* What the argument of --min-size and --max-size means (parse_size of     *)
(* src/cli.rs), without the loops that take its unit off.                  *)
(*                                                                         *)
(* A text is a sequence of letters, spaces and numerals.  A numeral stands *)
(* for a longest part that f64::from_str reads as a number (digits, signs, *)
(* exponents, "inf", "nan"); none of those ends in a letter that is a unit.*)
(* Numbers are counted in a unit small enough for every numeral to be a    *)
(* whole number of it, finer than any f64: decimals such as 0.1 are none.  *)
(***************************************************************************)
EXTENDS Integers, Sequences, FiniteSetsExt

CONSTANTS
  Numerals,
  Value,          (* Value[x]: the number x stands for (one above SizeMax  *)
                  (* for infinity)                                         *)
  NaN,
  Kilo, Mega, Giga, Byte,  (* the letters K, M, G, B                       *)
  Space,
  Upper,          (* to_uppercase of a letter                              *)
  Fine,           (* a byte                                                *)
  Least,          (* 2^-1074, the least f64 above zero                     *)
  Thousand,       (* 1024                                                  *)
  Precision,      (* 2^53, the values of a mantissa                        *)
  SizeMax,        (* u64::MAX                                              *)
  Invalid         (* Err                                                   *)

Prefixes == {Kilo, Mega, Giga}
Tokens == Numerals \union DOMAIN Upper \union {Space}

ASSUME SizeTextAssumption ==
  /\ Value \in [Numerals -> Int \union {NaN}] /\ NaN \notin Int /\ Invalid \notin Nat
  /\ {Fine, Least, Thousand, Precision} \subseteq Nat \ {0} /\ SizeMax \in Nat
  /\ Upper \in [DOMAIN Upper -> DOMAIN Upper]
  /\ Byte \notin Prefixes /\ Prefixes \union {Byte} \subseteq DOMAIN Upper
  /\ \A c \in Prefixes \union {Byte} : Upper[c] = c
  /\ Numerals \intersect DOMAIN Upper = {} /\ Space \notin Numerals \union DOMAIN Upper

-------------------------------------------------------------------------------
(* Arithmetic.                                                             *)

(* Numbers up to here need no exponent: their neighbours are Least apart.  *)
Finest == Precision * Least

(* The distance of neighbouring f64 at x >= 0 doubles as the number does.  *)
Spacing[x \in Nat] == IF x <= Finest THEN Least ELSE 2 * Spacing[(x + 1) \div 2]

(* A byte is an f64, and so is 1024: powers of two.                        *)
ASSUME PowersAssumption ==
  /\ Fine = Spacing[Precision * Fine]
  /\ Thousand * Least = Spacing[Precision * (Thousand * Least)]

(* Those numbers are less than a byte even if they are counted in G.       *)
ASSUME FinestAssumption == Finest * (Thousand * Thousand * Thousand) < Fine

(* Faulty: digits beyond the precision are cut off.                        *)
NearestDown(x) ==
  IF x < 0 THEN -(((-x) \div Spacing[-x]) * Spacing[-x]) ELSE (x \div Spacing[x]) * Spacing[x]

(* The multiple of u nearest to x, the even one of two.                    *)
Round(x, u) ==
  LET q == x \div u
      over == x % u
      up == 2 * over > u \/ (2 * over = u /\ q % 2 = 1)
  IN  IF up THEN (q + 1) * u ELSE q * u

(* The f64 nearest to x, which f64::from_str reads.  There is no largest   *)
(* one: what is infinite to the code is above u64::MAX here.               *)
Nearest(x) == IF x < 0 THEN -Round(-x, Spacing[-x]) ELSE Round(x, Spacing[x])

(* Faulty: the conversion wraps.                                           *)
ToSizeWraps(x) == (x \div Fine) % (SizeMax + 1)

(* Faulty: the conversion does not saturate.                               *)
ToSizeWide(x) == IF x < 0 THEN 0 ELSE x \div Fine

(* as u64: cut off the fraction, saturate at both ends.                    *)
ToSize(x) == IF x < 0 THEN 0 ELSE Min({x \div Fine, SizeMax})

Multiplier(unit) ==
  CASE unit = Giga -> Thousand * Thousand * Thousand
    [] unit = Mega -> Thousand * Thousand
    [] unit = Kilo -> Thousand
    [] OTHER -> 1

(* The number is read first and multiplied then; the product of two f64    *)
(* one of which is a power of two needs no rounding.                       *)
InBytes(x, unit) ==
  IF Value[x] = NaN THEN 0 ELSE ToSize(Nearest(Value[x]) * Multiplier(unit))

-------------------------------------------------------------------------------
(* Texts.                                                                  *)

UpperCase(t) == [i \in DOMAIN t |-> IF t[i] \in DOMAIN Upper THEN Upper[t[i]] ELSE t[i]]

Trim(t) ==
  LET inked == {i \in DOMAIN t : t[i] # Space}
  IN  IF inked = {} THEN <<>> ELSE SubSeq(t, Min(inked), Max(inked))

(* The unit may be written as any number of its letter and then any number *)
(* of its letter followed by B; B itself any number of times.              *)
IsUnit(t, unit) ==
  IF unit = Byte
  THEN \A i \in DOMAIN t : t[i] = Byte
  ELSE \E n \in 0 .. Len(t) :
         /\ \A i \in 1 .. n : t[i] = unit
         /\ (Len(t) - n) % 2 = 0
         /\ \A i \in n + 1 .. Len(t) : t[i] = IF (i - n) % 2 = 1 THEN unit ELSE Byte
         /\ Len(t) > 0

(* A size is a numeral, spaces and a unit, in either case and with spaces  *)
(* around it.  Without a unit it is in bytes.                              *)
IsSize(text, unit) ==
  LET t == Trim(UpperCase(text))
  IN  /\ t # <<>> /\ t[1] \in Numerals
      /\ \E n \in 1 .. Len(t) :
           /\ \A i \in 2 .. n : t[i] = Space
           /\ IsUnit(SubSeq(t, n + 1, Len(t)), unit)

NumeralOf(text) == Head(Trim(UpperCase(text)))
UnitOf(text) == CHOOSE unit \in Prefixes \union {Byte} : IsSize(text, unit)

(* What parse_size is to return.                                           *)
SizeOf(text) ==
  IF \E unit \in Prefixes \union {Byte} : IsSize(text, unit)
  THEN InBytes(NumeralOf(text), UnitOf(text))
  ELSE Invalid
===============================================================================
