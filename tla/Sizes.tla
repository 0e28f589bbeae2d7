-------------------------------- MODULE Sizes --------------------------------
(***************************************************************************)
(* parse_size of src/cli.rs, one action per branch and per turn of         *)
(* trim_end_matches.                                                       *)
(***************************************************************************)
EXTENDS SizeTexts

CONSTANT Texts  (* the arguments considered                                *)

ASSUME TextsAssumption == Texts \subseteq Seq(Tokens)

VARIABLES
  text,    (* the argument                                                 *)
  s,       (* what is left of it                                           *)
  unit,    (* the unit it ends in                                          *)
  at,
  result

vars == <<text, s, unit, at, result>>

EndsIn(t, suffix) ==
  /\ Len(t) >= Len(suffix)
  /\ \A i \in DOMAIN suffix : t[Len(t) - Len(suffix) + i] = suffix[i]

Init ==
  /\ text \in Texts
  /\ s = text
  /\ unit = Byte /\ at = "case" /\ result = Invalid

(* trim and to_uppercase.                                                  *)
Normalise ==
  /\ at = "case"
  /\ s' = Trim(UpperCase(s))
  /\ at' = "unit"
  /\ UNCHANGED <<text, unit, result>>

(* The tests of lines 263 to 271.                                          *)
Has(u) == EndsIn(s, <<u>>) \/ EndsIn(s, <<u, Byte>>)

InPrefix(u) ==
  /\ at = "unit" /\ Has(u)
  /\ unit' = u
  /\ at' = "long"
  /\ UNCHANGED <<text, s, result>>

(* Faulty: the test for B comes first.                                     *)
InBytesFirst ==
  /\ at = "unit" /\ EndsIn(s, <<Byte>>)
  /\ at' = "short"
  /\ UNCHANGED <<text, s, unit, result>>

(* A text in B that is not in KB, MB or GB.                                *)
InByte ==
  /\ at = "unit" /\ EndsIn(s, <<Byte>>) /\ \A u \in Prefixes : ~Has(u)
  /\ at' = "short"
  /\ UNCHANGED <<text, s, unit, result>>

NoUnit ==
  /\ at = "unit" /\ ~EndsIn(s, <<Byte>>) /\ \A u \in Prefixes : ~Has(u)
  /\ at' = "number"
  /\ UNCHANGED <<text, s, unit, result>>

Chop(n) == s' = SubSeq(s, 1, Len(s) - n) /\ UNCHANGED <<text, unit, at, result>>
GoOn(from, to) == at = from /\ at' = to /\ UNCHANGED <<text, s, unit, result>>

(* trim_end_matches("GB")                                                  *)
ChopLong == at = "long" /\ EndsIn(s, <<unit, Byte>>) /\ Chop(2)
EndLong == ~EndsIn(s, <<unit, Byte>>) /\ GoOn("long", "short")

(* trim_end_matches("G")                                                   *)
ChopShort == at = "short" /\ EndsIn(s, <<unit>>) /\ Chop(1)
EndShort == ~EndsIn(s, <<unit>>) /\ GoOn("short", "number")

(* parse::<f64>, the product and the conversion.                           *)
Read ==
  /\ at = "number"
  /\ result' = LET t == Trim(s)
               IN  IF Len(t) = 1 /\ t[1] \in Numerals THEN InBytes(t[1], unit) ELSE Invalid
  /\ at' = "done"
  /\ UNCHANGED <<text, s, unit>>

Returned == at = "done" /\ UNCHANGED vars

Next ==
  \/ Normalise \/ (\E u \in Prefixes : InPrefix(u)) \/ InByte \/ NoUnit
  \/ ChopLong \/ EndLong \/ ChopShort \/ EndShort \/ Read \/ Returned

Safe == Init /\ [][Next]_vars

-------------------------------------------------------------------------------
(* The values the variables take: what is left is never longer than the    *)
(* argument.                                                               *)
TypeOK ==
  /\ text \in Texts
  /\ s \in Seq(Tokens) /\ Len(s) <= Len(text)
  /\ unit \in Prefixes \union {Byte}
  /\ at \in {"case", "unit", "long", "short", "number", "done"}
  /\ result \in 0 .. SizeMax \union {Invalid}

(* The two loops take off every spelling of the unit and nothing else: a   *)
(* text is accepted if and only if it is a size, and with the multiplier   *)
(* of the unit it is written in (cli.rs:263-281).                          *)
SizeMeaning == at = "done" => result = SizeOf(text)

(* Rounding, truncation and saturation keep the order: a --min-size that   *)
(* is not above a --max-size in what the user wrote is not above it in     *)
(* bytes, in whichever units the two are written (cli.rs:280).             *)
OrderKept ==
  at = "done" /\ result # Invalid /\ Value[NumeralOf(text)] # NaN =>
    \A y \in Numerals, v \in Prefixes \union {Byte} :
      Value[y] # NaN
        /\ Value[NumeralOf(text)] * Multiplier(UnitOf(text)) <= Value[y] * Multiplier(v)
      => result <= InBytes(y, v)

(* A size that fits is off by at most one part in Precision, the rounding  *)
(* of its numeral, and by the fraction of a byte that is cut off; whole    *)
(* bytes, kilos, megas and gigas that the mantissa of an f64 holds are     *)
(* exact (cli.rs:279-281).                                                 *)
Accurate ==
  LET written == Value[NumeralOf(text)]
      exact == written * Multiplier(UnitOf(text))
      off == exact - Fine * result
  IN  at = "done" /\ result # Invalid /\ written # NaN /\ written >= 0 =>
        \/ result = SizeMax /\ off >= 0
        \/ /\ Precision * off < exact + Precision * Fine
           /\ -Precision * off <= exact
           /\ written % Fine = 0 /\ written <= Precision * Fine => off = 0
===============================================================================
