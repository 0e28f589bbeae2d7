------------------------------- MODULE MCNames -------------------------------
(***************************************************************************)
(* Instances of Names for TLC: all patterns and names up to a length over  *)
(* small alphabets.                                                        *)
(***************************************************************************)
EXTENDS Names, SequencesExt

CONSTANTS PatternChars, NameChars, PatternLen, NameLen

MCChars == {"*", "?", ".", "a", "A"}
MCLower == [x \in MCChars |-> IF x = "A" THEN "a" ELSE x]
MCPatterns == BoundedSeq(PatternChars, PatternLen)
MCInputs == BoundedSeq(NameChars, NameLen)
===============================================================================
